----------------------------- MODULE MCCatalogue -----------------------------
(* Two users, two products, two requests at a time. *)
EXTENDS Catalogue, TLC

CONSTANTS u1, u2, p, q, r1, r2

Get(user, key) == [kind |-> "read", user |-> user, key |-> key, products |-> {}]
Write(kind, user, products) ==
    [kind |-> kind, user |-> user, key |-> None, products |-> products]

TwoUsers == {u1, u2}
TwoProducts == {p, q}
TwoRequests == {r1, r2}
Ops == {Get(u1, p), Get(u2, List), Write("create", u2, {p}), Write("bulk create", u2, {p, q}),
        Write("change", u1, {p, q}), Write("delete", u2, {p, q}),
        Write("restore", u1, {p}), Write("reserve", u1, {p}), Write("release", u1, {p, q})}
===============================================================================
