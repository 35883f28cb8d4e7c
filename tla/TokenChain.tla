------------------------------ MODULE TokenChain ------------------------------
(***************************************************************************)
(* What sessions and refresh tokens promise, without requests: a session   *)
(* is opened once and never again after its end; it is carried by a chain  *)
(* of refresh tokens of which at most one is live, each issued once and    *)
(* never live again once spent; an end concerns a single user.             *)
(***************************************************************************)
CONSTANTS Sid, Jti, User, UserOf

VARIABLES
    opened,  \* the sessions that were ever opened
    open,    \* those that still are
    live,    \* <<session, token>>: the token that can renew the session
    spent    \* <<session, token>>: the tokens that were live before

vars == <<opened, open, live, spent>>

Init == opened = {} /\ open = {} /\ live = {} /\ spent = {}

NeverIssued(t) == \A x \in Sid : <<x, t>> \notin live \cup spent

Issue(x, t) ==
    /\ NeverIssued(t)
    /\ \A s \in Jti : <<x, s>> \notin live
    /\ live' = live \cup {<<x, t>>}
    /\ UNCHANGED spent

Open(x, t) ==
    /\ x \notin opened
    /\ opened' = opened \cup {x}
    /\ open' = open \cup {x}
    /\ Issue(x, t)

Renew(x, t) == x \in opened /\ Issue(x, t) /\ UNCHANGED <<opened, open>>

\* Sessions and tokens of user u come to an end.
End(u) ==
    /\ open' \subseteq open
    /\ live' \subseteq live
    /\ \A x \in open \ open' : UserOf[x] = u
    /\ \A p \in live \ live' : UserOf[p[1]] = u
    /\ spent' = spent \cup (live \ live')
    /\ UNCHANGED opened

Next ==
    \/ \E x \in Sid, t \in Jti : Open(x, t) \/ Renew(x, t)
    \/ \E u \in User : End(u)

Spec == Init /\ [][Next]_vars
===============================================================================
