--------------------------------- MODULE Office ---------------------------------
(* Files and tasks, profiles, and notifications, side by side: no handler     *)
(* reads or writes the rows of another part.                                  *)
EXTENDS BackOffice, Profiles, Notifications

OfficeSpec == Spec /\ ProfilesSpec /\ NotificationsSpec

\* The values of every variable of the three modules: no step of a request, a
\* job or a socket stores something of another kind, and the reminders of one
\* key stay as few as the tasks that jobs may each remind of.
AllTyped == TypeOK /\ ProfilesTyped /\ NotificationsTyped
===============================================================================
