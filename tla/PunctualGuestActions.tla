------------------------ MODULE PunctualGuestActions ------------------------
(***************************************************************************)
(* GuestActions in an environment that does all it can for the locks: a    *)
(* command ends before the timeout it asked its lock for, and nothing but  *)
(* the commands takes time.                                                *)
(***************************************************************************)
EXTENDS GuestActions

VARIABLE began   \* when the current command of each operation started

InitPunctual == Init /\ began = [o \in Ops |-> 0]

\* Time may pass while o runs a command, and not past the command's timeout.
OnTime(o) ==
  \/ phase[o] \notin Holding
  \/ /\ phase[o] = "executing"
     /\ now + 1 < began[o] + LockTimeout(request[o][ran[o] + 1])

StartsCommand(o) == phase'[o] = "executing" /\ (phase[o] # "executing" \/ ran'[o] # ran[o])

NextPunctual ==
  /\ Next
  /\ now' # now => \A o \in Ops : OnTime(o)
  /\ began' = [o \in Ops |-> IF StartsCommand(o) THEN now ELSE
                             IF phase'[o] = "executing" THEN began[o] ELSE 0]

SpecPunctual == InitPunctual /\ [][NextPunctual]_<<vars, began>>

-----------------------------------------------------------------------------
(* Properties *)

\* With one command per request and commands that keep to their timeouts the
\* locks do what they are there for: the operations that run form an exclusive
\* use of the keys, each announced and concluded in order.
Access == INSTANCE ExclusiveOperations WITH
  stage <- [o \in Ops |-> CASE phase[o] \in Holding -> "active"
                            [] phase[o] = "closed" -> "ended"
                            [] OTHER -> "idle"],
  uses <- [o \in Ops |-> IF phase[o] \in Holding
                           THEN {k \in Keys : lease[o][k] # 0} ELSE {}],
  told <- [o \in Ops |-> IF reports[o] = <<>> THEN "nothing"
                                              ELSE reports[o][Len(reports[o])]]

ImplementsExclusiveOperations == Access!Spec
=============================================================================
