---------------------------- MODULE PendingEntry ----------------------------
(***************************************************************************)
(* The entry that PendingReconciliationSet (internal/recovery/pending.go)  *)
(* keeps for one task: who may still signal the task's process, and who    *)
(* only watches it die.  Every operation of the set runs under its mutex,  *)
(* so each is an operator from an entry to the next one.                   *)
(*                                                                         *)
(* An authority names the one process of the task, so of its fields only   *)
(* the expected state and the presence of a lifecycle generation can       *)
(* differ.  A claim token is never reused, and a claimant holds one claim  *)
(* at a time: the claimant's name stands for the token.                    *)
(***************************************************************************)

NoAuth == [exp |-> "none", gen |-> FALSE]
Authorities == [exp : {"timeout", "cancelling"}, gen : BOOLEAN]

Dispositions == {"unsent", "sent", "confirm-only"}
NoEntry == [st |-> "none", auth |-> NoAuth, by |-> "none", back |-> FALSE]

Entry(s, a) == [st |-> s, auth |-> a, by |-> "none", back |-> FALSE]

\* An entry that is claimed cannot be registered over; one that was sent stays so.
Register(e, d, a) ==
  CASE e.st = "none"                                -> Entry(d, a)
    [] e.st = "unsent"                              -> Entry(d, a)
    [] e.st = "confirm-only" /\ d = "sent"          -> Entry("sent", NoAuth)
    [] OTHER                                        -> e

ConfirmOnly(e) == Register(e, "confirm-only", NoAuth)

\* What a sender that presents authority a is told.
ClaimOutcome(e, a) ==
  CASE e.st = "none"                    -> "not-found"
    [] e.st = "claimed"                 -> "already-claimed"
    [] e.st = "sent"                    -> "sent"
    [] e.st = "unsent" /\ e.auth = a    -> "acquired"
    [] OTHER                            -> "confirm-only"

\* A mismatching authority fails closed: nobody may send any more.
Claimed(e, a, c, from) ==
  CASE ClaimOutcome(e, a) = "acquired"  -> [st |-> "claimed", auth |-> a, by |-> c, back |-> from]
    [] e.st = "unsent"                  -> Entry("confirm-only", NoAuth)
    [] OTHER                            -> e

ClaimForSend(e, a, c) == Claimed(e, a, c, FALSE)

\* The first sender needs no entry: it makes one, already claimed.
InitialOutcome(e, a) == IF e.st = "none" THEN "acquired" ELSE ClaimOutcome(e, a)

ClaimInitialSend(e, a, c) ==
  IF e.st = "none" THEN [st |-> "claimed", auth |-> a, by |-> c, back |-> FALSE]
                   ELSE Claimed(e, a, c, TRUE)

Holds(e, c) == e.st = "claimed" /\ e.by = c

CompleteSend(e, c)   == IF Holds(e, c) THEN Entry("sent", NoAuth) ELSE e
ReleaseSend(e, c)    == IF Holds(e, c) THEN Entry("unsent", e.auth) ELSE e
InvalidateSend(e, c) == IF Holds(e, c) THEN Entry("confirm-only", NoAuth) ELSE e

\* A claim taken over unsent work gives that work back.
RemoveClaim(e, c) ==
  IF Holds(e, c) THEN (IF e.back THEN Entry("unsent", e.auth) ELSE NoEntry) ELSE e

Remove(e) == IF e.st = "claimed" THEN e ELSE NoEntry
=============================================================================
