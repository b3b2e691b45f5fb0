------------------------- MODULE CredentialDelivery -------------------------
(***************************************************************************)
(* What the operator promises its users about one account per request,     *)
(* without a cluster, caches, queues or failures: an account is issued     *)
(* only to a guarded request, what is handed out is what the producer      *)
(* accepts (or the credential from before the migration), and a request    *)
(* goes away only after its account, unless the account is given up.       *)
(***************************************************************************)
CONSTANTS Requests, Legacy, Creds, V2Cred, NoCred

VARIABLES
  guard,      \* the request: open, guarded by the finalizer, ending or gone
  account,    \* the credential the producer accepts
  held,       \* the credential in the hands of the consumer
  abandoned   \* requests that went away without asking the producer

vars == <<guard, account, held, abandoned>>

Init ==
  /\ guard = [r \in Requests |-> "open"]
  /\ account = [r \in Requests |-> IF r \in Legacy THEN V2Cred ELSE NoCred]
  /\ held = [r \in Requests |-> NoCred]
  /\ abandoned = {}

Guarded(r) == guard[r] \in {"guarded", "ending"}

Guard(r) ==
  /\ guard[r] = "open"
  /\ guard' = [guard EXCEPT ![r] = "guarded"]
  /\ UNCHANGED <<account, held, abandoned>>

(* A request ends: with a guard, it stays until it is released.            *)
End(r) ==
  /\ \/ guard[r] = "open" /\ guard' = [guard EXCEPT ![r] = "gone"]
     \/ guard[r] = "guarded" /\ guard' = [guard EXCEPT ![r] = "ending"]
  /\ UNCHANGED <<account, held, abandoned>>

(* A credential nobody has replaces the one the producer accepted so far.  *)
Issue(r) ==
  /\ Guarded(r)
  /\ \E c \in Creds \ ({V2Cred} \cup {account[q] : q \in Requests}
                                \cup {held[q] : q \in Requests}) :
       account' = [account EXCEPT ![r] = c]
  /\ UNCHANGED <<guard, held, abandoned>>

Deliver(r) ==
  /\ Guarded(r)
  /\ account[r] # NoCred
  /\ held' = [held EXCEPT ![r] = account[r]]
  /\ UNCHANGED <<guard, account, abandoned>>

Restore(r) ==
  /\ Guarded(r)
  /\ r \in Legacy
  /\ held' = [held EXCEPT ![r] = V2Cred]
  /\ UNCHANGED <<guard, account, abandoned>>

Withdraw(r) ==
  /\ held' = [held EXCEPT ![r] = NoCred]
  /\ UNCHANGED <<guard, account, abandoned>>

(* Only the end of a request ends its account.                             *)
Revoke(r) ==
  /\ guard[r] \in {"ending", "gone"}
  /\ account' = [account EXCEPT ![r] = NoCred]
  /\ UNCHANGED <<guard, held, abandoned>>

Release(r) ==
  /\ guard[r] = "ending"
  /\ guard' = [guard EXCEPT ![r] = "gone"]
  /\ \/ account[r] = NoCred /\ UNCHANGED abandoned
     \/ abandoned' = abandoned \cup {r}
  /\ UNCHANGED <<account, held>>

Next ==
  \E r \in Requests : \/ Guard(r) \/ End(r) \/ Issue(r) \/ Deliver(r)
                      \/ Restore(r) \/ Withdraw(r) \/ Revoke(r) \/ Release(r)

Spec == Init /\ [][Next]_vars
=============================================================================
