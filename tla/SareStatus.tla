----------------------------- MODULE SareStatus -----------------------------
(***************************************************************************)
(* The status of a ServiceAccountRequest (SARE) and the merge patches that *)
(* persist it (internal/controller/request/status_conditions.go).          *)
(*                                                                         *)
(* Every writer of a SARE's status mutates an in-memory copy and sends the *)
(* DIFFERENCE to the copy it started from.  A field whose mutated value    *)
(* happens to equal the old value of the copy is not part of the patch, so *)
(* the server keeps whatever it holds: what a patch does depends on how    *)
(* old the copy is.                                                        *)
(***************************************************************************)
EXTENDS Naturals

(* Reasons of the ServiceAccountReady condition; "none" before the first.  *)
Reasons == {"none", "Created", "ServiceAccountMigrated", "ProducerNotFound",
            "SecretRotationInProgress", "MigrationFailed",
            "ServiceAccountFailed"}

(* The error a failed reconcile puts in the message of the condition, named *)
(* after the step that failed.                                             *)
Errors == {"secret", "rotation", "producer", "status", "migration",
           "incomplete", "request", "store", "delete"}
Messages == Errors \cup {"", "notFound"}

Condition == [ready: BOOLEAN, reason: Reasons, message: Messages, gen: Nat]

(* secretRef: the status names the secret (its name is fixed by the spec). *)
(* lastRotation: the timestamp has been set at least once.                 *)
Status == [cond: Condition, secretRef: BOOLEAN, lastRotation: BOOLEAN]

NoStatus == [cond |-> [ready |-> FALSE, reason |-> "none",
                       message |-> "", gen |-> 0],
             secretRef |-> FALSE, lastRotation |-> FALSE]

-----------------------------------------------------------------------------
(* The mutated status for an in-memory object o with fields gen and status *)
(* (meta.SetStatusCondition plus the optional mutation of setAndPersist).  *)

WithCondition(st, o, ready, reason, message) ==
  [st EXCEPT !.cond = [ready |-> ready, reason |-> reason,
                       message |-> message, gen |-> o.gen]]

producerNotFound(o) ==
  WithCondition(o.status, o, FALSE, "ProducerNotFound", "notFound")

serviceAccountReady(o, isRotation) ==
  WithCondition([o.status EXCEPT !.secretRef = TRUE,
                                 !.lastRotation = @ \/ isRotation],
                o, TRUE, "Created", "")

serviceAccountMigrated(o) ==
  WithCondition([o.status EXCEPT !.secretRef = TRUE],
                o, TRUE, "ServiceAccountMigrated", "")

serviceAccountNotReadyForRotation(o) ==
  WithCondition([o.status EXCEPT !.secretRef = FALSE],
                o, FALSE, "SecretRotationInProgress", "")

serviceAccountFailed(o, reason, error) ==
  WithCondition(o.status, o, FALSE, reason, error)

-----------------------------------------------------------------------------
(* client.MergeFrom(base): the patch from base to new, applied to what the *)
(* server holds.  The conditions list is one field: a JSON merge patch     *)
(* replaces lists whole.                                                   *)

PatchField(base, new, server) == IF new = base THEN server ELSE new

(* [fault] An update instead of a patch: the server takes the whole status *)
(* of the copy.                                                            *)
WholeStatus(base, new, server) == new

MergePatch(base, new, server) ==
  [cond         |-> PatchField(base.cond, new.cond, server.cond),
   secretRef    |-> PatchField(base.secretRef, new.secretRef, server.secretRef),
   lastRotation |-> PatchField(base.lastRotation, new.lastRotation,
                               server.lastRotation)]

(* The answer is decoded into the object that holds the status new: fields *)
(* that the answer does not have are not cleared.                          *)
Decoded(new, answer) ==
  [answer EXCEPT !.secretRef = @ \/ new.secretRef,
                 !.lastRotation = @ \/ new.lastRotation]
=============================================================================
