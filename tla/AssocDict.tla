----------------------------- MODULE AssocDict -----------------------------
(***************************************************************************)
(* What the registry of streams promises its callers (rtoh.c:557-567,      *)
(* thread.c:191): a dictionary from stream ids to items.  A key that is    *)
(* there cannot be inserted and one that is not cannot be deleted: the     *)
(* process ends instead (assoc.c:469, 506).                                *)
(***************************************************************************)
CONSTANTS Keys, Items, NULL

VARIABLES
  dict,     \* key -> the item registered under it, or NULL
  failed    \* an assertion has ended the process

Init == dict = [k \in Keys |-> NULL] /\ failed = FALSE

Insert(k, it) ==
  /\ ~failed
  /\ dict[k] = NULL
  /\ \A j \in Keys : dict[j] # it
  /\ dict' = [dict EXCEPT ![k] = it]
  /\ UNCHANGED failed

Delete(k) ==
  /\ ~failed
  /\ dict[k] # NULL
  /\ dict' = [dict EXCEPT ![k] = NULL]
  /\ UNCHANGED failed

(* The contract is broken: a taken key inserted, a missing one deleted. *)
Misuse(k) ==
  /\ ~failed
  /\ failed' = TRUE
  /\ UNCHANGED dict

Next ==
  \/ \E k \in Keys, it \in Items : Insert(k, it)
  \/ \E k \in Keys : Delete(k)
  \/ \E k \in Keys : Misuse(k)

Spec == Init /\ [][Next]_<<dict, failed>>

=============================================================================
