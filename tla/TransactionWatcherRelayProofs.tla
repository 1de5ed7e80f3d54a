-------------------- MODULE TransactionWatcherRelayProofs --------------------
(***************************************************************************)
(* What the transaction watcher guarantees as long as its passes take      *)
(* turns: theorems for any number of signers, meta-transactions and        *)
(* passes, and any bounds.                                                 *)
(*                                                                         *)
(* The constructor's first pass of the interval and the one the runner     *)
(* awaits may overlap; nothing here is about the time they do.  Whatever   *)
(* else a theorem needs (no crash between a broadcast and its row, no      *)
(* reorg) is among its assumptions.                                        *)
(***************************************************************************)
EXTENDS TransactionWatcherProofs, TransactionWatcherRefinement

Running(p) == pc[p] \notin {"idle", "done"}

\* No pass starts while another one is under way.
PassesTakeTurns == \A p, q \in Pass : Running(p) /\ Running(q) => p = q

\* The interval excludes itself: a watcher without passes of its startup takes turns.
LEMMA SinglePassTakesTurns == StartupPass = {} => PassesTakeTurns
BY DEF PassesTakeTurns, Pass

(***************************************************************************)
(* The inductive invariant: what a pass has in its memory, or in its       *)
(* hands, fits the table as it is now.  TransactionWatcherProofs           *)
(* compares the copies with the chain; here they are compared with the     *)
(* rows they will be written over.                                         *)
(***************************************************************************)

\* The rows whose transaction has not been stored.
Unrelayed == {"absent", "unsubmitted", "cancelled"}

\* A row r of the table has a transaction exactly when its status says so, and
\* it is r's own.
RowFits(r, row) ==
    /\ row.txHash = Null <=> row.status \in Unrelayed
    /\ row.status \in {"unsubmitted", "cancelled"} => r \in MetaTxn
    /\ row.txHash # Null =>
          IF r \in MetaTxn THEN row.txHash.payload = r ELSE row.txHash = r

SignPC == {"sign", "broadcast", "saveSigned"}
TrackPC == {"track", "saveTracked", "saveIncluded", "findSameNonce", "saveAborted"}
ConfirmPC == {"confirm", "saveConfirmed"}

\* What the table says (stored) of a row that a pass has loaded (entity) and not
\* handled yet.
EntityFits(label, entity, stored) ==
    entity.status # "absent" =>
        /\ label \in SignPC => entity = stored /\ stored.status = "unsubmitted"
        /\ label \in TrackPC => /\ entity.txHash = stored.txHash
                                /\ stored.status \in PendingStatus \cup {"aborted"}
        /\ label \in ConfirmPC => entity = stored /\ stored.status = "included"

DoomedFits(entity, stored) ==
    entity.status # "absent" =>
        stored.txHash # Null /\ entity.txHash = stored.txHash

\* What the table says (stored) of the row in the pass's hands, which is not on
\* its list (queued) any more.
HeldFits(label, ref, row, stored, queued) ==
    /\ label \in {"broadcast", "saveSigned"} =>
          /\ ref \in MetaTxn /\ queued.status = "absent"
          /\ stored.status = "unsubmitted"
          /\ \/ label = "saveSigned" /\ row.status = "cancelled" /\ row.txHash = Null
             \/ row.status = "submitted" /\ row.txHash \in Tx /\ row.txHash.payload = ref
    /\ label \in {"saveTracked", "saveIncluded"} =>
          /\ queued.status = "absent"
          /\ stored.status \in PendingStatus \cup {"aborted"}
          /\ row.status \in IF label = "saveIncluded" THEN {"included"}
                            ELSE {"mempool", "stuck", "dropped"}
    /\ label = "saveAborted" => row.status = "aborted"
    /\ label = "saveConfirmed" =>
          /\ queued.status = "absent"
          /\ stored.status = "included"
          /\ row.status \in {"mempool", "confirmed"}
    /\ label \in {"saveTracked", "saveIncluded", "saveAborted", "saveConfirmed"} =>
          stored.txHash # Null /\ row.txHash = stored.txHash
    /\ label \in {"replace", "saveReplacement"} =>
          ref \in SelfTx /\ row.txHash = ref /\ row.status = "submitted"

PassFits(p) ==
    /\ \A r \in Ref : /\ EntityFits(pc[p], todo[p][r], rows[r])
                      /\ DoomedFits(doomed[p][r], rows[r])
    /\ HeldFits(pc[p], item[p].ref, item[p].row, rows[item[p].ref],
                todo[p][item[p].ref])

TurnInv ==
    /\ TypeInv
    /\ \A r \in Ref : RowFits(r, rows[r])
    /\ \A p \in Pass : PassFits(p)

\* A row that has a transaction keeps it.
HashesKept == \A r \in Ref : rows[r].txHash # Null => rows'[r].txHash = rows[r].txHash

LEMMA AbsentFits ==
    ASSUME NEW row, row.status = "absent", NEW label, NEW stored
    PROVE  EntityFits(label, row, stored) /\ DoomedFits(row, stored)
BY DEF EntityFits, DoomedFits

LEMMA NothingFits ==
    /\ NoRow.status = "absent" /\ NoRow.txHash = Null
    /\ \A r \in Ref : Nothing[r] = NoRow /\ RowFits(r, NoRow)
    /\ NoItem.row = NoRow
BY DEF NoRow, Nothing, NoItem, RowFits, Unrelayed

\* A pass that holds nothing to be saved or broadcast.
QuietPC == PC \ (SavePC \cup {"broadcast", "replace"})

LEMMA QuietHeldFits ==
    ASSUME NEW label \in QuietPC, NEW ref, NEW row, NEW stored, NEW queued
    PROVE  HeldFits(label, ref, row, stored, queued)
BY DEF QuietPC, PC, SavePC, HeldFits

LEMMA InitTurn == Init => TurnInv
<1> SUFFICES ASSUME Init PROVE TurnInv
    OBVIOUS
<1>1. TypeInv
  BY InitTyped
<1>2. \A r \in Ref : RowFits(r, rows[r])
  BY NothingFits DEF Init
<1>3. ASSUME NEW p \in Pass PROVE PassFits(p)
  <2>1. pc[p] = "idle" /\ todo[p] = Nothing /\ doomed[p] = Nothing
    BY DEF Init
  <2>2. pc[p] \in QuietPC
    BY <2>1 DEF QuietPC, PC, SavePC
  <2> QED BY <2>1, <2>2, NothingFits, AbsentFits, QuietHeldFits DEF PassFits
<1> QED BY <1>1, <1>2, <1>3 DEF TurnInv

\* What a pass is about to save is a row that fits its key, and has the
\* transaction that is stored there, if one is.
LEMMA SavedRowFits ==
    ASSUME TurnInv, NEW p \in Pass, pc[p] \in SavePC
    PROVE  /\ item[p].ref \in Ref
           /\ RowFits(item[p].ref, item[p].row)
           /\ rows[item[p].ref].txHash # Null =>
                 item[p].row.txHash = rows[item[p].ref].txHash
<1> DEFINE ref == item[p].ref
           row == item[p].row
           stored == rows[ref]
           queued == todo[p][ref]
<1>1. ref \in Ref
  BY DEF TurnInv, TypeInv, PassOK
<1>2. RowFits(ref, stored) /\ HeldFits(pc[p], ref, row, stored, queued)
  BY <1>1 DEF TurnInv, PassFits
<1>3. ref \in SelfTx => ref \in Tx /\ ref \notin MetaTxn
  BY Constants, WatcherAssumption
<1> HIDE DEF ref, row, stored, queued
<1>4. RowFits(ref, row) /\ (stored.txHash # Null => row.txHash = stored.txHash)
  <2>1. CASE pc[p] = "saveSigned"
    BY <1>2, <2>1, Constants DEF HeldFits, RowFits, Unrelayed
  <2>2. CASE pc[p] \in {"saveTracked", "saveIncluded", "saveAborted", "saveConfirmed"}
    BY <1>2, <2>2 DEF HeldFits, RowFits, Unrelayed
  <2>3. CASE pc[p] = "saveReplacement"
    BY <1>2, <1>3, <2>3, Constants DEF HeldFits, RowFits, Unrelayed
  <2> QED BY <2>1, <2>2, <2>3 DEF SavePC
<1> QED BY <1>1, <1>4 DEF ref, row, stored

\* No step takes a row's transaction away, or gives it another's: the two ways
\* to write the table are to save what fits, and to add a row.
LEMMA TableKeepsFitting ==
    ASSUME TurnInv, Next
    PROVE  /\ \A r \in Ref : RowFits(r, rows'[r])
           /\ HashesKept
<1> USE DEF TurnInv, HashesKept
<1>1. CASE UNCHANGED rows
  BY <1>1
<1>2. ASSUME NEW p \in Pass, pc[p] \in SavePC,
             rows' = [rows EXCEPT ![item[p].ref] = item[p].row]
      PROVE  (\A r \in Ref : RowFits(r, rows'[r])) /\ HashesKept
  <2>1. \A r \in Ref : rows'[r] = IF r = item[p].ref THEN item[p].row ELSE rows[r]
    BY <1>2 DEF TypeInv, SharedOK
  <2> QED BY <1>2, <2>1, SavedRowFits
<1>3. ASSUME NEW r \in MetaTxn, SubmitMetaTxn(r)
      PROVE  (\A q \in Ref : RowFits(q, rows'[q])) /\ HashesKept
  <2>1. PICK row : row = [NoRow EXCEPT !.status = "unsubmitted", !.gasPrice = gasPrice]
    OBVIOUS
  <2>2. row.status = "unsubmitted" /\ row.txHash = Null
    BY <2>1 DEF NoRow
  <2>3. \A q \in Ref : rows'[q] = IF q = r THEN row ELSE rows[q]
    BY <1>3, <2>1 DEF SubmitMetaTxn, TypeInv, SharedOK
  <2>4. RowFits(r, row) /\ r \in Ref
    BY <2>2, Constants DEF RowFits, Unrelayed
  <2>5. rows[r].txHash = Null
    BY <1>3, <2>4 DEF SubmitMetaTxn, RowFits, Unrelayed
  <2> QED BY <2>3, <2>4, <2>5
<1>4. ASSUME NEW p \in Pass, PassStep(p) \/ PassFault(p)
      PROVE  (\A r \in Ref : RowFits(r, rows'[r])) /\ HashesKept
  BY <1>1, <1>2, <1>4, StepFrame DEF PassFrame
<1>5. CASE EnvStep
  BY <1>1, <1>3, <1>5 DEF EnvStep, watcherVars, ExpectedAtPasses, Restart
<1> QED BY <1>4, <1>5 DEF Next

\* The rows a pass is going to abort go on fitting the table.
LEMMA DoomedStayFit ==
    ASSUME TurnInv, HashesKept, NEW p \in Pass,
           \A r \in Ref : doomed'[p][r] \in {doomed[p][r], NoRow}
    PROVE  \A r \in Ref : DoomedFits(doomed'[p][r], rows'[r])
<1> SUFFICES ASSUME NEW r \in Ref PROVE DoomedFits(doomed'[p][r], rows'[r])
    OBVIOUS
<1>1. DoomedFits(doomed[p][r], rows[r])
  BY DEF TurnInv, PassFits
<1> QED BY <1>1, NothingFits DEF DoomedFits, HashesKept

\* A pass that has loaded nothing new, and is still at the same stage.
LEMMA EntitiesStayFit ==
    ASSUME TurnInv, NEW p \in Pass, UNCHANGED rows,
           \A r \in Ref : todo'[p][r] \in {todo[p][r], NoRow},
           \A S \in {SignPC, TrackPC, ConfirmPC} : pc'[p] \in S => pc[p] \in S
    PROVE  \A r \in Ref : EntityFits(pc'[p], todo'[p][r], rows'[r])
<1> SUFFICES ASSUME NEW r \in Ref PROVE EntityFits(pc'[p], todo'[p][r], rows'[r])
    OBVIOUS
<1>1. EntityFits(pc[p], todo[p][r], rows[r])
  BY DEF TurnInv, PassFits
<1> QED BY <1>1, NothingFits DEF EntityFits

\* A pass that is not running is not disturbed by what another one does.
LEMMA OthersFit ==
    ASSUME TurnInv, HashesKept, NEW p \in Pass, OnlyPass(p),
           NEW q \in Pass, q # p, ~ Running(q)
    PROVE  PassFits(q)'
<1>1. /\ pc'[q] = pc[q] /\ todo'[q] = todo[q] /\ doomed'[q] = doomed[q]
      /\ item'[q] = item[q]
  BY DEF TurnInv, TypeInv, Indexed, OnlyPass
<1>2. \A r \in Ref : DoomedFits(doomed'[q][r], rows'[r])
  BY <1>1, DoomedStayFit
<1>3. pc'[q] \in {"idle", "done"} /\ pc'[q] \in QuietPC
  BY <1>1 DEF Running, QuietPC, PC, SavePC
<1>4. \A r \in Ref : EntityFits(pc'[q], todo'[q][r], rows'[r])
  BY <1>3 DEF EntityFits, SignPC, TrackPC, ConfirmPC
<1> QED BY <1>2, <1>3, <1>4, QuietHeldFits DEF PassFits

\* A step that saves nothing, loads nothing new and leaves nothing in the pass's
\* hands to be saved.
LEMMA QuietStepFits ==
    ASSUME TurnInv, HashesKept, NEW p \in Pass, UNCHANGED rows,
           pc'[p] \in QuietPC,
           \A S \in {SignPC, TrackPC, ConfirmPC} : pc'[p] \in S => pc[p] \in S,
           \A r \in Ref : todo'[p][r] \in {todo[p][r], NoRow},
           \A r \in Ref : doomed'[p][r] \in {doomed[p][r], NoRow}
    PROVE  PassFits(p)'
BY EntitiesStayFit, DoomedStayFit, QuietHeldFits DEF PassFits

LEMMA LessLoaded ==
    ASSUME TurnInv, NEW p \in Pass, NEW r \in Ref
    PROVE  /\ [todo[p] EXCEPT ![r] = NoRow][r].status = "absent"
           /\ \A q \in Ref : [todo[p] EXCEPT ![r] = NoRow][q] \in {todo[p][q], NoRow}
           /\ [doomed[p] EXCEPT ![r] = NoRow][r].status = "absent"
           /\ \A q \in Ref : [doomed[p] EXCEPT ![r] = NoRow][q] \in {doomed[p][q], NoRow}
BY NothingFits DEF TurnInv, TypeInv, PassOK, Snapshot

LEMMA EndPassFits ==
    ASSUME TurnInv, HashesKept, NEW p \in Pass, UNCHANGED rows, EndPass(p)
    PROVE  PassFits(p)'
<1>1. /\ pc'[p] \in {"idle", "done"} /\ todo'[p] = Nothing /\ doomed'[p] = Nothing
  BY DEF EndPass, TurnInv, TypeInv, Indexed, Goto, Load, LetGo
<1>2. \A S \in {SignPC, TrackPC, ConfirmPC} : pc'[p] \notin S
  BY <1>1 DEF SignPC, TrackPC, ConfirmPC
<1>3. pc'[p] \in QuietPC
  BY <1>1 DEF QuietPC, PC, SavePC
<1> QED BY <1>1, <1>2, <1>3, NothingFits, QuietStepFits

\* A query loads rows as they are.
LEMMA FoundFits ==
    ASSUME NEW S, NEW r \in Ref
    PROVE  /\ \/ FindByStatus(S)[r].status = "absent"
              \/ FindByStatus(S)[r] = rows[r] /\ rows[r].status \in S
BY NothingFits DEF FindByStatus

\* A pass that has just saved a row goes on with the others.
LEMMA SavedStepFits ==
    ASSUME TurnInv, HashesKept, NEW p \in Pass,
           rows' = [rows EXCEPT ![item[p].ref] = item[p].row],
           pc[p] \in SavePC \ {"saveAborted", "saveReplacement"}, pc'[p] \in QuietPC,
           \A S \in {SignPC, TrackPC, ConfirmPC} : pc'[p] \in S => pc[p] \in S,
           todo'[p] = todo[p], doomed'[p] = doomed[p]
    PROVE  PassFits(p)'
<1> DEFINE ref == item[p].ref
<1>1. ref \in Ref
  BY SavedRowFits
<1>2. todo[p][ref].status = "absent"
  BY DEF TurnInv, PassFits, HeldFits, SavePC
<1>3. ASSUME NEW r \in Ref PROVE EntityFits(pc'[p], todo'[p][r], rows'[r])
  <2>1. CASE r = ref
    BY <1>2, <2>1 DEF EntityFits
  <2>2. CASE r # ref
    <3>1. rows'[r] = rows[r]
      BY <2>2 DEF TurnInv, TypeInv, SharedOK
    <3>2. EntityFits(pc[p], todo[p][r], rows[r])
      BY DEF TurnInv, PassFits
    <3> QED BY <3>1, <3>2 DEF EntityFits
  <2> QED BY <2>1, <2>2
<1>4. \A r \in Ref : DoomedFits(doomed'[p][r], rows'[r])
  BY DoomedStayFit
<1> QED BY <1>3, <1>4, QuietHeldFits DEF PassFits

LEMMA SignFits ==
    ASSUME TurnInv, TypeInv', HashesKept, NEW p \in Pass, SignStep(p)
    PROVE  PassFits(p)'
<1> USE DEF Goto, Load, Handled, Hold, LetGo
<1>0. Indexed
  BY DEF TurnInv, TypeInv
<1>1. CASE StartPass(p)
  <2>1. /\ pc'[p] = "sign" /\ todo'[p] = FindByStatus({"unsubmitted"})
        /\ doomed'[p] = doomed[p] /\ rows' = rows
    BY <1>0, <1>1 DEF StartPass, Indexed
  <2>2. ASSUME NEW r \in Ref PROVE EntityFits(pc'[p], todo'[p][r], rows'[r])
    BY <2>1, FoundFits DEF EntityFits, TrackPC, ConfirmPC
  <2>3. pc'[p] \in QuietPC
    BY <2>1 DEF QuietPC, PC, SavePC
  <2> QED BY <2>1, <2>2, <2>3, DoomedStayFit, QuietHeldFits DEF PassFits
<1>2. ASSUME NEW r \in Ref, Cancel(p, r) PROVE PassFits(p)'
  <2> DEFINE entity == todo[p][r]
             row == [entity EXCEPT !.status = "cancelled"]
  <2>1. /\ pc[p] = "sign" /\ pc'[p] = "saveSigned"
        /\ todo'[p] = [todo[p] EXCEPT ![r] = NoRow]
        /\ doomed'[p] = doomed[p] /\ item'[p] = [ref |-> r, row |-> row]
        /\ rows' = rows /\ entity.status # "absent"
    BY <1>0, <1>2 DEF Cancel, Indexed, IsLoaded
  <2>2. entity = rows[r] /\ rows[r].status = "unsubmitted"
    BY <2>1 DEF TurnInv, PassFits, EntityFits, SignPC
  <2>3. r \in MetaTxn /\ rows[r].txHash = Null
    BY <2>2 DEF TurnInv, RowFits, Unrelayed
  <2>4. row.status = "cancelled" /\ row.txHash = Null
    <3>1. entity \in Row
      BY DEF TurnInv, TypeInv, PassOK, Snapshot
    <3> QED BY <2>2, <2>3, <3>1 DEF Row
  <2> HIDE DEF row
  <2>5. HeldFits("saveSigned", r, row, rows[r], todo'[p][r])
    BY <2>1, <2>2, <2>3, <2>4, LessLoaded DEF HeldFits
  <2>6. \A q \in Ref : EntityFits(pc'[p], todo'[p][q], rows'[q])
    BY <2>1, LessLoaded, EntitiesStayFit DEF SignPC, TrackPC, ConfirmPC
  <2> QED BY <2>1, <2>5, <2>6, DoomedStayFit DEF PassFits
<1>3. ASSUME NEW r \in Ref, PrepareMetaTxn(p, r) PROVE PassFits(p)'
  <2>1. PICK s \in Signer, n \in Nonce :
           item' = [item EXCEPT ![p] =
             [ref |-> r,
              row |-> [todo[p][r] EXCEPT !.status = "submitted",
                         !.txHash = [from |-> s, nonce |-> n, payload |-> r,
                                     gasPrice |-> todo[p][r].gasPrice]]]]
    BY <1>3 DEF PrepareMetaTxn
  <2> DEFINE entity == todo[p][r]
             t == [from |-> s, nonce |-> n, payload |-> r, gasPrice |-> entity.gasPrice]
             row == [entity EXCEPT !.status = "submitted", !.txHash = t]
  <2>2. /\ pc[p] = "sign" /\ pc'[p] = "broadcast"
        /\ todo'[p] = [todo[p] EXCEPT ![r] = NoRow]
        /\ doomed'[p] = doomed[p] /\ item'[p] = [ref |-> r, row |-> row]
        /\ rows' = rows /\ entity.status # "absent"
    BY <1>0, <1>3, <2>1 DEF PrepareMetaTxn, Indexed, IsLoaded
  <2>3. rows[r].status = "unsubmitted" /\ r \in MetaTxn
    BY <1>3, <2>2 DEF TurnInv, PassFits, EntityFits, SignPC, PrepareMetaTxn
  <2>4. row.status = "submitted" /\ row.txHash = t /\ t.payload = r
    <3>1. entity \in Row
      BY DEF TurnInv, TypeInv, PassOK, Snapshot
    <3> QED BY <3>1 DEF Row
  <2> HIDE DEF row, t
  <2>5. row.txHash \in Tx
    <3>1. PassOK(p)' /\ item'[p].row = row
      BY <2>2 DEF TypeInv
    <3> QED BY <2>2, <3>1 DEF PassOK
  <2>6. HeldFits("broadcast", r, row, rows[r], todo'[p][r])
    BY <2>2, <2>3, <2>4, <2>5, LessLoaded DEF HeldFits
  <2>7. \A q \in Ref : EntityFits(pc'[p], todo'[p][q], rows'[q])
    BY <2>2, LessLoaded, EntitiesStayFit DEF SignPC, TrackPC, ConfirmPC
  <2> QED BY <2>2, <2>6, <2>7, DoomedStayFit DEF PassFits
<1>4. ASSUME NEW r \in Ref, SigningFails(p, r) PROVE PassFits(p)'
  <2>1. /\ pc'[p] = "sign" /\ pc[p] = "sign" /\ todo'[p] = [todo[p] EXCEPT ![r] = NoRow]
        /\ doomed'[p] = doomed[p] /\ rows' = rows
    BY <1>0, <1>4 DEF SigningFails, Indexed
  <2>2. pc'[p] \in QuietPC
    BY <2>1 DEF QuietPC, PC, SavePC
  <2> QED BY <2>1, <2>2, LessLoaded, QuietStepFits
<1>5. CASE BroadcastMetaTxn(p)
  <2>1. /\ pc[p] = "broadcast" /\ pc'[p] = "saveSigned" /\ todo'[p] = todo[p]
        /\ doomed'[p] = doomed[p] /\ item'[p] = item[p] /\ rows' = rows
    BY <1>0, <1>5 DEF BroadcastMetaTxn, Broadcast, Indexed
  <2>2. \A q \in Ref : EntityFits(pc'[p], todo'[p][q], rows'[q])
    BY <2>1, EntitiesStayFit DEF SignPC, TrackPC, ConfirmPC
  <2>3. HeldFits("saveSigned", item[p].ref, item[p].row, rows[item[p].ref],
                 todo[p][item[p].ref])
    BY <2>1 DEF TurnInv, PassFits, HeldFits
  <2> QED BY <2>1, <2>2, <2>3, DoomedStayFit DEF PassFits
<1>6. CASE BroadcastRefused(p)
  <2>1. /\ pc'[p] = "sign" /\ pc[p] = "broadcast" /\ todo'[p] = todo[p]
        /\ doomed'[p] = doomed[p] /\ rows' = rows
    BY <1>0, <1>6 DEF BroadcastRefused, Refused, Indexed
  <2>2. pc'[p] \in QuietPC
    BY <2>1 DEF QuietPC, PC, SavePC
  <2> QED BY <2>1, <2>2, QuietStepFits DEF SignPC, TrackPC, ConfirmPC
<1>7. CASE SaveSigned(p)
  <2>1. /\ pc[p] = "saveSigned" /\ pc'[p] = "sign" /\ todo'[p] = todo[p]
        /\ doomed'[p] = doomed[p]
        /\ rows' = [rows EXCEPT ![item[p].ref] = item[p].row]
    BY <1>0, <1>7 DEF SaveSigned, Save, Indexed
  <2>2. pc'[p] \in QuietPC
    BY <2>1 DEF QuietPC, PC, SavePC
  <2> QED BY <2>1, <2>2, SavedStepFits DEF SavePC, SignPC, TrackPC, ConfirmPC
<1> QED BY <1>1, <1>2, <1>3, <1>4, <1>5, <1>6, <1>7 DEF SignStep

LEMMA TrackFits ==
    ASSUME TurnInv, TypeInv', HashesKept, NEW p \in Pass, TrackStep(p)
    PROVE  PassFits(p)'
<1> USE DEF Goto, Load, Handled, Hold, LetGo
<1>0. Indexed
  BY DEF TurnInv, TypeInv
<1>1. CASE FindBroadcasted(p)
  <2>1. /\ pc'[p] = "track" /\ todo'[p] = FindByStatus(PendingStatus)
        /\ doomed'[p] = doomed[p] /\ rows' = rows
    BY <1>0, <1>1 DEF FindBroadcasted, Indexed
  <2>2. ASSUME NEW r \in Ref PROVE EntityFits(pc'[p], todo'[p][r], rows'[r])
    BY <2>1, FoundFits DEF EntityFits, SignPC, ConfirmPC
  <2>3. pc'[p] \in QuietPC
    BY <2>1 DEF QuietPC, PC, SavePC
  <2> QED BY <2>1, <2>2, <2>3, DoomedStayFit, QuietHeldFits DEF PassFits
<1>2. ASSUME NEW r \in Ref, Track(p, r) PROVE PassFits(p)'
  <2> DEFINE entity == todo[p][r]
             status == TrackedStatus(entity, r \in late)
             row == [entity EXCEPT !.status = status]
             mined == [entity EXCEPT !.status = status,
                                     !.blockNumber = block[entity.txHash]]
  <2>1. /\ pc[p] = "track" /\ todo'[p] = [todo[p] EXCEPT ![r] = NoRow]
        /\ doomed'[p] = doomed[p] /\ rows' = rows /\ entity.status # "absent"
    BY <1>0, <1>2 DEF Track, Indexed, IsLoaded
  <2>2. /\ entity.txHash = rows[r].txHash
        /\ rows[r].status \in PendingStatus \cup {"aborted"}
    BY <2>1 DEF TurnInv, PassFits, EntityFits, TrackPC
  <2>3. rows[r].txHash # Null
    BY <2>2 DEF TurnInv, RowFits, Unrelayed, PendingStatus
  <2>4. entity \in Row
    BY DEF TurnInv, TypeInv, PassOK, Snapshot
  <2> HIDE DEF status
  <2>5. /\ row.status = status /\ row.txHash = entity.txHash
        /\ mined.status = status /\ mined.txHash = entity.txHash
    BY <2>4 DEF Row
  <2>6. \/ pc' = pc
        \/ /\ pc'[p] = "saveTracked" /\ item'[p] = [ref |-> r, row |-> row]
           /\ status \in {"mempool", "stuck", "dropped"}
        \/ /\ pc'[p] = "saveIncluded" /\ item'[p] = [ref |-> r, row |-> mined]
           /\ status = "included"
    BY <1>0, <1>2 DEF Track, Indexed, status
  <2> HIDE DEF row, mined
  <2>7. pc'[p] \in TrackPC
    BY <2>1, <2>6 DEF TrackPC
  <2>8. \A q \in Ref : EntityFits(pc'[p], todo'[p][q], rows'[q])
    BY <2>1, <2>7, LessLoaded, EntitiesStayFit DEF SignPC, TrackPC, ConfirmPC
  <2>9. CASE pc' = pc
    <3>1. pc'[p] \in QuietPC
      BY <2>1, <2>9 DEF QuietPC, PC, SavePC
    <3> QED BY <2>1, <2>8, <3>1, DoomedStayFit, QuietHeldFits DEF PassFits
  <2>10. ASSUME NEW label \in {"saveTracked", "saveIncluded"}, pc'[p] = label,
                NEW held \in {row, mined}, item'[p] = [ref |-> r, row |-> held],
                status \in IF label = "saveIncluded" THEN {"included"}
                           ELSE {"mempool", "stuck", "dropped"}
         PROVE  PassFits(p)'
    <3>1. HeldFits(label, r, held, rows[r], todo'[p][r])
      BY <2>1, <2>2, <2>3, <2>5, <2>10, LessLoaded DEF HeldFits
    <3> QED BY <2>1, <2>8, <2>10, <3>1, DoomedStayFit DEF PassFits
  <2> QED BY <2>6, <2>9, <2>10
<1>3. ASSUME NEW r \in Ref, Abort(p, r) PROVE PassFits(p)'
  <2> DEFINE entity == doomed[p][r]
             row == [entity EXCEPT !.status = "aborted"]
  <2>1. /\ pc[p] = "track" /\ pc'[p] = "saveAborted" /\ todo'[p] = todo[p]
        /\ doomed'[p] = [doomed[p] EXCEPT ![r] = NoRow]
        /\ item'[p] = [ref |-> r, row |-> row]
        /\ rows' = rows /\ entity.status # "absent"
    BY <1>0, <1>3 DEF Abort, Indexed, IsLoaded
  <2>2. rows[r].txHash # Null /\ entity.txHash = rows[r].txHash
    BY <2>1 DEF TurnInv, PassFits, DoomedFits
  <2>3. row.status = "aborted" /\ row.txHash = entity.txHash
    <3>1. entity \in Row
      BY DEF TurnInv, TypeInv, PassOK, Snapshot
    <3> QED BY <3>1 DEF Row
  <2> HIDE DEF row
  <2>4. HeldFits("saveAborted", r, row, rows[r], todo'[p][r])
    BY <2>2, <2>3 DEF HeldFits
  <2>5. \A q \in Ref : EntityFits(pc'[p], todo'[p][q], rows'[q])
    BY <2>1, EntitiesStayFit DEF SignPC, TrackPC, ConfirmPC
  <2>6. \A q \in Ref : DoomedFits(doomed'[p][q], rows'[q])
    BY <2>1, LessLoaded, DoomedStayFit
  <2> QED BY <2>1, <2>4, <2>5, <2>6 DEF PassFits
<1>4. CASE SaveTracked(p)
  <2>1. /\ pc[p] = "saveTracked" /\ pc'[p] = "track" /\ todo'[p] = todo[p]
        /\ doomed'[p] = doomed[p]
        /\ rows' = [rows EXCEPT ![item[p].ref] = item[p].row]
    BY <1>0, <1>4 DEF SaveTracked, Save, Indexed
  <2>2. pc'[p] \in QuietPC
    BY <2>1 DEF QuietPC, PC, SavePC
  <2> QED BY <2>1, <2>2, SavedStepFits DEF SavePC, SignPC, TrackPC, ConfirmPC
<1>5. CASE SaveIncluded(p)
  <2>1. /\ pc[p] = "saveIncluded" /\ pc'[p] = "findSameNonce" /\ todo'[p] = todo[p]
        /\ doomed'[p] = doomed[p]
        /\ rows' = [rows EXCEPT ![item[p].ref] = item[p].row]
    BY <1>0, <1>5 DEF SaveIncluded, Save, Indexed
  <2>2. pc'[p] \in QuietPC
    BY <2>1 DEF QuietPC, PC, SavePC
  <2> QED BY <2>1, <2>2, SavedStepFits DEF SavePC, SignPC, TrackPC, ConfirmPC
<1>6. CASE FindSameNonce(p)
  <2>1. /\ pc[p] = "findSameNonce" /\ pc'[p] = "track" /\ todo'[p] = todo[p]
        /\ rows' = rows
    BY <1>0, <1>6 DEF FindSameNonce, Indexed
  <2>2. ASSUME NEW r \in Ref
        PROVE  \/ doomed'[p][r] = NoRow
               \/ doomed'[p][r] = rows[r] /\ rows[r].txHash # Null
    BY <1>0, <1>6 DEF FindSameNonce, Indexed
  <2>3. \A r \in Ref : DoomedFits(doomed'[p][r], rows'[r])
    BY <2>1, <2>2, NothingFits DEF DoomedFits
  <2>4. pc'[p] \in QuietPC
    BY <2>1 DEF QuietPC, PC, SavePC
  <2>5. \A q \in Ref : EntityFits(pc'[p], todo'[p][q], rows'[q])
    BY <2>1, EntitiesStayFit DEF SignPC, TrackPC, ConfirmPC
  <2> QED BY <2>3, <2>4, <2>5, QuietHeldFits DEF PassFits
<1>7. CASE SaveAborted(p)
  <2> DEFINE ref == item[p].ref
  <2>1. /\ pc[p] = "saveAborted" /\ pc'[p] = "track" /\ todo'[p] = todo[p]
        /\ doomed'[p] = doomed[p]
        /\ rows' = [rows EXCEPT ![ref] = item[p].row]
    BY <1>0, <1>7 DEF SaveAborted, Save, Indexed
  <2>2. ref \in Ref /\ item[p].row.status = "aborted"
        /\ item[p].row.txHash = rows[ref].txHash
    BY <2>1, SavedRowFits DEF TurnInv, PassFits, HeldFits, SavePC
  <2>3. ASSUME NEW r \in Ref PROVE EntityFits(pc'[p], todo'[p][r], rows'[r])
    <3>1. EntityFits("track", todo[p][r], rows[r])
      BY <2>1 DEF TurnInv, PassFits, EntityFits, SignPC, TrackPC, ConfirmPC
    <3>2. rows'[r] = IF r = ref THEN item[p].row ELSE rows[r]
      BY <2>1 DEF TurnInv, TypeInv, SharedOK
    <3> QED BY <2>1, <2>2, <3>1, <3>2 DEF EntityFits, SignPC, TrackPC, ConfirmPC
  <2>4. pc'[p] \in QuietPC
    BY <2>1 DEF QuietPC, PC, SavePC
  <2> QED BY <2>1, <2>3, <2>4, DoomedStayFit, QuietHeldFits DEF PassFits
<1> QED BY <1>1, <1>2, <1>3, <1>4, <1>5, <1>6, <1>7 DEF TrackStep

LEMMA UnstickFits ==
    ASSUME TurnInv, TypeInv', HashesKept, NEW p \in Pass, UnstickStep(p)
    PROVE  PassFits(p)'
<1> USE DEF Goto, Load, Handled, Hold, LetGo
<1>0. Indexed
  BY DEF TurnInv, TypeInv
\* At this stage the entities are read again before they are saved: nothing is
\* asked of them.
<1>a. ASSUME NEW label \in {"priceUnstick", "unstick", "replace", "saveReplacement"},
             NEW entity, NEW stored
      PROVE  EntityFits(label, entity, stored)
  BY DEF EntityFits, SignPC, TrackPC, ConfirmPC
<1>b. ASSUME pc'[p] \in {"priceUnstick", "unstick"},
             \A r \in Ref : doomed'[p][r] \in {doomed[p][r], NoRow}
      PROVE  PassFits(p)'
  <2>1. pc'[p] \in QuietPC
    BY <1>b DEF QuietPC, PC, SavePC
  <2> QED BY <1>a, <1>b, <2>1, DoomedStayFit, QuietHeldFits DEF PassFits
<1>1. CASE FindStuck(p)
  BY <1>0, <1>1, <1>b DEF FindStuck, Indexed
<1>2. CASE PriceUnstick(p)
  BY <1>0, <1>2, <1>b DEF PriceUnstick, Indexed
<1>3. ASSUME NEW r \in Ref, SkipUnstick(p, r) PROVE PassFits(p)'
  BY <1>0, <1>3, <1>b DEF SkipUnstick, Indexed
<1>4. ASSUME NEW r \in Ref, UnstickThrows(p, r) PROVE PassFits(p)'
  BY <1>4, EndPassFits DEF UnstickThrows
<1>5. ASSUME NEW r \in Ref, Unstick(p, r) PROVE PassFits(p)'
  <2> DEFINE t == [from |-> todo[p][r].txHash.from, nonce |-> todo[p][r].txHash.nonce,
                   payload |-> SelfTransfer, gasPrice |-> mark[p]]
             row == [status |-> "submitted", txHash |-> t,
                     blockNumber |-> rows[t].blockNumber, gasPrice |-> mark[p]]
  <2>1. /\ pc'[p] = "replace" /\ doomed'[p] = doomed[p]
        /\ item'[p] = [ref |-> t, row |-> row]
    BY <1>0, <1>5 DEF Unstick, Indexed
  <2>2. row.status = "submitted" /\ row.txHash = t /\ t.payload = SelfTransfer
    OBVIOUS
  <2> HIDE DEF row, t
  <2>3. t \in SelfTx
    <3>1. PassOK(p)' /\ item'[p].row = row
      BY <2>1 DEF TypeInv
    <3>2. t \in Tx
      BY <2>1, <2>2, <3>1 DEF PassOK
    <3>3. t \notin RelayTx
      BY <2>2, NodeAssumption DEF RelayTx
    <3> QED BY <3>2, <3>3 DEF Tx
  <2>4. HeldFits("replace", t, row, rows'[t], todo'[p][t])
    BY <2>2, <2>3 DEF HeldFits
  <2> QED BY <1>a, <2>1, <2>4, DoomedStayFit DEF PassFits
<1>6. CASE BroadcastReplacement(p)
  <2>1. /\ pc[p] = "replace" /\ pc'[p] = "saveReplacement"
        /\ doomed'[p] = doomed[p] /\ item'[p] = item[p]
    BY <1>0, <1>6 DEF BroadcastReplacement, Broadcast, Indexed
  <2>2. HeldFits("saveReplacement", item[p].ref, item[p].row, rows'[item[p].ref],
                 todo'[p][item[p].ref])
    BY <2>1 DEF TurnInv, PassFits, HeldFits
  <2> QED BY <1>a, <2>1, <2>2, DoomedStayFit DEF PassFits
<1>7. CASE ReplacementRefused(p)
  BY <1>0, <1>7, <1>b DEF ReplacementRefused, Refused, Indexed
<1>8. CASE SaveReplacement(p)
  BY <1>0, <1>8, <1>b DEF SaveReplacement, Indexed
<1> QED BY <1>1, <1>2, <1>3, <1>4, <1>5, <1>6, <1>7, <1>8 DEF UnstickStep

LEMMA ConfirmFits ==
    ASSUME TurnInv, TypeInv', HashesKept, NEW p \in Pass, ConfirmStep(p)
    PROVE  PassFits(p)'
<1> USE DEF Goto, Load, Handled, Hold, LetGo
<1>0. Indexed
  BY DEF TurnInv, TypeInv
<1>1. CASE ReadLatestBlock(p)
  <2>1. /\ pc'[p] = "findIncluded" /\ todo'[p] = todo[p]
        /\ doomed'[p] = doomed[p] /\ rows' = rows
    BY <1>0, <1>1 DEF ReadLatestBlock, Indexed
  <2>2. pc'[p] \in QuietPC
    BY <2>1 DEF QuietPC, PC, SavePC
  <2> QED BY <2>1, <2>2, QuietStepFits DEF SignPC, TrackPC, ConfirmPC
<1>2. CASE FindIncluded(p)
  <2>1. /\ pc'[p] = "confirm" /\ todo'[p] = FindByStatus({"included"})
        /\ doomed'[p] = doomed[p] /\ rows' = rows
    BY <1>0, <1>2 DEF FindIncluded, Indexed
  <2>2. ASSUME NEW r \in Ref PROVE EntityFits(pc'[p], todo'[p][r], rows'[r])
    BY <2>1, FoundFits DEF EntityFits, SignPC, TrackPC
  <2>3. pc'[p] \in QuietPC
    BY <2>1 DEF QuietPC, PC, SavePC
  <2> QED BY <2>1, <2>2, <2>3, DoomedStayFit, QuietHeldFits DEF PassFits
<1>3. ASSUME NEW r \in Ref, Confirm(p, r) PROVE PassFits(p)'
  <2> DEFINE entity == todo[p][r]
             back == [entity EXCEPT !.status = "mempool"]
             done == [entity EXCEPT !.status = "confirmed"]
  <2>1. /\ pc[p] = "confirm" /\ todo'[p] = [todo[p] EXCEPT ![r] = NoRow]
        /\ doomed'[p] = doomed[p] /\ rows' = rows /\ entity.status # "absent"
    BY <1>0, <1>3 DEF Confirm, Indexed, IsLoaded
  <2>2. entity = rows[r] /\ rows[r].status = "included"
    BY <2>1 DEF TurnInv, PassFits, EntityFits, ConfirmPC
  <2>3. rows[r].txHash # Null
    BY <2>2 DEF TurnInv, RowFits, Unrelayed
  <2>4. entity \in Row
    BY DEF TurnInv, TypeInv, PassOK, Snapshot
  <2>5. /\ back.status = "mempool" /\ back.txHash = entity.txHash
        /\ done.status = "confirmed" /\ done.txHash = entity.txHash
    BY <2>4 DEF Row
  <2>6. \/ pc' = pc
        \/ /\ pc'[p] = "saveConfirmed"
           /\ \E row \in {back, done} : item'[p] = [ref |-> r, row |-> row]
    BY <1>0, <1>3 DEF Confirm, Indexed
  <2> HIDE DEF back, done
  <2>7. pc'[p] \in ConfirmPC
    BY <2>1, <2>6 DEF ConfirmPC
  <2>8. \A q \in Ref : EntityFits(pc'[p], todo'[p][q], rows'[q])
    BY <2>1, <2>7, LessLoaded, EntitiesStayFit DEF SignPC, TrackPC, ConfirmPC
  <2>9. CASE pc' = pc
    <3>1. pc'[p] \in QuietPC
      BY <2>1, <2>9 DEF QuietPC, PC, SavePC
    <3> QED BY <2>1, <2>8, <3>1, DoomedStayFit, QuietHeldFits DEF PassFits
  <2>10. ASSUME pc'[p] = "saveConfirmed", NEW row \in {back, done},
                item'[p] = [ref |-> r, row |-> row]
         PROVE  PassFits(p)'
    <3>1. HeldFits("saveConfirmed", r, row, rows[r], todo'[p][r])
      BY <2>1, <2>2, <2>3, <2>5, <2>10, LessLoaded DEF HeldFits
    <3> QED BY <2>1, <2>8, <2>10, <3>1, DoomedStayFit DEF PassFits
  <2> QED BY <2>6, <2>9, <2>10
<1>4. ASSUME NEW r \in Ref, ConfirmThrows(p, r) PROVE PassFits(p)'
  BY <1>4, EndPassFits DEF ConfirmThrows
<1>5. CASE SaveConfirmed(p)
  <2>1. /\ pc[p] = "saveConfirmed" /\ pc'[p] = "confirm" /\ todo'[p] = todo[p]
        /\ doomed'[p] = doomed[p]
        /\ rows' = [rows EXCEPT ![item[p].ref] = item[p].row]
    BY <1>0, <1>5 DEF SaveConfirmed, Save, Indexed
  <2>2. pc'[p] \in QuietPC
    BY <2>1 DEF QuietPC, PC, SavePC
  <2> QED BY <2>1, <2>2, SavedStepFits DEF SavePC, SignPC, TrackPC, ConfirmPC
<1>6. CASE FinishPass(p)
  BY <1>6, EndPassFits DEF FinishPass
<1> QED BY <1>1, <1>2, <1>3, <1>4, <1>5, <1>6 DEF ConfirmStep

LEMMA FaultFits ==
    ASSUME TurnInv, HashesKept, NEW p \in Pass, PassFault(p)
    PROVE  PassFits(p)'
<1> USE DEF Goto, Load, LetGo
<1>0. Indexed
  BY DEF TurnInv, TypeInv
<1>1. CASE BroadcastReplyLost(p) \/ ReplacementReplyLost(p)
  <2>1. /\ pc'[p] \in {"sign", "unstick"}
        /\ pc'[p] = "sign" => pc[p] = "broadcast"
        /\ todo'[p] = todo[p] /\ doomed'[p] = doomed[p] /\ rows' = rows
    BY <1>0, <1>1 DEF BroadcastReplyLost, ReplacementReplyLost, ReplyLost, Indexed
  <2>2. pc'[p] \in QuietPC
    BY <2>1 DEF QuietPC, PC, SavePC
  <2> QED BY <2>1, <2>2, QuietStepFits DEF SignPC, TrackPC, ConfirmPC
<1>2. CASE (ReadFails(p) \/ SaveFails(p)) /\ EndPass(p)
  BY <1>2, EndPassFits DEF ReadFails, SaveFails
<1>3. CASE (ReadFails(p) \/ SaveFails(p)) /\ ~ EndPass(p)
  <2>1. /\ pc'[p] \in {"sign", "unstick"}
        /\ pc'[p] = "sign" => pc[p] \in {"sign", "saveSigned"}
        /\ todo'[p] \in {todo[p], Nothing} /\ doomed'[p] = doomed[p] /\ rows' = rows
    BY <1>0, <1>3 DEF ReadFails, SaveFails, Indexed
  <2>2. pc'[p] \in QuietPC
    BY <2>1 DEF QuietPC, PC, SavePC
  <2> QED BY <2>1, <2>2, QuietStepFits, NothingFits DEF SignPC, TrackPC, ConfirmPC
<1> QED BY <1>1, <1>2, <1>3 DEF PassFault

\* A step of the environment: a new row is one that no pass has in its memory.
LEMMA EnvFits ==
    ASSUME TurnInv, HashesKept, NEW p \in Pass, EnvStep \/ UNCHANGED vars
    PROVE  PassFits(p)'
<1> DEFINE ref == item[p].ref
<1>1. CASE UNCHANGED <<rows, pc, todo, doomed, item>>
  BY <1>1 DEF TurnInv, PassFits
<1>2. ASSUME NEW r \in MetaTxn, SubmitMetaTxn(r) PROVE PassFits(p)'
  <2>1. /\ UNCHANGED <<pc, todo, doomed, item>>
        /\ \A q \in Ref \ {r} : rows'[q] = rows[q]
    BY <1>2 DEF SubmitMetaTxn, TurnInv, TypeInv, SharedOK
  <2>2. rows[r].status = "absent" /\ rows[r].txHash = Null
    BY <1>2, Constants DEF SubmitMetaTxn, TurnInv, RowFits, Unrelayed
  <2>3. ASSUME NEW q \in Ref PROVE EntityFits(pc'[p], todo'[p][q], rows'[q])
    <3>1. EntityFits(pc[p], todo[p][q], rows[q])
      BY DEF TurnInv, PassFits
    <3> QED BY <2>1, <2>2, <3>1 DEF EntityFits, PendingStatus
  <2>4. \A q \in Ref : DoomedFits(doomed'[p][q], rows'[q])
    BY <2>1, DoomedStayFit
  <2>5. HeldFits(pc'[p], ref, item[p].row, rows'[ref], todo'[p][ref])
    <3>1. HeldFits(pc[p], ref, item[p].row, rows[ref], todo[p][ref])
      BY DEF TurnInv, PassFits
    <3>2. CASE pc[p] \in QuietPC \cup {"replace", "saveReplacement"}
      BY <2>1, <3>1, <3>2 DEF HeldFits, QuietPC, PC, SavePC
    <3>3. CASE pc[p] \in {"broadcast", "saveSigned", "saveTracked", "saveIncluded",
                          "saveAborted", "saveConfirmed"}
      <4>1. ref \in Ref
        BY <3>3 DEF TurnInv, TypeInv, PassOK, SavePC
      <4>2. rows[ref].status = "unsubmitted" \/ rows[ref].txHash # Null
        BY <3>1, <3>3 DEF HeldFits
      <4>3. rows'[ref] = rows[ref]
        BY <2>1, <2>2, <4>1, <4>2
      <4> QED BY <2>1, <3>1, <4>3
    <3> QED BY <3>2, <3>3 DEF TurnInv, TypeInv, PassOK, QuietPC, PC, SavePC
  <2> QED BY <2>1, <2>3, <2>4, <2>5 DEF PassFits
<1>3. CASE Restart
  <2>1. pc'[p] = "idle" /\ todo'[p] = Nothing /\ doomed'[p] = Nothing
    BY <1>3 DEF Restart
  <2>2. pc'[p] \in QuietPC
    BY <2>1 DEF QuietPC, PC, SavePC
  <2> QED BY <2>1, <2>2, NothingFits, AbsentFits, QuietHeldFits DEF PassFits
<1>4. CASE UNCHANGED vars
  BY <1>1, <1>4 DEF vars, watcherVars
<1> QED BY <1>1, <1>2, <1>3, <1>4 DEF EnvStep, watcherVars, ExpectedAtPasses

\* The only pass that is running, before or after its step, is the one that steps.
LEMMA StepIsRunning ==
    ASSUME TypeInv, NEW p \in Pass, PassStep(p) \/ PassFault(p)
    PROVE  Running(p) \/ Running(p)'
<1> USE DEF Running, Goto, TypeInv, Indexed
<1>1. CASE SignStep(p)
  BY <1>1 DEF SignStep, StartPass, Cancel, PrepareMetaTxn, SigningFails, BroadcastMetaTxn,
              BroadcastRefused, SaveSigned, Broadcast, Refused, Save
<1>2. CASE TrackStep(p)
  BY <1>2 DEF TrackStep, FindBroadcasted, Track, Abort, SaveTracked, SaveIncluded,
              FindSameNonce, SaveAborted, Save
<1>3. CASE UnstickStep(p)
  BY <1>3 DEF UnstickStep, FindStuck, PriceUnstick, SkipUnstick, UnstickThrows, Unstick,
              BroadcastReplacement, ReplacementRefused, SaveReplacement, Broadcast, Refused
<1>4. CASE ConfirmStep(p)
  BY <1>4 DEF ConfirmStep, ReadLatestBlock, FindIncluded, Confirm, ConfirmThrows,
              SaveConfirmed, FinishPass, Save
<1>5. CASE PassFault(p)
  BY <1>5 DEF PassFault, BroadcastReplyLost, ReplacementReplyLost, ReplyLost, ReadFails,
              SaveFails
<1> QED BY <1>1, <1>2, <1>3, <1>4, <1>5 DEF PassStep

LEMMA OthersDoNotRun ==
    ASSUME TypeInv, PassesTakeTurns, PassesTakeTurns',
           NEW p \in Pass, PassStep(p) \/ PassFault(p), NEW q \in Pass, q # p
    PROVE  ~ Running(q)
<1>1. Running(p) \/ Running(p)'
  BY StepIsRunning
<1>2. pc'[q] = pc[q]
  BY StepFrame DEF PassFrame, OnlyPass, TypeInv, Indexed
<1> QED BY <1>1, <1>2 DEF PassesTakeTurns, Running

LEMMA NextTurn ==
    TurnInv /\ PassesTakeTurns /\ PassesTakeTurns' /\ [Next]_vars => TurnInv'
<1> SUFFICES ASSUME TurnInv, PassesTakeTurns, PassesTakeTurns', [Next]_vars
             PROVE  TurnInv'
    OBVIOUS
<1>1. TypeInv'
  BY NextTyped DEF TurnInv
<1>2. (\A r \in Ref : RowFits(r, rows'[r])) /\ HashesKept
  <2>1. CASE UNCHANGED vars
    BY <2>1 DEF TurnInv, HashesKept, vars, watcherVars
  <2> QED BY <2>1, TableKeepsFitting
<1>3. ASSUME NEW p \in Pass, PassStep(p) \/ PassFault(p), NEW q \in Pass
      PROVE  PassFits(q)'
  <2>1. CASE q = p
    BY <1>1, <1>2, <1>3, <2>1, SignFits, TrackFits, UnstickFits, ConfirmFits, FaultFits
       DEF PassStep
  <2>2. CASE q # p
    <3>1. ~ Running(q)
      BY <1>3, <2>2, OthersDoNotRun DEF TurnInv
    <3>2. OnlyPass(p)
      BY <1>3, StepFrame DEF PassFrame, TurnInv
    <3> QED BY <1>2, <2>2, <3>1, <3>2, OthersFit
  <2> QED BY <2>1, <2>2
<1>4. ASSUME EnvStep \/ UNCHANGED vars, NEW q \in Pass PROVE PassFits(q)'
  BY <1>2, <1>4, EnvFits
<1> QED BY <1>1, <1>2, <1>3, <1>4 DEF Next, TurnInv

(***************************************************************************)
(* What was broadcast is recorded, and so nothing is broadcast twice.  A   *)
(* crash, a failing save or a lost answer between the two is what breaks   *)
(* this: the row is left without the transaction it was relayed in.        *)
(***************************************************************************)

\* The row that a transaction belongs to.
RowOf(t) == IF t.payload \in MetaTxn THEN t.payload ELSE t

BroadcastsAreSaved == Faults \cap {"crash", "dbError", "lostReply"} = {}

RecordedInv ==
    /\ TurnInv
    /\ \A t \in sent : \/ rows[RowOf(t)].txHash = t
                       \/ \E p \in Pass : Saving(p, t)
    /\ \A p \in Pass :
          /\ pc[p] \in {"saveSigned", "saveReplacement"}
          /\ item[p].row.txHash # Null
          => item[p].row.txHash \in sent

LEMMA RowOfInRef ==
    ASSUME NEW t \in Tx
    PROVE  RowOf(t) \in Ref /\ t # Null
BY Constants, WatcherAssumption DEF RowOf, Tx, RelayTx, Ref

\* What a pass has broadcast and is about to save belongs to the row in its hands.
LEMMA SavingItsOwn ==
    ASSUME TurnInv, NEW p \in Pass, NEW t \in Tx, Saving(p, t)
    PROVE  /\ Running(p) /\ item[p].ref = RowOf(t) /\ item[p].row.txHash = t
           /\ \/ pc[p] = "saveSigned" /\ rows[RowOf(t)].txHash = Null
              \/ pc[p] = "saveReplacement" /\ t.payload = SelfTransfer
<1> DEFINE ref == item[p].ref
<1>1. HeldFits(pc[p], ref, item[p].row, rows[ref], todo[p][ref]) /\ t # Null
  BY RowOfInRef DEF TurnInv, PassFits
<1>2. CASE pc[p] = "saveSigned"
  <2>1. t.payload = ref /\ ref \in MetaTxn /\ rows[ref].status = "unsubmitted"
    BY <1>1, <1>2 DEF Saving, HeldFits
  <2>2. rows[ref].txHash = Null
    BY <2>1, Constants DEF TurnInv, RowFits, Unrelayed
  <2> QED BY <1>2, <2>1, <2>2 DEF Saving, Running, RowOf
<1>3. CASE pc[p] = "saveReplacement"
  <2>1. t \in SelfTx /\ ref = t
    BY <1>1, <1>3 DEF Saving, HeldFits
  <2>2. t.payload = SelfTransfer /\ t.payload \notin MetaTxn
    BY <2>1, NodeAssumption DEF SelfTx
  <2> QED BY <1>3, <2>1, <2>2 DEF Saving, Running, RowOf
<1> QED BY <1>2, <1>3 DEF Saving

LEMMA RecordedImplies ==
    ASSUME RecordedInv, PassesTakeTurns
    PROVE  BroadcastIsRecorded /\ RelayedAtMostOnce /\ UnsubmittedIsNotOnNetwork
<1>1. sent \subseteq Tx
  BY DEF RecordedInv, TurnInv, TypeInv, SharedOK, NodeTypeOK
<1>2. BroadcastIsRecorded
  BY <1>1, RowOfInRef DEF RecordedInv, BroadcastIsRecorded
<1>3. RelayedAtMostOnce
  <2> SUFFICES ASSUME NEW t \in sent, NEW u \in sent,
                      t.payload \in MetaTxn, t.payload = u.payload
               PROVE  t = u
    BY DEF RelayedAtMostOnce
  <2>1. t \in Tx /\ u \in Tx /\ RowOf(t) = RowOf(u) /\ t # Null /\ u # Null
    BY <1>1, RowOfInRef DEF RowOf
  <2>2. t.payload # SelfTransfer /\ u.payload # SelfTransfer
    BY NodeAssumption
  <2>3. CASE rows[RowOf(t)].txHash = t
    <3>1. ASSUME NEW p \in Pass, Saving(p, u) PROVE FALSE
      <4>1. rows[RowOf(u)].txHash = Null
        BY <2>1, <2>2, <3>1, SavingItsOwn DEF RecordedInv
      <4> QED BY <2>1, <2>3, <4>1
    <3> QED BY <2>1, <2>3, <3>1 DEF RecordedInv
  <2>4. ASSUME NEW p \in Pass, Saving(p, t) PROVE t = u
    <3>1. rows[RowOf(t)].txHash = Null /\ Running(p) /\ item[p].row.txHash = t
      BY <2>1, <2>2, <2>4, SavingItsOwn DEF RecordedInv
    <3>2. PICK q \in Pass : Saving(q, u)
      BY <2>1, <3>1 DEF RecordedInv
    <3>3. Running(q) /\ item[q].row.txHash = u
      BY <2>1, <3>2, SavingItsOwn DEF RecordedInv
    <3> QED BY <3>1, <3>3 DEF PassesTakeTurns
  <2> QED BY <2>3, <2>4 DEF RecordedInv
<1>4. UnsubmittedIsNotOnNetwork
  <2> SUFFICES ASSUME NEW r \in MetaTxn, rows[r].status \in Unrelayed,
                      NEW t \in sent, t.payload = r
               PROVE  \E p \in Pass : Saving(p, t)
    BY DEF UnsubmittedIsNotOnNetwork, Unrelayed
  <2>1. rows[r].txHash = Null
    BY Constants DEF RecordedInv, TurnInv, RowFits
  <2>2. t # Null /\ RowOf(t) = r
    BY <1>1, RowOfInRef DEF RowOf
  <2> QED BY <2>1, <2>2 DEF RecordedInv
<1> QED BY <1>2, <1>3, <1>4

LEMMA InitRecorded == Init => RecordedInv
<1> SUFFICES ASSUME Init PROVE RecordedInv
    OBVIOUS
<1>1. sent = {} /\ \A p \in Pass : pc[p] = "idle"
  BY DEF Init, NodeInit
<1> QED BY <1>1, InitTurn DEF RecordedInv

\* How a step of a pass may change what it is about to save, when it does not fail.
LEMMA SavingSteps ==
    ASSUME TurnInv, TurnInv', BroadcastsAreSaved, NEW p \in Pass,
           PassStep(p) \/ PassFault(p)
    PROVE  \/ /\ pc[p] \in {"broadcast", "replace"}
              /\ pc'[p] \in {"saveSigned", "saveReplacement"}
              /\ item'[p] = item[p] /\ rows' = rows
              /\ sent' = sent \cup {item[p].row.txHash}
              /\ Accepts(item[p].row.txHash) /\ Receive(item[p].row.txHash)
           \/ /\ pc[p] \in {"saveSigned", "saveReplacement"}
              /\ rows' = [rows EXCEPT ![item[p].ref] = item[p].row]
              /\ UNCHANGED nodeVars
              /\ pc'[p] \notin {"saveSigned", "saveReplacement"}
           \/ /\ pc[p] \notin {"saveSigned", "saveReplacement"}
              /\ UNCHANGED nodeVars
              /\ pc'[p] = "saveSigned" => /\ \E r \in Ref : Cancel(p, r)
                                          /\ item'[p].row.txHash = Null
              /\ pc'[p] # "saveReplacement"
<1> USE DEF Goto, Load, Handled, Hold, LetGo, TurnInv, TypeInv, Indexed
<1>1. CASE SignStep(p)
  <2>1. ASSUME NEW r \in Ref, Cancel(p, r)
        PROVE  /\ pc[p] = "sign" /\ pc'[p] = "saveSigned"
               /\ UNCHANGED nodeVars /\ item'[p].row.txHash = Null
    <3> DEFINE row == [todo[p][r] EXCEPT !.status = "cancelled"]
    <3>1. /\ pc[p] = "sign" /\ pc'[p] = "saveSigned"
          /\ UNCHANGED nodeVars /\ item'[p] = [ref |-> r, row |-> row]
      BY <2>1 DEF Cancel
    <3>2. todo[p][r] \in Row
      BY DEF PassOK, Snapshot
    <3>3. row.status = "cancelled"
      BY <3>2 DEF Row
    <3> HIDE DEF row
    <3>4. HeldFits("saveSigned", r, row, rows'[r], todo'[p][r])
      BY <3>1 DEF PassFits
    <3> QED BY <3>1, <3>3, <3>4 DEF HeldFits
  <2> HIDE DEF TurnInv
  <2>2. TypeInv
    BY DEF TurnInv
  <2>3. CASE \E r \in Ref : Cancel(p, r)
    BY <2>1, <2>3
  <2>4. CASE ~ \E r \in Ref : Cancel(p, r)
    BY <1>1, <2>2, <2>4 DEF SignStep, StartPass, PrepareMetaTxn, SigningFails,
       BroadcastMetaTxn, BroadcastRefused, SaveSigned, Broadcast, Refused, Save, Receive
  <2> QED BY <2>3, <2>4
<1> HIDE DEF TurnInv
<1>a. TypeInv
  BY DEF TurnInv
<1>2. CASE TrackStep(p)
  BY <1>2, <1>a DEF TrackStep, FindBroadcasted, Track, Abort, SaveTracked, SaveIncluded,
              FindSameNonce, SaveAborted, Save
<1>3. CASE UnstickStep(p)
  BY <1>3, <1>a DEF UnstickStep, FindStuck, PriceUnstick, SkipUnstick, UnstickThrows, Unstick,
              BroadcastReplacement, ReplacementRefused, SaveReplacement, Broadcast, Refused,
              Receive, EndPass
<1>4. CASE ConfirmStep(p)
  BY <1>4, <1>a DEF ConfirmStep, ReadLatestBlock, FindIncluded, Confirm, ConfirmThrows,
              SaveConfirmed, FinishPass, Save, EndPass
<1>5. CASE PassFault(p)
  BY <1>5, <1>a DEF PassFault, BroadcastReplyLost, ReplacementReplyLost, ReplyLost, ReadFails,
              SaveFails, Fault, BroadcastsAreSaved, EndPass
<1> QED BY <1>1, <1>2, <1>3, <1>4, <1>5 DEF PassStep

\* A transaction that is recorded stays so.
LEMMA StoredStaysStored ==
    ASSUME TypeInv, HashesKept, NEW t \in Tx, rows[RowOf(t)].txHash = t
    PROVE  rows'[RowOf(t)].txHash = t
BY RowOfInRef DEF HashesKept

LEMMA PassRecords ==
    ASSUME RecordedInv, TurnInv', BroadcastsAreSaved, HashesKept,
           PassesTakeTurns, PassesTakeTurns',
           NEW p \in Pass, PassStep(p) \/ PassFault(p)
    PROVE  RecordedInv'
<1> DEFINE held == item[p].row.txHash
<1>0. TurnInv /\ TypeInv /\ sent \subseteq Tx
  BY DEF RecordedInv, TurnInv, TypeInv, SharedOK, NodeTypeOK
<1>1. ASSUME NEW q \in Pass, q # p
      PROVE  /\ ~ Running(q) /\ pc'[q] = pc[q]
             /\ \A t : ~ Saving(q, t)
             /\ pc'[q] \notin {"saveSigned", "saveReplacement"}
  <2>1. ~ Running(q)
    BY <1>0, <1>1, OthersDoNotRun
  <2>2. pc'[q] = pc[q]
    BY <1>0, <1>1, StepFrame DEF PassFrame, OnlyPass, TypeInv, Indexed
  <2> QED BY <2>1, <2>2 DEF Running, Saving
<1>2. CASE /\ pc[p] \in {"broadcast", "replace"}
           /\ pc'[p] \in {"saveSigned", "saveReplacement"}
           /\ item'[p] = item[p] /\ rows' = rows
           /\ sent' = sent \cup {held}
  <2>1. \A t : ~ Saving(p, t)
    BY <1>2 DEF Saving
  <2>2. ASSUME NEW t \in sent'
        PROVE  rows'[RowOf(t)].txHash = t \/ \E q \in Pass : Saving(q, t)'
    <3>1. CASE t = held
      BY <1>2, <3>1 DEF Saving
    <3>2. CASE t \in sent
      BY <1>1, <1>2, <2>1, <3>2 DEF RecordedInv
    <3> QED BY <1>2, <2>2, <3>1, <3>2
  <2>3. ASSUME NEW q \in Pass, pc'[q] \in {"saveSigned", "saveReplacement"}
        PROVE  item'[q].row.txHash \in sent'
    BY <1>1, <1>2, <2>3
  <2> QED BY <2>2, <2>3 DEF RecordedInv
<1>3. CASE /\ pc[p] \in {"saveSigned", "saveReplacement"}
           /\ rows' = [rows EXCEPT ![item[p].ref] = item[p].row]
           /\ UNCHANGED nodeVars
           /\ pc'[p] \notin {"saveSigned", "saveReplacement"}
  <2>1. ASSUME NEW t \in sent'
        PROVE  rows'[RowOf(t)].txHash = t
    <3>1. t \in sent /\ t \in Tx /\ RowOf(t) \in Ref
      BY <1>0, <1>3, <2>1, RowOfInRef DEF nodeVars
    <3>2. CASE rows[RowOf(t)].txHash = t
      BY <1>0, <3>1, <3>2, StoredStaysStored
    <3>3. CASE Saving(p, t)
      <4>1. item[p].ref = RowOf(t) /\ item[p].row.txHash = t
        BY <1>0, <3>1, <3>3, SavingItsOwn
      <4>2. rows'[RowOf(t)] = item[p].row
        BY <1>0, <1>3, <3>1, <4>1 DEF TypeInv, SharedOK
      <4> QED BY <4>1, <4>2
    <3> QED BY <1>1, <3>1, <3>2, <3>3 DEF RecordedInv
  <2>2. \A q \in Pass : pc'[q] \notin {"saveSigned", "saveReplacement"}
    BY <1>1, <1>3
  <2> QED BY <2>1, <2>2 DEF RecordedInv
<1>4. CASE /\ pc[p] \notin {"saveSigned", "saveReplacement"}
           /\ UNCHANGED nodeVars
           /\ pc'[p] = "saveSigned" => item'[p].row.txHash = Null
           /\ pc'[p] # "saveReplacement"
  <2>1. \A q \in Pass : \A t : ~ Saving(q, t)
    BY <1>1, <1>4 DEF Saving
  <2>2. ASSUME NEW t \in sent' PROVE rows'[RowOf(t)].txHash = t
    <3>1. t \in sent /\ t \in Tx
      BY <1>0, <1>4, <2>2 DEF nodeVars
    <3> QED BY <1>0, <2>1, <3>1, StoredStaysStored DEF RecordedInv
  <2>3. ASSUME NEW q \in Pass, pc'[q] \in {"saveSigned", "saveReplacement"}
        PROVE  item'[q].row.txHash = Null
    BY <1>1, <1>4, <2>3
  <2> QED BY <2>2, <2>3 DEF RecordedInv
<1> QED BY <1>0, <1>2, <1>3, <1>4, SavingSteps

LEMMA EnvRecords ==
    ASSUME RecordedInv, TurnInv', BroadcastsAreSaved, HashesKept,
           EnvStep \/ UNCHANGED vars
    PROVE  RecordedInv'
<1>0. TypeInv /\ sent \subseteq Tx
  BY DEF RecordedInv, TurnInv, TypeInv, SharedOK, NodeTypeOK
<1>1. UNCHANGED <<sent, pc, item>>
  BY DEF EnvStep, ChainStep, Mine, MineEmptyBlock, GasPriceMoves, NodeFault, Reorg, Forget,
         SubmitMetaTxn, ExpectedAtPasses, Restart, Fault, BroadcastsAreSaved, nodeVars,
         watcherVars, vars
<1>2. ASSUME NEW t \in sent
      PROVE  rows'[RowOf(t)].txHash = t \/ \E p \in Pass : Saving(p, t)'
  <2>1. CASE rows[RowOf(t)].txHash = t
    BY <1>0, <2>1, StoredStaysStored
  <2>2. CASE \E p \in Pass : Saving(p, t)
    BY <1>1, <2>2 DEF Saving
  <2> QED BY <2>1, <2>2 DEF RecordedInv
<1> QED BY <1>1, <1>2 DEF RecordedInv

LEMMA NextHashesKept == TurnInv /\ [Next]_vars => HashesKept
<1> SUFFICES ASSUME TurnInv, [Next]_vars PROVE HashesKept
    OBVIOUS
<1>1. CASE UNCHANGED vars
  BY <1>1 DEF HashesKept, vars, watcherVars
<1> QED BY <1>1, TableKeepsFitting

LEMMA NextRecorded ==
    ASSUME BroadcastsAreSaved
    PROVE  RecordedInv /\ PassesTakeTurns /\ PassesTakeTurns' /\ [Next]_vars => RecordedInv'
<1> SUFFICES ASSUME RecordedInv, PassesTakeTurns, PassesTakeTurns', [Next]_vars
             PROVE  RecordedInv'
    OBVIOUS
<1>1. TurnInv' /\ HashesKept
  BY NextTurn, NextHashesKept DEF RecordedInv
<1>2. ASSUME NEW p \in Pass, PassStep(p) \/ PassFault(p) PROVE RecordedInv'
  BY <1>1, <1>2, PassRecords
<1>3. CASE EnvStep \/ UNCHANGED vars
  BY <1>1, <1>3, EnvRecords
<1> QED BY <1>2, <1>3 DEF Next

LEMMA RecordedAlways ==
    ASSUME BroadcastsAreSaved
    PROVE  Spec /\ []PassesTakeTurns => []RecordedInv
BY InitRecorded, NextRecorded, PTL DEF Spec

\* As long as passes take turns, and no crash, failing save or lost answer comes
\* between a broadcast and the row it is for, every transaction the relay has ever
\* put on the network is in the table or about to be, reorgs and forgetful nodes
\* notwithstanding.
THEOREM BroadcastsAreRecorded ==
    ASSUME BroadcastsAreSaved
    PROVE  Spec /\ []PassesTakeTurns => []BroadcastIsRecorded
BY RecordedImplies, RecordedAlways, PTL

\* Under the same conditions a meta-transaction is put on the network at most once:
\* two transactions for it would both have to be the one its row names.
THEOREM EachIsRelayedAtMostOnce ==
    ASSUME BroadcastsAreSaved
    PROVE  Spec /\ []PassesTakeTurns => []RelayedAtMostOnce
BY RecordedImplies, RecordedAlways, PTL

\* Under the same conditions a row that says that nothing was submitted, or that it
\* was cancelled, is right.
THEOREM UnsubmittedRowsAreNotOnNetwork ==
    ASSUME BroadcastsAreSaved
    PROVE  Spec /\ []PassesTakeTurns => []UnsubmittedIsNotOnNetwork
BY RecordedImplies, RecordedAlways, PTL

(***************************************************************************)
(* Final answers stay.  A pass that writes a copy over a row could take    *)
(* back what the row said.  That it does not rests on the chain: a nonce   *)
(* is used once, the node holds no transaction whose nonce is used up, and *)
(* what a pass is about to save was looked up on this chain.               *)
(***************************************************************************)

SlotsUsedOnce ==
    \A t, u \in Tx : IsMined(t) /\ IsMined(u) /\ SameSlot(t, u) => t = u

PoolIsOpen == \A t \in pool : ~ SlotMined(t.from, t.nonce)

SavesNothingStale(p) ==
    LET stored == rows[item[p].ref].status
        saved == item[p].row.status
    IN  /\ pc[p] = "saveTracked" /\ stored = "aborted" => saved = "dropped"
        /\ pc[p] = "saveIncluded" => stored # "aborted"
        /\ pc[p] = "saveConfirmed" => saved = "confirmed"
        /\ pc[p] = "saveReplacement" => stored # "confirmed"

FinalInv ==
    /\ ChainInv
    /\ TurnInv
    /\ SlotsUsedOnce
    /\ PoolIsOpen
    /\ \A p \in Pass : SavesNothingStale(p)

\* A transaction that has lost its nonce is neither mined nor pending.
LEMMA LostIsGone ==
    ASSUME FinalInv, NEW t, NonceLost(t)
    PROVE  ~ IsMined(t) /\ t \notin pool
<1>1. PICK u \in sent : IsMined(u) /\ u # t /\ SameSlot(u, t)
  BY DEF NonceLost
<1>2. t \in Tx /\ u \in Tx
  BY DEF NonceLost, FinalInv, TurnInv, TypeInv, SharedOK, NodeTypeOK
<1>3. SlotMined(t.from, t.nonce)
  BY <1>1 DEF SlotMined, SameSlot
<1> QED BY <1>1, <1>2, <1>3 DEF FinalInv, SlotsUsedOnce, PoolIsOpen

LEMMA ReceivesAccepted ==
    ASSUME NEW p \in Pass, PassStep(p) \/ PassFault(p)
    PROVE  \/ UNCHANGED nodeVars
           \/ Accepts(item[p].row.txHash) /\ Receive(item[p].row.txHash)
<1>1. CASE SignStep(p)
  BY <1>1 DEF SignStep, StartPass, Cancel, PrepareMetaTxn, SigningFails, BroadcastMetaTxn,
              BroadcastRefused, SaveSigned, Broadcast, Refused, Save
<1>2. CASE TrackStep(p)
  BY <1>2 DEF TrackStep, FindBroadcasted, Track, Abort, SaveTracked, SaveIncluded,
              FindSameNonce, SaveAborted, Save
<1>3. CASE UnstickStep(p)
  BY <1>3 DEF UnstickStep, FindStuck, PriceUnstick, SkipUnstick, UnstickThrows, Unstick,
              BroadcastReplacement, ReplacementRefused, SaveReplacement, Broadcast, Refused
<1>4. CASE ConfirmStep(p)
  BY <1>4 DEF ConfirmStep, ReadLatestBlock, FindIncluded, Confirm, ConfirmThrows,
              SaveConfirmed, FinishPass, Save
<1>5. CASE PassFault(p)
  BY <1>5 DEF PassFault, BroadcastReplyLost, ReplacementReplyLost, ReplyLost, ReadFails,
              SaveFails
<1> QED BY <1>1, <1>2, <1>3, <1>4, <1>5 DEF PassStep

LEMMA NodeStaysInOrder ==
    ASSUME FinalInv, [Next]_vars, "reorg" \notin Faults
    PROVE  SlotsUsedOnce' /\ PoolIsOpen'
<1>0. /\ sent \subseteq Tx /\ pool \subseteq sent
      /\ block \in [Tx -> 0 .. MaxHead] /\ head \in 0 .. MaxHead
      /\ \A t \in Tx : IsMined(t) => t \in sent
      /\ SlotsUsedOnce /\ PoolIsOpen
  BY DEF FinalInv, ChainInv, TableTruth, TurnInv, TypeInv, SharedOK, NodeTypeOK
<1>1. CASE UNCHANGED <<sent, block>> /\ pool' \subseteq pool
  BY <1>0, <1>1 DEF SlotsUsedOnce, PoolIsOpen, IsMined, SlotMined
<1>2. ASSUME NEW p \in Pass, Accepts(item[p].row.txHash), Receive(item[p].row.txHash)
      PROVE  SlotsUsedOnce' /\ PoolIsOpen'
  <2> DEFINE t == item[p].row.txHash
  <2>1. /\ sent' = sent \cup {t} /\ block' = block
        /\ \A u \in pool' : u \in pool \/ u = t
    BY <1>2 DEF Receive
  <2>2. ~ SlotMined(t.from, t.nonce)
    BY <1>2 DEF Accepts
  <2> HIDE DEF t
  <2>3. ASSUME NEW s, NEW n, SlotMined(s, n)' PROVE SlotMined(s, n)
    <3>1. PICK u \in sent' : u.from = s /\ u.nonce = n /\ IsMined(u)
      BY <2>1, <2>3 DEF SlotMined, IsMined
    <3>2. u \in sent \/ u = t
      BY <2>1
    <3>3. TypeInv'
      BY NextTyped DEF FinalInv, TurnInv
    <3>4. u \in Tx
      BY <3>3 DEF TypeInv, SharedOK, NodeTypeOK
    <3> QED BY <1>0, <3>1, <3>4 DEF SlotMined
  <2> QED BY <1>0, <2>1, <2>2, <2>3 DEF SlotsUsedOnce, PoolIsOpen, IsMined
<1>3. ASSUME NEW t \in sent, Mine(t) PROVE SlotsUsedOnce' /\ PoolIsOpen'
  <2>1. /\ ~ SlotMined(t.from, t.nonce) /\ t \in Tx /\ sent' = sent
        /\ \A u \in Tx \ {t} : IsMined(u)' <=> IsMined(u)
        /\ \A u \in pool' : u \in pool /\ ~ SameSlot(t, u)
    BY <1>0, <1>3 DEF Mine, IsMined
  <2>2. \A u \in Tx : SameSlot(t, u) \/ SameSlot(u, t) => ~ IsMined(u)
    BY <1>0, <2>1 DEF SlotMined, SameSlot
  <2>3. SlotsUsedOnce'
    BY <1>0, <2>1, <2>2 DEF SlotsUsedOnce, SameSlot
  <2>4. PoolIsOpen'
    <3> SUFFICES ASSUME NEW u \in pool', NEW v \in sent,
                        v.from = u.from, v.nonce = u.nonce, IsMined(v)'
                 PROVE  FALSE
      BY <2>1 DEF PoolIsOpen, SlotMined
    <3>1. v # t /\ v \in Tx
      BY <1>0, <2>1 DEF SameSlot
    <3> QED BY <1>0, <2>1, <3>1 DEF PoolIsOpen, SlotMined
  <2> QED BY <2>3, <2>4
<1>4. ASSUME NEW p \in Pass, PassStep(p) \/ PassFault(p)
      PROVE  SlotsUsedOnce' /\ PoolIsOpen'
  BY <1>1, <1>2, <1>4, ReceivesAccepted DEF nodeVars
<1>5. CASE EnvStep \/ UNCHANGED vars
  BY <1>1, <1>3, <1>5
     DEF EnvStep, ChainStep, MineEmptyBlock, GasPriceMoves, NodeFault, Forget, Fault,
         SubmitMetaTxn, ExpectedAtPasses, Restart, nodeVars, vars
<1> QED BY <1>4, <1>5 DEF Next

\* The steps that put a row in a pass's hands in order to be saved.
LEMMA HeldToBeSaved ==
    ASSUME TypeInv, NEW p \in Pass, PassStep(p) \/ PassFault(p)
    PROVE  /\ pc'[p] \in {"saveTracked", "saveIncluded"} => \E r \in Ref : Track(p, r)
           /\ pc'[p] = "saveConfirmed" => \E r \in Ref : Confirm(p, r)
           /\ pc'[p] = "saveReplacement" => BroadcastReplacement(p)
<1> USE DEF Goto, TypeInv, Indexed
<1>1. CASE SignStep(p)
  BY <1>1 DEF SignStep, StartPass, Cancel, PrepareMetaTxn, SigningFails, BroadcastMetaTxn,
              BroadcastRefused, SaveSigned, Broadcast, Refused, Save
<1>2. CASE TrackStep(p)
  BY <1>2 DEF TrackStep, FindBroadcasted, Abort, SaveTracked, SaveIncluded,
              FindSameNonce, SaveAborted, Save, Track
<1>3. CASE UnstickStep(p)
  BY <1>3 DEF UnstickStep, FindStuck, PriceUnstick, SkipUnstick, UnstickThrows, Unstick,
              BroadcastReplacement, ReplacementRefused, SaveReplacement, Broadcast, Refused,
              EndPass
<1>4. CASE ConfirmStep(p)
  BY <1>4 DEF ConfirmStep, ReadLatestBlock, FindIncluded, Confirm, ConfirmThrows,
              SaveConfirmed, FinishPass, Save, EndPass
<1>5. CASE PassFault(p)
  BY <1>5 DEF PassFault, BroadcastReplyLost, ReplacementReplyLost, ReplyLost, ReadFails,
              SaveFails, EndPass
<1> QED BY <1>1, <1>2, <1>3, <1>4, <1>5 DEF PassStep

LEMMA PassSavesNothingStale ==
    ASSUME FinalInv, TurnInv', NEW p \in Pass, PassStep(p) \/ PassFault(p)
    PROVE  SavesNothingStale(p)'
<1> USE DEF Goto, Load, Handled, Hold, LetGo
<1>0. TypeInv /\ Indexed /\ TurnInv /\ ChainInv
  BY DEF FinalInv, TurnInv, TypeInv
<1>1. ASSUME NEW r \in Ref, Track(p, r), pc'[p] \in {"saveTracked", "saveIncluded"}
      PROVE  SavesNothingStale(p)'
  <2> DEFINE entity == todo[p][r]
             status == TrackedStatus(entity, r \in late)
             row == [entity EXCEPT !.status = status]
             mined == [entity EXCEPT !.status = status,
                                     !.blockNumber = block[entity.txHash]]
  <2>1. pc[p] = "track" /\ rows' = rows /\ entity.status # "absent"
    BY <1>1 DEF Track, IsLoaded
  <2>2. entity.txHash = rows[r].txHash
    BY <1>0, <2>1 DEF TurnInv, PassFits, EntityFits, TrackPC
  <2>3. entity \in Row
    BY <1>0 DEF TypeInv, PassOK, Snapshot
  <2>4. ASSUME rows[r].status = "aborted" PROVE status \in {"dropped", "none"}
    <3>1. NonceLost(entity.txHash)
      BY <1>0, <2>2, <2>4 DEF ChainInv, TableTruth, Truthful
    <3>2. ~ IsMined(entity.txHash) /\ ~ Knows(entity.txHash)
      BY <3>1, LostIsGone DEF Knows
    <3>3. entity.txHash \notin pool
      BY <3>2 DEF Knows
    <3> QED BY <3>2, <3>3 DEF TrackedStatus
  <2> HIDE DEF status
  <2>5. row.status = status /\ mined.status = status
    BY <2>3 DEF Row
  <2>6. \/ /\ pc'[p] = "saveTracked" /\ item'[p] = [ref |-> r, row |-> row]
           /\ status \in {"mempool", "stuck", "dropped"}
        \/ /\ pc'[p] = "saveIncluded" /\ item'[p] = [ref |-> r, row |-> mined]
           /\ status = "included"
    BY <1>0, <1>1 DEF Track, Indexed, status
  <2> HIDE DEF row, mined
  <2> QED BY <2>1, <2>4, <2>5, <2>6 DEF SavesNothingStale
<1>2. ASSUME NEW r \in Ref, Confirm(p, r), pc'[p] = "saveConfirmed"
      PROVE  SavesNothingStale(p)'
  <2> DEFINE entity == todo[p][r]
             done == [entity EXCEPT !.status = "confirmed"]
  <2>1. pc[p] = "confirm" /\ entity.status # "absent"
    BY <1>2 DEF Confirm, IsLoaded
  <2>2. entity.status = "included" /\ IsMined(entity.txHash)
    BY <1>0, <2>1 DEF ChainInv, PassTruth, Truthful, IsMined
  <2>3. entity \in Row
    BY <1>0 DEF TypeInv, PassOK, Snapshot
  <2>4. done.status = "confirmed"
    BY <2>3 DEF Row
  <2>5. item'[p] = [ref |-> r, row |-> done]
    BY <1>0, <1>2, <2>1, <2>2 DEF Confirm, Indexed
  <2> HIDE DEF done
  <2> QED BY <1>2, <2>4, <2>5 DEF SavesNothingStale
<1>3. ASSUME BroadcastReplacement(p), pc'[p] = "saveReplacement"
      PROVE  SavesNothingStale(p)'
  <2> DEFINE ref == item[p].ref
  <2>1. /\ pc[p] = "replace" /\ item'[p] = item[p] /\ rows' = rows
        /\ Accepts(item[p].row.txHash)
    BY <1>0, <1>3 DEF BroadcastReplacement, Broadcast, Indexed
  <2>2. ref \in SelfTx /\ item[p].row.txHash = ref
    BY <1>0, <2>1 DEF TurnInv, PassFits, HeldFits
  <2>3. ref \in Tx /\ ref \in Ref /\ ref \notin MetaTxn
    BY <2>2, Constants, WatcherAssumption
  <2>4. ASSUME rows[ref].status = "confirmed" PROVE FALSE
    <3>1. rows[ref].txHash = ref
      BY <1>0, <2>3, <2>4 DEF TurnInv, RowFits, Unrelayed
    <3>2. IsMined(ref) /\ ref \in sent
      BY <1>0, <2>3, <2>4, <3>1 DEF ChainInv, TableTruth, Truthful, IsMined
    <3> QED BY <2>1, <2>2, <3>2 DEF Accepts, SlotMined
  <2> QED BY <1>3, <2>1, <2>4 DEF SavesNothingStale
<1>4. CASE pc'[p] \notin {"saveTracked", "saveIncluded", "saveConfirmed", "saveReplacement"}
  BY <1>4 DEF SavesNothingStale
<1> QED BY <1>0, <1>1, <1>2, <1>3, <1>4, HeldToBeSaved

LEMMA InitFinal == Init => FinalInv
<1> SUFFICES ASSUME Init PROVE FinalInv
    OBVIOUS
<1>1. /\ pool = {} /\ \A p \in Pass : pc[p] = "idle"
      /\ \A t \in Tx : ~ IsMined(t)
  BY DEF Init, NodeInit, IsMined
<1> QED BY <1>1, InitTruth, InitTurn
        DEF FinalInv, SlotsUsedOnce, PoolIsOpen, SavesNothingStale

LEMMA NextFinal ==
    ASSUME "reorg" \notin Faults
    PROVE  FinalInv /\ PassesTakeTurns /\ PassesTakeTurns' /\ [Next]_vars => FinalInv'
<1> SUFFICES ASSUME FinalInv, PassesTakeTurns, PassesTakeTurns', [Next]_vars
             PROVE  FinalInv'
    OBVIOUS
<1>1. ChainInv' /\ TurnInv' /\ SlotsUsedOnce' /\ PoolIsOpen'
  BY NextTruth, NextTurn, NodeStaysInOrder DEF FinalInv
<1>2. ASSUME NEW p \in Pass, PassStep(p) \/ PassFault(p), NEW q \in Pass
      PROVE  SavesNothingStale(q)'
  <2>1. CASE q = p
    BY <1>1, <1>2, <2>1, PassSavesNothingStale
  <2>2. CASE q # p
    <3>1. ~ Running(q)
      BY <1>2, <2>2, OthersDoNotRun DEF FinalInv, TurnInv
    <3>2. pc'[q] = pc[q]
      BY <1>2, <2>2, StepFrame DEF PassFrame, OnlyPass, FinalInv, TurnInv, TypeInv, Indexed
    <3> QED BY <3>1, <3>2 DEF Running, SavesNothingStale
  <2> QED BY <2>1, <2>2
<1>3. ASSUME EnvStep \/ UNCHANGED vars, NEW q \in Pass PROVE SavesNothingStale(q)'
  <2> DEFINE ref == item[q].ref
  <2>1. CASE UNCHANGED <<rows, pc, item>>
    BY <2>1 DEF FinalInv, SavesNothingStale
  <2>2. ASSUME NEW r \in MetaTxn, SubmitMetaTxn(r) PROVE SavesNothingStale(q)'
    <3>1. UNCHANGED <<pc, item>>
      BY <2>2 DEF SubmitMetaTxn
    <3>2. CASE pc[q] \notin SavePC
      BY <3>1, <3>2 DEF SavesNothingStale, SavePC
    <3>3. CASE pc[q] \in SavePC
      <4>1. ref \in Ref
        BY <3>3 DEF FinalInv, TurnInv, TypeInv, PassOK
      <4>2. rows'[ref] = rows[ref] \/ rows'[ref].status = "unsubmitted"
        BY <2>2, <4>1, Constants DEF SubmitMetaTxn, FinalInv, TurnInv, TypeInv, SharedOK, NoRow
      <4> QED BY <3>1, <4>2 DEF FinalInv, SavesNothingStale
    <3> QED BY <3>2, <3>3
  <2>3. CASE Restart
    BY <2>3 DEF Restart, SavesNothingStale
  <2> QED BY <1>3, <2>1, <2>2, <2>3
          DEF EnvStep, watcherVars, vars, ExpectedAtPasses
<1> QED BY <1>1, <1>2, <1>3 DEF Next, FinalInv

LEMMA FinalAlways ==
    ASSUME "reorg" \notin Faults
    PROVE  Spec /\ []PassesTakeTurns => []FinalInv
BY InitFinal, NextFinal, PTL DEF Spec

\* A row of an included or confirmed transaction cannot have lost its nonce.
LEMMA MinedIsNotLost ==
    ASSUME FinalInv, NEW r \in Ref, rows[r].status \in {"included", "confirmed"}
    PROVE  /\ rows[r].txHash \in Tx /\ IsMined(rows[r].txHash)
           /\ ~ NonceLost(rows[r].txHash)
<1>1. rows[r].txHash \in Tx /\ IsMined(rows[r].txHash)
  BY DEF FinalInv, ChainInv, TableTruth, Truthful, IsMined
<1> QED BY <1>1, LostIsGone

\* A row that is about to be aborted has lost its nonce.
LEMMA AbortedIsLost ==
    ASSUME FinalInv, NEW p \in Pass, pc[p] = "saveAborted"
    PROVE  /\ item[p].row.status = "aborted"
           /\ rows[item[p].ref].txHash # Null
           /\ NonceLost(rows[item[p].ref].txHash)
<1>1. /\ item[p].row.status = "aborted"
      /\ rows[item[p].ref].txHash # Null
      /\ item[p].row.txHash = rows[item[p].ref].txHash
  BY DEF FinalInv, TurnInv, PassFits, HeldFits
<1>2. NonceLost(item[p].row.txHash)
  BY <1>1 DEF FinalInv, ChainInv, PassTruth, Truthful
<1> QED BY <1>1, <1>2

\* No pass is about to write over a cancelled or a confirmed row.
LEMMA SettledIsNotSaved ==
    ASSUME FinalInv, NEW p \in Pass, pc[p] \in SavePC
    PROVE  rows[item[p].ref].status \notin {"cancelled", "confirmed"}
<1> DEFINE ref == item[p].ref
<1>1. /\ ref \in Ref /\ RowFits(ref, rows[ref])
      /\ HeldFits(pc[p], ref, item[p].row, rows[ref], todo[p][ref])
  BY DEF FinalInv, TurnInv, TypeInv, PassOK, PassFits
<1>2. CASE pc[p] \in {"saveSigned", "saveTracked", "saveIncluded", "saveConfirmed"}
  BY <1>1, <1>2 DEF HeldFits, PendingStatus
<1>3. CASE pc[p] = "saveAborted"
  BY <1>1, <1>3, AbortedIsLost, MinedIsNotLost DEF RowFits, Unrelayed
<1>4. CASE pc[p] = "saveReplacement"
  <2>1. ref \in SelfTx /\ ref \notin MetaTxn
    BY <1>1, <1>4, WatcherAssumption DEF HeldFits
  <2>2. rows[ref].status # "confirmed"
    BY <1>4 DEF FinalInv, SavesNothingStale
  <2> QED BY <1>1, <2>1, <2>2 DEF RowFits
<1> QED BY <1>2, <1>3, <1>4 DEF SavePC

SettledStays ==
    \A r \in Ref :
        /\ rows[r].status \in {"cancelled", "confirmed"} => rows'[r] = rows[r]
        /\ rows[r].txHash # Null => rows'[r].txHash = rows[r].txHash

LEMMA StepSettles == FinalInv /\ [Next]_vars => [SettledStays]_vars
<1> SUFFICES ASSUME FinalInv, Next PROVE SettledStays
    OBVIOUS
<1>1. HashesKept /\ TypeInv
  BY NextHashesKept DEF FinalInv, TurnInv
<1>2. ASSUME NEW r \in Ref, rows[r].status \in {"cancelled", "confirmed"}
      PROVE  rows'[r] = rows[r]
  <2>1. ASSUME NEW p \in Pass, PassStep(p) \/ PassFault(p) PROVE rows'[r] = rows[r]
    <3>1. CASE pc[p] \in SavePC /\ rows' = [rows EXCEPT ![item[p].ref] = item[p].row]
      BY <1>1, <1>2, <3>1, SettledIsNotSaved DEF TypeInv, SharedOK
    <3> QED BY <1>1, <2>1, <3>1, StepFrame DEF PassFrame
  <2>2. CASE EnvStep
    BY <1>1, <1>2, <2>2
       DEF EnvStep, watcherVars, SubmitMetaTxn, ExpectedAtPasses, Restart, TypeInv, SharedOK
  <2> QED BY <2>1, <2>2 DEF Next
<1> QED BY <1>1, <1>2 DEF SettledStays, HashesKept

\* As long as passes take turns and no block is undone, a cancelled or confirmed row
\* is never written again, and a row that has a transaction keeps it, although every
\* save writes a whole row that was read some awaits ago; crashes, failing saves and
\* lost answers included.
THEOREM SettledRowsStaySettled ==
    ASSUME "reorg" \notin Faults
    PROVE  Spec /\ []PassesTakeTurns => SettledStaysSettled
<1>1. Spec /\ []PassesTakeTurns => [][SettledStays]_vars
  BY FinalAlways, StepSettles, PTL DEF Spec
<1>2. [][SettledStays]_vars => SettledStaysSettled
  BY PTL DEF SettledStays, SettledStaysSettled
<1> QED BY <1>1, <1>2, PTL

(***************************************************************************)
(* The refinement: every step of the watcher is one of MetaTxnLedger's, or *)
(* invisible to a client.                                                  *)
(***************************************************************************)

LedgerInv == RecordedInv /\ FinalInv

\* What the ledger's variables stand for.
ReportNow == [r \in MetaTxn |-> ReportOf(r)]
ExecutedNow == {r \in MetaTxn : \E t \in sent : t.payload = r /\ IsMined(t)}

\* A report changes only if the row's status does, or its transaction is sent.
LEMMA SameReport ==
    ASSUME NEW r \in MetaTxn, rows'[r].status = rows[r].status, OnNetwork(r)' <=> OnNetwork(r)
    PROVE  ReportOf(r)' = ReportOf(r)
BY DEF ReportOf

LEMMA ReportOfStatus ==
    ASSUME NEW r \in MetaTxn
    PROVE  /\ rows[r].status = "absent" => ReportOf(r) = "unknown"
           /\ rows[r].status = "unsubmitted" =>
                 ReportOf(r) = IF OnNetwork(r) THEN "relayed" ELSE "queued"
           /\ rows[r].status \in PendingStatus => ReportOf(r) = "relayed"
           /\ rows[r].status \in {"included", "confirmed"} => ReportOf(r) = "executed"
           /\ rows[r].status \in {"dropped", "aborted"} => ReportOf(r) = "failed"
           /\ rows[r].status = "cancelled" => ReportOf(r) = "rejected"
BY DEF ReportOf, PendingStatus

\* The same in the next state.
LEMMA ReportOfStatusNext ==
    ASSUME NEW r \in MetaTxn
    PROVE  /\ rows'[r].status = "absent" => ReportOf(r)' = "unknown"
           /\ rows'[r].status = "unsubmitted" =>
                 ReportOf(r)' = IF OnNetwork(r)' THEN "relayed" ELSE "queued"
           /\ rows'[r].status \in PendingStatus => ReportOf(r)' = "relayed"
           /\ rows'[r].status \in {"included", "confirmed"} => ReportOf(r)' = "executed"
           /\ rows'[r].status \in {"dropped", "aborted"} => ReportOf(r)' = "failed"
           /\ rows'[r].status = "cancelled" => ReportOf(r)' = "rejected"
BY DEF ReportOf, PendingStatus

\* A row without a transaction has none on the network, unless a pass is about to
\* save it.
LEMMA NotOnNetwork ==
    ASSUME LedgerInv, NEW r \in MetaTxn, rows[r].txHash = Null, OnNetwork(r)
    PROVE  \E p \in Pass : pc[p] = "saveSigned" /\ item[p].ref = r /\ item[p].row.txHash # Null
<1>1. PICK t \in sent : t.payload = r
  BY DEF OnNetwork
<1>2. t \in Tx
  BY DEF LedgerInv, RecordedInv, TurnInv, TypeInv, SharedOK, NodeTypeOK
<1>3. RowOf(t) = r /\ t # Null /\ t.payload # SelfTransfer
  BY <1>1, <1>2, RowOfInRef, NodeAssumption DEF RowOf
<1>4. PICK p \in Pass : Saving(p, t)
  BY <1>3 DEF LedgerInv, RecordedInv
<1> QED BY <1>2, <1>3, <1>4, SavingItsOwn DEF LedgerInv, RecordedInv

\* A step that a client sees at one meta-transaction only.
LEMMA OneReportMoves ==
    ASSUME NEW r \in MetaTxn,
           \A q \in MetaTxn \ {r} : ReportOf(q)' = ReportOf(q),
           ExecutedNow' = ExecutedNow,
           NEW from, NEW to, ReportOf(r) = from, ReportOf(r)' = to,
           \/ from = to
           \/ from = "unknown" /\ to = "queued"
           \/ from = "queued" /\ to \in {"relayed", "rejected"}
           \/ from = "relayed" /\ to = "failed"
           \/ from = "relayed" /\ to = "executed" /\ r \in ExecutedNow
    PROVE  [Ledger!LedgerNext]_(Ledger!ledgerVars)
<1>1. ReportNow' = [ReportNow EXCEPT ![r] = to] /\ ReportNow[r] = from
  BY DEF ReportNow
<1>2. CASE from = to
  <2>1. ReportNow' = ReportNow
    BY <1>1, <1>2 DEF ReportNow
  <2> QED BY <2>1 DEF Ledger!ledgerVars, ReportNow, ExecutedNow
<1>3. CASE from # to
  <2> HIDE DEF ReportNow, ExecutedNow
  <2>1. Ledger!Moves(r, from, to)
    BY <1>1 DEF Ledger!Moves, ReportNow
  <2>2. \/ Ledger!Queue(r) \/ Ledger!Reject(r) \/ Ledger!Relay(r)
        \/ Ledger!ReportExecuted(r) \/ Ledger!ReportFailed(r)
    BY <1>3, <2>1 DEF Ledger!Queue, Ledger!Reject, Ledger!Relay, Ledger!ReportExecuted,
       Ledger!ReportFailed, ExecutedNow
  <2> QED BY <2>2 DEF Ledger!LedgerNext
<1> QED BY <1>2, <1>3

LEMMA NoReportMoves ==
    ASSUME \A q \in MetaTxn : ReportOf(q)' = ReportOf(q), ExecutedNow' = ExecutedNow
    PROVE  [Ledger!LedgerNext]_(Ledger!ledgerVars)
BY DEF Ledger!ledgerVars, ExecutedNow

LEMMA LedgerTyped ==
    ASSUME LedgerInv
    PROVE  /\ TypeInv /\ sent \subseteq Tx
           /\ \A r \in Ref : RowFits(r, rows[r])
           /\ \A t \in Tx : IsMined(t) => t \in sent
BY DEF LedgerInv, RecordedInv, FinalInv, ChainInv, TableTruth, TurnInv, TypeInv, SharedOK,
       NodeTypeOK

\* The node takes the transaction: the meta-transaction is relayed, for the first
\* time.  Its replacement is invisible.
LEMMA BroadcastSimulated ==
    ASSUME LedgerInv, PassesTakeTurns, NEW p \in Pass, pc[p] \in {"broadcast", "replace"},
           rows' = rows, Receive(item[p].row.txHash)
    PROVE  [Ledger!LedgerNext]_(Ledger!ledgerVars)
<1> PICK t, r : t = item[p].row.txHash /\ r = item[p].ref
    OBVIOUS
<1>1. /\ t \in Tx /\ r \in Ref
      /\ HeldFits(pc[p], r, item[p].row, rows[r], todo[p][r])
  BY LedgerTyped DEF TypeInv, PassOK, LedgerInv, RecordedInv, TurnInv, PassFits
<1>2. sent' = sent \cup {t} /\ block' = block
  BY DEF Receive
<1>3. ExecutedNow' = ExecutedNow
  BY <1>1, <1>2, LedgerTyped DEF ExecutedNow, IsMined
<1>4. CASE pc[p] = "broadcast"
  <2>1. /\ r \in MetaTxn /\ rows[r].status = "unsubmitted" /\ t.payload = r
        /\ rows[r].txHash = Null
    BY <1>1, <1>4, LedgerTyped DEF HeldFits, RowFits, Unrelayed
  <2>2. ~ OnNetwork(r)
    BY <1>4, <2>1, NotOnNetwork DEF PassesTakeTurns, Running
  <2>3. OnNetwork(r)' /\ \A q \in MetaTxn \ {r} : OnNetwork(q)' <=> OnNetwork(q)
    BY <1>2, <2>1 DEF OnNetwork
  <2>4. \A q \in MetaTxn \ {r} : ReportOf(q)' = ReportOf(q)
    BY <2>3, SameReport
  <2>5. ReportOf(r) = "queued" /\ ReportOf(r)' = "relayed"
    BY <2>1, <2>2, <2>3, ReportOfStatus, ReportOfStatusNext
  <2> QED BY <1>3, <2>1, <2>4, <2>5, OneReportMoves
<1>5. CASE pc[p] = "replace"
  <2>1. t.payload = SelfTransfer /\ t.payload \notin MetaTxn
    BY <1>1, <1>5, NodeAssumption DEF HeldFits, SelfTx
  <2>2. \A q \in MetaTxn : OnNetwork(q)' <=> OnNetwork(q)
    BY <1>2, <2>1 DEF OnNetwork
  <2> QED BY <1>3, <2>2, SameReport, NoReportMoves
<1> QED BY <1>4, <1>5

\* A row is saved: what it then says is what a client may be told next.
LEMMA SaveSimulated ==
    ASSUME LedgerInv, PassesTakeTurns, NEW p \in Pass, pc[p] \in SavePC,
           rows' = [rows EXCEPT ![item[p].ref] = item[p].row],
           UNCHANGED nodeVars
    PROVE  [Ledger!LedgerNext]_(Ledger!ledgerVars)
<1> PICK r, row : r = item[p].ref /\ row = item[p].row
    OBVIOUS
<1>0. FinalInv /\ TurnInv
  BY DEF LedgerInv, RecordedInv
<1>1. /\ r \in Ref /\ RowFits(r, rows[r])
      /\ HeldFits(pc[p], r, row, rows[r], todo[p][r])
      /\ \A q \in Ref : rows'[q] = IF q = r THEN row ELSE rows[q]
  BY LedgerTyped, SavedRowFits, <1>0 DEF TurnInv, PassFits, TypeInv, SharedOK
<1>2. ExecutedNow' = ExecutedNow /\ \A q \in MetaTxn : OnNetwork(q)' <=> OnNetwork(q)
  BY DEF nodeVars, ExecutedNow, IsMined, OnNetwork
<1>3. \A q \in MetaTxn \ {r} : ReportOf(q)' = ReportOf(q)
  BY <1>1, <1>2, Constants, SameReport
<1>4. CASE r \notin MetaTxn
  BY <1>2, <1>3, <1>4, NoReportMoves
<1>5. CASE r \in MetaTxn
  <2>0. rows'[r] = row
    BY <1>1
  <2>1. CASE pc[p] = "saveSigned"
    <3>1. rows[r].status = "unsubmitted" /\ rows[r].txHash = Null
      BY <1>1, <2>1 DEF HeldFits, RowFits, Unrelayed
    <3>2. CASE row.status = "cancelled" /\ row.txHash = Null
      <4>1. ~ OnNetwork(r)
        BY <1>5, <2>1, <3>1, <3>2, NotOnNetwork DEF PassesTakeTurns, Running
      <4>2. ReportOf(r) = "queued" /\ ReportOf(r)' = "rejected"
        BY <1>5, <2>0, <3>1, <3>2, <4>1, ReportOfStatus, ReportOfStatusNext
      <4> QED BY <1>2, <1>3, <1>5, <4>2, OneReportMoves
    <3>3. CASE row.status = "submitted" /\ row.txHash \in Tx /\ row.txHash.payload = r
      <4>1. row.txHash \in sent
        BY <2>1, <3>3, RowOfInRef DEF LedgerInv, RecordedInv
      <4>2. OnNetwork(r)
        BY <3>3, <4>1 DEF OnNetwork
      <4>3. ReportOf(r) = "relayed" /\ ReportOf(r)' = "relayed"
        BY <1>5, <2>0, <3>1, <3>3, <4>2, ReportOfStatus, ReportOfStatusNext DEF PendingStatus
      <4> QED BY <1>2, <1>3, <1>5, <4>3, OneReportMoves
    <3> QED BY <1>1, <2>1, <3>2, <3>3 DEF HeldFits
  <2>2. CASE pc[p] = "saveTracked"
    <3>1. /\ rows[r].status \in PendingStatus \cup {"aborted"}
          /\ row.status \in {"mempool", "stuck", "dropped"}
          /\ rows[r].status = "aborted" => row.status = "dropped"
      BY <1>0, <1>1, <2>2 DEF HeldFits, FinalInv, SavesNothingStale
    <3>2. CASE rows[r].status = "aborted"
      <4>1. ReportOf(r) = "failed" /\ ReportOf(r)' = "failed"
        BY <1>5, <2>0, <3>1, <3>2, ReportOfStatus, ReportOfStatusNext
      <4> QED BY <1>2, <1>3, <1>5, <4>1, OneReportMoves
    <3>3. CASE rows[r].status # "aborted"
      <4>1. ReportOf(r) = "relayed" /\ ReportOf(r)' \in {"relayed", "failed"}
        BY <1>5, <2>0, <3>1, <3>3, ReportOfStatus, ReportOfStatusNext DEF PendingStatus
      <4> QED BY <1>2, <1>3, <1>5, <4>1, OneReportMoves
    <3> QED BY <3>2, <3>3
  <2>3. CASE pc[p] = "saveIncluded"
    <3>1. /\ rows[r].status \in PendingStatus /\ row.status = "included"
          /\ row.txHash = rows[r].txHash /\ rows[r].txHash.payload = r
      BY <1>0, <1>1, <1>5, <2>3
         DEF HeldFits, RowFits, FinalInv, SavesNothingStale
    <3>2. row.txHash \in Tx /\ IsMined(row.txHash)
      BY <1>0, <3>1 DEF FinalInv, ChainInv, PassTruth, Truthful, IsMined
    <3>3. r \in ExecutedNow
      BY <1>5, <3>1, <3>2, LedgerTyped DEF ExecutedNow
    <3>4. ReportOf(r) = "relayed" /\ ReportOf(r)' = "executed"
      BY <1>5, <2>0, <3>1, ReportOfStatus, ReportOfStatusNext
    <3> QED BY <1>2, <1>3, <1>5, <3>3, <3>4, OneReportMoves
  <2>4. CASE pc[p] = "saveAborted"
    <3>1. /\ row.status = "aborted" /\ rows[r].txHash # Null /\ NonceLost(rows[r].txHash)
      BY <1>0, <2>4, AbortedIsLost
    <3>2. rows[r].status \notin {"included", "confirmed"}
      BY <1>0, <1>1, <3>1, MinedIsNotLost
    <3>3. rows[r].status \in PendingStatus \cup {"dropped", "aborted"}
      BY <1>1, <3>1, <3>2, LedgerTyped
         DEF TypeInv, SharedOK, Row, Status, RowFits, Unrelayed
    <3>4. ReportOf(r) \in {"relayed", "failed"} /\ ReportOf(r)' = "failed"
      BY <1>5, <2>0, <3>1, <3>3, ReportOfStatus, ReportOfStatusNext
    <3> QED BY <1>2, <1>3, <1>5, <3>4, OneReportMoves
  <2>5. CASE pc[p] = "saveConfirmed"
    <3>1. rows[r].status = "included" /\ row.status = "confirmed"
      BY <1>0, <1>1, <2>5 DEF HeldFits, FinalInv, SavesNothingStale
    <3>2. ReportOf(r) = "executed" /\ ReportOf(r)' = "executed"
      BY <1>5, <2>0, <3>1, ReportOfStatus, ReportOfStatusNext
    <3> QED BY <1>2, <1>3, <1>5, <3>2, OneReportMoves
  <2>6. CASE pc[p] = "saveReplacement"
    BY <1>1, <1>5, <2>6, WatcherAssumption DEF HeldFits
  <2> QED BY <2>1, <2>2, <2>3, <2>4, <2>5, <2>6 DEF SavePC
<1> QED BY <1>4, <1>5

\* The chain executes only what was relayed, and not twice.
LEMMA MineSimulated ==
    ASSUME LedgerInv, PassesTakeTurns, NEW t \in sent, Mine(t), UNCHANGED watcherVars
    PROVE  [Ledger!LedgerNext]_(Ledger!ledgerVars)
<1>1. /\ t \in Tx /\ sent' = sent /\ rows' = rows /\ ~ SlotMined(t.from, t.nonce)
      /\ IsMined(t)' /\ ~ IsMined(t)
      /\ \A u \in Tx \ {t} : IsMined(u)' <=> IsMined(u)
  <2>1. /\ t \in Tx /\ sent' = sent /\ rows' = rows /\ ~ SlotMined(t.from, t.nonce)
        /\ block' = [block EXCEPT ![t] = head + 1] /\ block \in [Tx -> 0 .. MaxHead]
        /\ head \in Nat
    BY LedgerTyped, NodeAssumption
       DEF Mine, watcherVars, TypeInv, SharedOK, NodeTypeOK
  <2> QED BY <2>1 DEF IsMined, NotMined, SlotMined
<1>2. \A q \in MetaTxn : ReportOf(q)' = ReportOf(q)
  BY <1>1, SameReport DEF OnNetwork
<1>3. CASE t.payload \notin MetaTxn
  <2>1. ExecutedNow' = ExecutedNow
    BY <1>1, <1>3, LedgerTyped DEF ExecutedNow
  <2> QED BY <1>2, <2>1, NoReportMoves
<1>4. CASE t.payload \in MetaTxn
  <2> DEFINE r == t.payload
  <2>1. r \notin ExecutedNow
    BY <1>1, <1>4, RecordedImplies DEF LedgerInv, ExecutedNow, RelayedAtMostOnce
  <2>2. ExecutedNow' = ExecutedNow \cup {r}
    BY <1>1, <1>4, LedgerTyped DEF ExecutedNow
  <2>3. ReportOf(r) \in {"relayed", "failed"}
    <3>1. OnNetwork(r) /\ r \in Ref /\ RowOf(t) = r /\ t # Null
      BY <1>1, <1>4, Constants, RowOfInRef DEF OnNetwork, RowOf
    <3>2. CASE rows[r].txHash = t
      <4>1. rows[r].status \notin {"included", "confirmed"}
        BY <1>1, <3>1, <3>2, MinedIsNotLost DEF LedgerInv
      <4>2. rows[r].status \in PendingStatus \cup {"dropped", "aborted"}
        BY <3>1, <3>2, <4>1, LedgerTyped
           DEF TypeInv, SharedOK, Row, Status, RowFits, Unrelayed
      <4> QED BY <1>4, <4>2, ReportOfStatus
    <3>3. ASSUME NEW p \in Pass, Saving(p, t) PROVE ReportOf(r) = "relayed"
      <4>1. pc[p] = "saveSigned" /\ item[p].ref = r
        BY <1>1, <1>4, <3>1, <3>3, SavingItsOwn, NodeAssumption DEF LedgerInv, RecordedInv
      <4>2. rows[r].status = "unsubmitted"
        BY <4>1 DEF LedgerInv, RecordedInv, TurnInv, PassFits, HeldFits
      <4> QED BY <1>4, <3>1, <4>2, ReportOfStatus
    <3> QED BY <3>1, <3>2, <3>3 DEF LedgerInv, RecordedInv
  <2>4. ReportNow' = ReportNow
    BY <1>2 DEF ReportNow
  <2> HIDE DEF r
  <2>5. r \in MetaTxn
    BY <1>4 DEF r
  <2>6. ReportNow[r] \in {"relayed", "failed"}
    BY <2>3, <2>5 DEF ReportNow
  <2>7. Ledger!Execute(r)
    BY <2>1, <2>2, <2>4, <2>6 DEF Ledger!Execute, ReportNow, ExecutedNow
  <2> QED BY <2>5, <2>7 DEF Ledger!LedgerNext
<1> QED BY <1>3, <1>4

\* A new row is queued; nothing of it is on the network yet.
LEMMA SubmitSimulated ==
    ASSUME LedgerInv, NEW r \in MetaTxn, SubmitMetaTxn(r)
    PROVE  [Ledger!LedgerNext]_(Ledger!ledgerVars)
<1>1. r \in Ref /\ rows[r].status = "absent" /\ rows[r].txHash = Null
  BY Constants, LedgerTyped DEF SubmitMetaTxn, RowFits, Unrelayed
<1>2. /\ \A q \in Ref \ {r} : rows'[q] = rows[q]
      /\ rows'[r].status = "unsubmitted" /\ UNCHANGED nodeVars
  BY <1>1, LedgerTyped DEF SubmitMetaTxn, TypeInv, SharedOK, NoRow
<1>3. ExecutedNow' = ExecutedNow /\ \A q \in MetaTxn : OnNetwork(q)' <=> OnNetwork(q)
  BY <1>2 DEF nodeVars, ExecutedNow, IsMined, OnNetwork
<1>4. ~ OnNetwork(r)
  <2>1. ASSUME NEW p \in Pass, pc[p] = "saveSigned", item[p].ref = r PROVE FALSE
    BY <1>1, <2>1 DEF LedgerInv, RecordedInv, TurnInv, PassFits, HeldFits
  <2> QED BY <1>1, <2>1, NotOnNetwork
<1>5. \A q \in MetaTxn \ {r} : ReportOf(q)' = ReportOf(q)
  BY <1>2, <1>3, Constants, SameReport
<1>6. ReportOf(r) = "unknown" /\ ReportOf(r)' = "queued"
  BY <1>1, <1>2, <1>3, <1>4, ReportOfStatus, ReportOfStatusNext
<1> QED BY <1>3, <1>5, <1>6, OneReportMoves

LEMMA StepSimulated ==
    ASSUME BroadcastsAreSaved, "reorg" \notin Faults
    PROVE  LedgerInv /\ PassesTakeTurns /\ [Next]_vars
              => [Ledger!LedgerNext]_(Ledger!ledgerVars)
<1> SUFFICES ASSUME LedgerInv, PassesTakeTurns, [Next]_vars
             PROVE  [Ledger!LedgerNext]_(Ledger!ledgerVars)
    OBVIOUS
<1>1. CASE rows' = rows /\ sent' = sent /\ block' = block
  <2>1. /\ \A q \in MetaTxn : ReportOf(q)' = ReportOf(q)
        /\ ExecutedNow' = ExecutedNow
    BY <1>1, SameReport DEF OnNetwork, ExecutedNow, IsMined
  <2> QED BY <2>1, NoReportMoves
<1>2. ASSUME NEW p \in Pass, PassStep(p) \/ PassFault(p)
      PROVE  [Ledger!LedgerNext]_(Ledger!ledgerVars)
  <2>1. PassFrame(p)
    BY <1>2, LedgerTyped, StepFrame
  <2>2. CASE pc[p] \in {"broadcast", "replace"} /\ Receive(item[p].row.txHash)
    <3>1. rows' = rows
      BY <2>1, <2>2 DEF PassFrame, SavePC
    <3> QED BY <2>2, <3>1, BroadcastSimulated
  <2>3. CASE UNCHANGED nodeVars
    <3>1. CASE /\ pc[p] \in SavePC
               /\ rows' = [rows EXCEPT ![item[p].ref] = item[p].row]
      BY <2>3, <3>1, SaveSimulated
    <3> QED BY <1>1, <2>1, <2>3, <3>1 DEF PassFrame, nodeVars
  <2> QED BY <2>1, <2>2, <2>3 DEF PassFrame
<1>3. CASE EnvStep \/ UNCHANGED vars
  BY <1>1, <1>3, MineSimulated, SubmitSimulated
     DEF EnvStep, ChainStep, MineEmptyBlock, GasPriceMoves, NodeFault, Forget, Fault,
         ExpectedAtPasses, Restart, nodeVars, watcherVars, vars
<1> QED BY <1>2, <1>3 DEF Next

LEMMA InitSimulated == Init => Ledger!LedgerInit
<1> SUFFICES ASSUME Init PROVE Ledger!LedgerInit
    OBVIOUS
<1>1. \A r \in MetaTxn : ReportOf(r) = "unknown"
  BY Constants, ReportOfStatus DEF Init, NoRow
<1>2. sent = {}
  BY DEF Init, NodeInit
<1> QED BY <1>1, <1>2 DEF Ledger!LedgerInit

\* As long as passes take turns, every broadcast is saved and no block is undone, the
\* watcher keeps the ledger's promise to a client for any number of rows, signers,
\* replacements and evictions: a meta-transaction is relayed at most once, reported
\* as executed only after the chain executed it, and a final answer is never taken
\* back.
THEOREM WatcherImplementsLedger ==
    ASSUME BroadcastsAreSaved, "reorg" \notin Faults
    PROVE  Spec /\ []PassesTakeTurns => ImplementsLedger
<1>1. Spec /\ []PassesTakeTurns => []LedgerInv
  BY RecordedAlways, FinalAlways, PTL DEF LedgerInv
<1> QED BY <1>1, InitSimulated, StepSimulated, PTL
        DEF Spec, ImplementsLedger, Ledger!LedgerSpec
=============================================================================
