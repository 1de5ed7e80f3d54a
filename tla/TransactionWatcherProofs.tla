----------------------- MODULE TransactionWatcherProofs -----------------------
(***************************************************************************)
(* Theorems about TransactionWatcher, for any number of signers, meta-     *)
(* transactions, concurrent passes, faults, and any bounds.                *)
(***************************************************************************)
EXTENDS TransactionWatcher, TLAPS

(***************************************************************************)
(* Type correctness.  TypeOK alone is not inductive: what a pass saves has  *)
(* the type of a row only because of what it held, and how far it had got.  *)
(***************************************************************************)

\* The rows a pass looks up on the chain, unsticks or confirms.
LookupPC == {"track", "saveTracked", "saveIncluded", "findSameNonce", "saveAborted",
             "priceUnstick", "unstick", "replace", "saveReplacement",
             "findIncluded", "confirm", "saveConfirmed"}

SavePC == {"saveSigned", "saveTracked", "saveIncluded", "saveAborted",
           "saveReplacement", "saveConfirmed"}

OnChainStatus == PendingStatus \cup {"included", "confirmed"}

HasHash(row) == row.status \in OnChainStatus => row.txHash \in Tx

SharedOK ==
    /\ NodeTypeOK
    /\ rows \in [Ref -> Row]
    /\ \A r \in Ref : HasHash(rows[r])
    /\ late \subseteq Ref
    /\ keys \in KeySets
    /\ faults \in 0 .. MaxFaults

PassOK(p) ==
    /\ pc[p] \in PC
    /\ todo[p] \in Snapshot /\ \A r \in Ref : HasHash(todo[p][r])
    /\ doomed[p] \in Snapshot
    /\ item[p] \in Item /\ HasHash(item[p].row)
    /\ mark[p] \in 0 .. MaxHead + MaxGasPrice + 1
    /\ pc[p] \in SavePC \cup {"broadcast", "replace"} => item[p].ref \in Ref
    /\ pc[p] \in {"broadcast", "replace", "saveIncluded", "findSameNonce"} =>
          item[p].row.txHash \in Tx
    /\ pc[p] \in LookupPC => \A r \in Ref :
          todo[p][r].status \in PendingStatus \cup {"included", "absent"}
    /\ pc[p] \notin {"findIncluded", "confirm", "saveConfirmed"} =>
          mark[p] \in 0 .. MaxGasPrice + 1

\* What each pass keeps is a value per pass.
Indexed ==
    /\ pc = [p \in Pass |-> pc[p]]
    /\ todo = [p \in Pass |-> todo[p]]
    /\ doomed = [p \in Pass |-> doomed[p]]
    /\ item = [p \in Pass |-> item[p]]
    /\ mark = [p \in Pass |-> mark[p]]

TypeInv == SharedOK /\ Indexed /\ \A p \in Pass : PassOK(p)

\* A step of pass p leaves what the other passes keep alone.
OnlyPass(p) ==
    /\ pc' = [pc EXCEPT ![p] = pc'[p]]
    /\ todo' = [todo EXCEPT ![p] = todo'[p]]
    /\ doomed' = [doomed EXCEPT ![p] = doomed'[p]]
    /\ item' = [item EXCEPT ![p] = item'[p]]
    /\ mark' = [mark EXCEPT ![p] = mark'[p]]

LEMMA TypeInvImpliesTypeOK == TypeInv => TypeOK
BY DEF TypeInv, TypeOK, SharedOK, Indexed, PassOK

LEMMA OnePassSteps ==
    ASSUME TypeInv, NEW p \in Pass, OnlyPass(p), SharedOK', PassOK(p)'
    PROVE  TypeInv'
<1>1. Indexed'
  BY DEF TypeInv, Indexed, OnlyPass
<1>2. ASSUME NEW q \in Pass, q # p PROVE PassOK(q)'
  <2>1. /\ pc'[q] = pc[q] /\ todo'[q] = todo[q] /\ doomed'[q] = doomed[q]
        /\ item'[q] = item[q] /\ mark'[q] = mark[q]
    BY <1>2 DEF TypeInv, Indexed, OnlyPass
  <2> QED BY <2>1 DEF TypeInv, PassOK
<1> QED BY <1>1, <1>2 DEF TypeInv

LEMMA Constants ==
    /\ NoRow \in Row /\ Nothing \in Snapshot /\ NoItem \in Item
    /\ \A r \in Ref : Nothing[r] = NoRow
    /\ RelayTx \subseteq Tx /\ SelfTx \subseteq Tx /\ SelfTx \subseteq Ref
    /\ MetaTxn \subseteq Ref /\ Null \notin Tx
    /\ IntervalPass \in Pass
BY NodeAssumption, WatcherAssumption
   DEF NoRow, Row, Nothing, Snapshot, NoItem, Item, Ref, Tx, Status, GasPrice, NotMined, Pass

LEMMA InitTyped == Init => TypeInv
<1> SUFFICES ASSUME Init PROVE TypeInv
    OBVIOUS
<1>1. NodeTypeOK
  BY NodeAssumption DEF Init, NodeInit, NodeTypeOK, NotMined
<1>2. SharedOK
  BY <1>1, Constants, WatcherAssumption
     DEF Init, SharedOK, Snapshot, HasHash, OnChainStatus, PendingStatus, NoRow
<1>3. Indexed
  BY DEF Init, Indexed
<1>4. ASSUME NEW p \in Pass PROVE PassOK(p)
  <2>1. /\ pc[p] = "idle" /\ todo[p] = Nothing /\ doomed[p] = Nothing
        /\ item[p] = NoItem /\ mark[p] = 0
    BY DEF Init
  <2>2. HasHash(NoRow) /\ NoItem.row = NoRow
    BY DEF HasHash, OnChainStatus, PendingStatus, NoRow, NoItem
  <2> QED BY <2>1, <2>2, Constants, NodeAssumption DEF PassOK, PC, SavePC, LookupPC
<1> QED BY <1>2, <1>3, <1>4 DEF TypeInv

\* A query returns entities of the type of the table's rows.
LEMMA FindTyped ==
    ASSUME SharedOK, NEW S
    PROVE  /\ FindByStatus(S) \in Snapshot
           /\ \A r \in Ref : /\ HasHash(FindByStatus(S)[r])
                             /\ FindByStatus(S)[r].status \in S \cup {"absent"}
BY Constants DEF SharedOK, FindByStatus, Snapshot, HasHash, OnChainStatus,
   PendingStatus, NoRow

LEMMA ReceiveTyped ==
    ASSUME NodeTypeOK, NEW t \in Tx, Receive(t)
    PROVE  NodeTypeOK'
BY DEF NodeTypeOK, Receive

LEMMA NodeStepTyped ==
    ASSUME NodeTypeOK,
           \/ ChainStep
           \/ GasPriceMoves
           \/ \E b \in 1 .. head : \E kept \in SUBSET sent : Reorg(b, kept)
           \/ \E t \in pool : Forget(t)
    PROVE  NodeTypeOK'
<1>1. CASE \E t \in sent : Mine(t)
  BY <1>1, NodeAssumption DEF Mine, NodeTypeOK
<1>2. CASE MineEmptyBlock
  BY <1>2, NodeAssumption DEF MineEmptyBlock, NodeTypeOK
<1>3. CASE GasPriceMoves
  BY <1>3 DEF GasPriceMoves, NodeTypeOK
<1>4. CASE \E b \in 1 .. head : \E kept \in SUBSET sent : Reorg(b, kept)
  BY <1>4, NodeAssumption DEF Reorg, NodeTypeOK, NotMined
<1>5. CASE \E t \in pool : Forget(t)
  BY <1>5 DEF Forget, NodeTypeOK
<1> QED BY <1>1, <1>2, <1>3, <1>4, <1>5 DEF ChainStep

\* Changing a row's status, or taking one off a list, keeps its type.
LEMMA RowWithStatus ==
    ASSUME NEW row \in Row, NEW status \in Status
    PROVE  /\ [row EXCEPT !.status = status] \in Row
           /\ [row EXCEPT !.status = status].status = status
           /\ [row EXCEPT !.status = status].txHash = row.txHash
           /\ [row EXCEPT !.status = status].blockNumber = row.blockNumber
BY DEF Row

LEMMA WithoutRow ==
    ASSUME NEW entities \in Snapshot, NEW r \in Ref, \A q \in Ref : HasHash(entities[q])
    PROVE  /\ [entities EXCEPT ![r] = NoRow] \in Snapshot
           /\ \A q \in Ref : HasHash([entities EXCEPT ![r] = NoRow][q])
           /\ \A q \in Ref : \/ [entities EXCEPT ![r] = NoRow][q] = entities[q]
                             \/ [entities EXCEPT ![r] = NoRow][q].status = "absent"
BY Constants DEF Snapshot, HasHash, OnChainStatus, PendingStatus, NoRow

LEMMA HandledTyped ==
    ASSUME TypeInv, NEW p \in Pass, NEW r \in Ref,
           todo'[p] = [todo[p] EXCEPT ![r] = NoRow]
    PROVE  /\ todo'[p] \in Snapshot
           /\ \A q \in Ref : HasHash(todo'[p][q])
           /\ pc[p] \in LookupPC => \A q \in Ref :
                 todo'[p][q].status \in PendingStatus \cup {"included", "absent"}
<1>1. todo[p] \in Snapshot /\ \A q \in Ref : HasHash(todo[p][q])
  BY DEF TypeInv, PassOK
<1>2. todo'[p] \in Snapshot /\ \A q \in Ref : HasHash(todo'[p][q])
  BY <1>1, WithoutRow
<1>3. \A q \in Ref : todo'[p][q] = todo[p][q] \/ todo'[p][q].status = "absent"
  BY <1>1, WithoutRow
<1> QED BY <1>2, <1>3 DEF TypeInv, PassOK

LEMMA HeldTyped ==
    ASSUME NEW p \in Pass, NEW r \in Ref, NEW row \in Row, HasHash(row),
           item'[p] = [ref |-> r, row |-> row]
    PROVE  /\ item'[p] \in Item
           /\ item'[p].ref = r /\ item'[p].row = row
           /\ HasHash(item'[p].row)
BY DEF Item

LEMMA NothingHeld == HasHash(NoRow) /\ NoItem.row = NoRow
BY DEF HasHash, OnChainStatus, PendingStatus, NoRow, NoItem

LEMMA EndPassTyped ==
    ASSUME TypeInv, NEW p \in Pass, EndPass(p)
    PROVE  PassOK(p)'
<1>1. /\ pc'[p] \in {"idle", "done"} /\ todo'[p] = Nothing /\ doomed'[p] = Nothing
      /\ item'[p] = NoItem /\ mark'[p] = 0
  BY DEF EndPass, TypeInv, Indexed, Goto, Load, LetGo
<1> QED BY <1>1, Constants, NothingHeld, NodeAssumption DEF PassOK, PC, SavePC, LookupPC, HasHash

(***************************************************************************)
(* What every step of a pass has in common: it changes nothing of another  *)
(* pass, saves no row but the one in its hands, and gives the node no       *)
(* transaction but the one in its hands.                                   *)
(***************************************************************************)
PassFrame(p) ==
    /\ OnlyPass(p)
    /\ \/ UNCHANGED rows
       \/ /\ pc[p] \in SavePC
          /\ rows' = [rows EXCEPT ![item[p].ref] = item[p].row]
    /\ \/ UNCHANGED nodeVars
       \/ pc[p] \in {"broadcast", "replace"} /\ Receive(item[p].row.txHash)
    /\ late' \subseteq late
    /\ keys' = keys
    /\ faults' \in 0 .. MaxFaults

LEMMA StepFrame ==
    ASSUME TypeInv, NEW p \in Pass, PassStep(p) \/ PassFault(p)
    PROVE  PassFrame(p)
<1> USE DEF PassFrame, OnlyPass, TypeInv, SharedOK, Indexed, Goto, Load, Handled, Hold, LetGo
<1>1. CASE SignStep(p)
  BY <1>1 DEF SignStep, StartPass, Cancel, PrepareMetaTxn, SigningFails, BroadcastMetaTxn,
              BroadcastRefused, SaveSigned, Broadcast, Refused, Save, SavePC
<1>2. CASE TrackStep(p)
  BY <1>2 DEF TrackStep, FindBroadcasted, Track, Abort, SaveTracked, SaveIncluded,
              FindSameNonce, SaveAborted, Save, SavePC
<1>3. CASE UnstickStep(p)
  <2>1. CASE FindStuck(p) \/ PriceUnstick(p)
    BY <2>1 DEF FindStuck, PriceUnstick
  <2>2. ASSUME NEW r \in Ref, SkipUnstick(p, r) \/ UnstickThrows(p, r)
        PROVE  PassFrame(p)
    BY <2>2 DEF SkipUnstick, UnstickThrows, EndPass
  <2>3. ASSUME NEW r \in Ref, Unstick(p, r)
        PROVE  PassFrame(p)
    BY <2>3 DEF Unstick
  <2>4. CASE BroadcastReplacement(p) \/ ReplacementRefused(p)
    BY <2>4 DEF BroadcastReplacement, ReplacementRefused, Broadcast, Refused
  <2>5. CASE SaveReplacement(p)
    BY <2>5 DEF SaveReplacement, SavePC
  <2> HIDE DEF PassFrame
  <2> QED BY <1>3, <2>1, <2>2, <2>3, <2>4, <2>5 DEF UnstickStep
<1>4. CASE ConfirmStep(p)
  BY <1>4
     DEF ConfirmStep, ReadLatestBlock, FindIncluded, Confirm, ConfirmThrows,
         SaveConfirmed,
              FinishPass, EndPass, Save, SavePC
<1>5. CASE PassFault(p)
  <2>1. faults' \in 0 .. MaxFaults
    BY <1>5, WatcherAssumption
       DEF PassFault, BroadcastReplyLost, ReplacementReplyLost, ReplyLost, ReadFails, SaveFails, Fault
  <2> QED BY <1>5, <2>1 DEF PassFault, BroadcastReplyLost, ReplacementReplyLost, ReplyLost,
                            ReadFails, SaveFails, EndPass
<1> QED BY <1>1, <1>2, <1>3, <1>4, <1>5 DEF PassStep

LEMMA FrameShared ==
    ASSUME TypeInv, NEW p \in Pass, PassFrame(p)
    PROVE  SharedOK'
<1>1. rows' \in [Ref -> Row] /\ \A r \in Ref : HasHash(rows'[r])
  <2>1. CASE UNCHANGED rows
    BY <2>1 DEF TypeInv, SharedOK
  <2>2. CASE pc[p] \in SavePC /\ rows' = [rows EXCEPT ![item[p].ref] = item[p].row]
    <3>1. item[p].ref \in Ref /\ item[p].row \in Row /\ HasHash(item[p].row)
      BY <2>2 DEF TypeInv, PassOK, Item
    <3> QED BY <2>2, <3>1 DEF TypeInv, SharedOK
  <2> QED BY <2>1, <2>2 DEF PassFrame
<1>2. NodeTypeOK'
  <2>1. CASE UNCHANGED nodeVars
    BY <2>1 DEF nodeVars, NodeTypeOK, TypeInv, SharedOK
  <2>2. CASE pc[p] \in {"broadcast", "replace"} /\ Receive(item[p].row.txHash)
    BY <2>2, ReceiveTyped DEF TypeInv, SharedOK, PassOK
  <2> QED BY <2>1, <2>2 DEF PassFrame
<1> QED BY <1>1, <1>2 DEF PassFrame, TypeInv, SharedOK

LEMMA SignTyped ==
    ASSUME TypeInv, NEW p \in Pass, SignStep(p)
    PROVE  PassOK(p)'
<1>1. CASE StartPass(p)
  <2>1. /\ pc[p] = "idle" /\ pc'[p] = "sign" /\ todo'[p] = FindByStatus({"unsubmitted"})
        /\ doomed'[p] = doomed[p] /\ item'[p] = item[p] /\ mark'[p] = mark[p]
    BY <1>1, NodeAssumption
       DEF StartPass, TypeInv, Indexed, Goto, Load, Handled, Hold, LetGo, SharedOK,
           NodeTypeOK
  <2>2. /\ FindByStatus({"unsubmitted"}) \in Snapshot
        /\ \A r \in Ref : /\ HasHash(FindByStatus({"unsubmitted"})[r])
                          /\ FindByStatus({"unsubmitted"})[r].status \in {"unsubmitted"} \cup {"absent"}
    BY FindTyped DEF TypeInv
  <2> QED BY <2>1, <2>2, NodeAssumption
             DEF TypeInv, SharedOK, NodeTypeOK, PassOK, PC, SavePC, LookupPC,
                 PendingStatus, HasHash
<1>2. ASSUME NEW r \in Ref, Cancel(p, r) PROVE PassOK(p)'
  <2> DEFINE row == [todo[p][r] EXCEPT !.status = "cancelled"]
  <2>1. /\ pc[p] = "sign" /\ pc'[p] = "saveSigned" /\ todo'[p] = [todo[p] EXCEPT ![r] = NoRow]
        /\ doomed'[p] = doomed[p] /\ item'[p] = [ref |-> r, row |-> row] /\ mark'[p] = mark[p]
    BY <1>2 DEF Cancel, TypeInv, Indexed, Goto, Load, Handled, Hold, LetGo
  <2>2. row \in Row /\ HasHash(row)
    <3>1. todo[p][r] \in Row /\ "cancelled" \in Status
      BY DEF TypeInv, PassOK, Snapshot, Status
    <3> QED BY <3>1, RowWithStatus DEF HasHash, OnChainStatus, PendingStatus
  <2> HIDE DEF row
  <2> QED BY <2>1, <2>2, HandledTyped, HeldTyped DEF TypeInv, PassOK, PC, SavePC, LookupPC
<1>3. ASSUME NEW r \in Ref, PrepareMetaTxn(p, r) PROVE PassOK(p)'
  <2>1. PICK s \in Signer, n \in Nonce :
           item' = [item EXCEPT ![p] =
             [ref |-> r,
              row |-> [todo[p][r] EXCEPT !.status = "submitted",
                         !.txHash = [from |-> s, nonce |-> n, payload |-> r,
                                     gasPrice |-> todo[p][r].gasPrice]]]]
    BY <1>3 DEF PrepareMetaTxn, Hold
  <2> DEFINE t == [from |-> s, nonce |-> n, payload |-> r, gasPrice |-> todo[p][r].gasPrice]
             row == [todo[p][r] EXCEPT !.status = "submitted", !.txHash = t]
  <2>2. /\ pc[p] = "sign" /\ pc'[p] = "broadcast" /\ todo'[p] = [todo[p] EXCEPT ![r] = NoRow]
        /\ doomed'[p] = doomed[p] /\ item'[p] = [ref |-> r, row |-> row] /\ mark'[p] = mark[p]
    BY <1>3, <2>1 DEF PrepareMetaTxn, TypeInv, Indexed, Goto, Load, Handled, Hold, LetGo
  <2>3. todo[p][r] \in Row /\ r \in MetaTxn
    BY <1>3 DEF PrepareMetaTxn, TypeInv, PassOK, Snapshot
  <2>4. t \in Tx
    BY <2>3 DEF Row, RelayTx, Tx
  <2>5. row \in Row /\ row.txHash = t /\ HasHash(row)
    BY <2>3, <2>4 DEF Row, Status, PendingStatus, HasHash
  <2> HIDE DEF row, t
  <2> QED BY <2>2, <2>4, <2>5, HandledTyped, HeldTyped
          DEF TypeInv, PassOK, PC, SavePC, LookupPC, HasHash
<1>4. ASSUME NEW r \in Ref, SigningFails(p, r) PROVE PassOK(p)'
  BY <1>4, Constants, NothingHeld, WithoutRow
     DEF SigningFails, TypeInv, Indexed, Goto, Load, Handled, Hold, LetGo, PassOK, PC,
         SavePC, LookupPC, IsLoaded
<1>5. CASE BroadcastMetaTxn(p)
  BY <1>5, Constants, NothingHeld, WithoutRow
     DEF BroadcastMetaTxn, Broadcast, TypeInv, Indexed, Goto, Load, Handled, Hold,
         LetGo, PassOK, PC, SavePC, LookupPC, IsLoaded
<1>6. CASE BroadcastRefused(p)
  BY <1>6, Constants, NothingHeld, WithoutRow
     DEF BroadcastRefused, Refused, TypeInv, Indexed, Goto, Load, Handled, Hold, LetGo,
         PassOK, PC, SavePC, LookupPC, IsLoaded
<1>7. CASE SaveSigned(p)
  BY <1>7, Constants, NothingHeld, WithoutRow
     DEF SaveSigned, Save, TypeInv, Indexed, Goto, Load, Handled, Hold, LetGo, PassOK,
         PC, SavePC, LookupPC, IsLoaded
<1> QED BY <1>1, <1>2, <1>3, <1>4, <1>5, <1>6, <1>7 DEF SignStep

LEMMA TrackTyped ==
    ASSUME TypeInv, NEW p \in Pass, TrackStep(p)
    PROVE  PassOK(p)'
<1>1. CASE FindBroadcasted(p)
  <2>1. /\ pc[p] = "sign" /\ pc'[p] = "track" /\ todo'[p] = FindByStatus(PendingStatus)
        /\ doomed'[p] = doomed[p] /\ item'[p] = item[p] /\ mark'[p] = mark[p]
    BY <1>1, NodeAssumption
       DEF FindBroadcasted, TypeInv, Indexed, Goto, Load, Handled, Hold, LetGo,
           SharedOK, NodeTypeOK
  <2>2. /\ FindByStatus(PendingStatus) \in Snapshot
        /\ \A r \in Ref : /\ HasHash(FindByStatus(PendingStatus)[r])
                          /\ FindByStatus(PendingStatus)[r].status \in PendingStatus \cup {"absent"}
    BY FindTyped DEF TypeInv
  <2> QED BY <2>1, <2>2, NodeAssumption
             DEF TypeInv, SharedOK, NodeTypeOK, PassOK, PC, SavePC, LookupPC,
                 PendingStatus, HasHash
<1>2. ASSUME NEW r \in Ref, Track(p, r) PROVE PassOK(p)'
  <2> DEFINE entity == todo[p][r]
             status == TrackedStatus(entity, r \in late)
             row == [entity EXCEPT !.status = status]
             mined == [entity EXCEPT !.status = "included",
                                     !.blockNumber = block[entity.txHash]]
  <2>1. entity \in Row /\ entity.txHash \in Tx
    BY <1>2 DEF Track, IsLoaded, TypeInv, PassOK, Snapshot, LookupPC, HasHash, OnChainStatus
  <2>2. /\ todo'[p] = [todo[p] EXCEPT ![r] = NoRow]
        /\ doomed'[p] = doomed[p] /\ mark'[p] = mark[p] /\ pc[p] = "track"
    BY <1>2 DEF Track, TypeInv, Indexed, Goto, Load, Handled, Hold, LetGo
  <2>3. CASE pc' = pc /\ item' = item
    BY <2>2, <2>3, HandledTyped DEF TypeInv, PassOK, PC, SavePC, LookupPC
  <2>4. CASE /\ status \in {"mempool", "stuck", "dropped"}
             /\ Hold(p, r, row) /\ Goto(p, "saveTracked")
    <3>1. row \in Row /\ HasHash(row)
      BY <2>1, <2>4, RowWithStatus DEF Status, PendingStatus, HasHash
    <3>2. pc'[p] = "saveTracked" /\ item'[p] = [ref |-> r, row |-> row]
      BY <2>4 DEF TypeInv, Indexed, Goto, Load, Handled, Hold, LetGo
    <3> HIDE DEF row
    <3> QED BY <2>2, <3>1, <3>2, HandledTyped, HeldTyped
               DEF TypeInv, PassOK, PC, SavePC, LookupPC
  <2>5. CASE status = "included" /\ Hold(p, r, mined) /\ Goto(p, "saveIncluded")
    <3>1. mined \in Row /\ mined.txHash \in Tx /\ HasHash(mined)
      BY <2>1 DEF Row, Status, TypeInv, SharedOK, NodeTypeOK, HasHash
    <3>2. pc'[p] = "saveIncluded" /\ item'[p] = [ref |-> r, row |-> mined]
      BY <2>5 DEF TypeInv, Indexed, Goto, Load, Handled, Hold, LetGo
    <3> HIDE DEF mined
    <3> QED BY <2>2, <3>1, <3>2, HandledTyped, HeldTyped
            DEF TypeInv, PassOK, PC, SavePC, LookupPC, HasHash
  <2> QED BY <1>2, <2>3, <2>4, <2>5 DEF Track
<1>3. ASSUME NEW r \in Ref, Abort(p, r) PROVE PassOK(p)'
  <2> DEFINE row == [doomed[p][r] EXCEPT !.status = "aborted"]
  <2>1. /\ pc[p] = "track" /\ pc'[p] = "saveAborted" /\ todo'[p] = todo[p]
        /\ doomed'[p] = [doomed[p] EXCEPT ![r] = NoRow]
        /\ item'[p] = [ref |-> r, row |-> row] /\ mark'[p] = mark[p]
    BY <1>3 DEF Abort, TypeInv, Indexed, Goto, Load, Handled, Hold, LetGo
  <2>2. row \in Row /\ HasHash(row)
    <3>1. doomed[p][r] \in Row /\ "aborted" \in Status
      BY DEF TypeInv, PassOK, Snapshot, Status
    <3> QED BY <3>1, RowWithStatus DEF HasHash, OnChainStatus, PendingStatus
  <2>3. doomed'[p] \in Snapshot
    BY <2>1, Constants DEF TypeInv, PassOK, Snapshot
  <2> HIDE DEF row
  <2> QED BY <2>1, <2>2, <2>3, HeldTyped DEF TypeInv, PassOK, PC, SavePC, LookupPC
<1>4. CASE SaveTracked(p)
  BY <1>4, Constants, NothingHeld, WithoutRow
     DEF SaveTracked, Save, TypeInv, Indexed, Goto, Load, Handled, Hold, LetGo, PassOK,
         PC, SavePC, LookupPC, IsLoaded
<1>5. CASE SaveIncluded(p)
  BY <1>5, Constants, NothingHeld, WithoutRow
     DEF SaveIncluded, Save, TypeInv, Indexed, Goto, Load, Handled, Hold, LetGo,
         PassOK, PC, SavePC, LookupPC, IsLoaded
<1>6. CASE FindSameNonce(p)
  <2>1. /\ pc[p] = "findSameNonce" /\ pc'[p] = "track" /\ todo'[p] = todo[p]
        /\ item'[p] = NoItem /\ mark'[p] = mark[p]
    BY <1>6 DEF FindSameNonce, TypeInv, Indexed, Goto, Load, Handled, Hold, LetGo
  <2>2. doomed'[p] \in Snapshot
    BY <1>6, Constants DEF FindSameNonce, TypeInv, Indexed, SharedOK, Snapshot
  <2> QED BY <2>1, <2>2, Constants, NothingHeld DEF TypeInv, PassOK, PC, SavePC, LookupPC
<1>7. CASE SaveAborted(p)
  BY <1>7, Constants, NothingHeld, WithoutRow
     DEF SaveAborted, Save, TypeInv, Indexed, Goto, Load, Handled, Hold, LetGo, PassOK,
         PC, SavePC, LookupPC, IsLoaded
<1> QED BY <1>1, <1>2, <1>3, <1>4, <1>5, <1>6, <1>7 DEF TrackStep

LEMMA UnstickTyped ==
    ASSUME TypeInv, NEW p \in Pass, UnstickStep(p)
    PROVE  PassOK(p)'
<1>1. CASE FindStuck(p)
  <2>1. /\ pc[p] = "track" /\ pc'[p] \in {"priceUnstick", "unstick"}
        /\ todo'[p] = FindByStatus({"stuck"})
        /\ doomed'[p] = doomed[p] /\ item'[p] = item[p] /\ mark'[p] = mark[p]
    BY <1>1, NodeAssumption
       DEF FindStuck, TypeInv, Indexed, Goto, Load, Handled, Hold, LetGo, SharedOK,
           NodeTypeOK
  <2>2. /\ FindByStatus({"stuck"}) \in Snapshot
        /\ \A r \in Ref : /\ HasHash(FindByStatus({"stuck"})[r])
                          /\ FindByStatus({"stuck"})[r].status \in {"stuck"} \cup {"absent"}
    BY FindTyped DEF TypeInv
  <2> QED BY <2>1, <2>2, NodeAssumption
             DEF TypeInv, SharedOK, NodeTypeOK, PassOK, PC, SavePC, LookupPC,
                 PendingStatus, HasHash
<1>2. ASSUME NEW r \in Ref, SkipUnstick(p, r) PROVE PassOK(p)'
  <2>1. /\ pc[p] = "unstick" /\ pc'[p] = pc[p] /\ todo'[p] = [todo[p] EXCEPT ![r] = NoRow]
        /\ doomed'[p] = doomed[p] /\ item'[p] = item[p] /\ mark'[p] = mark[p]
    BY <1>2 DEF SkipUnstick, TypeInv, Indexed, Goto, Load, Handled, Hold, LetGo
  <2> QED BY <2>1, HandledTyped DEF TypeInv, PassOK, SavePC, LookupPC
<1>3. ASSUME NEW r \in Ref, UnstickThrows(p, r) PROVE PassOK(p)'
  BY <1>3, EndPassTyped DEF UnstickThrows
<1>4. ASSUME NEW r \in Ref, Unstick(p, r) PROVE PassOK(p)'
  <2> DEFINE t == [from |-> todo[p][r].txHash.from, nonce |-> todo[p][r].txHash.nonce,
                   payload |-> SelfTransfer, gasPrice |-> mark[p]]
             row == [status |-> "submitted", txHash |-> t,
                     blockNumber |-> rows[t].blockNumber, gasPrice |-> mark[p]]
  <2>1. /\ pc[p] = "unstick" /\ pc'[p] = "replace" /\ todo'[p] = [todo[p] EXCEPT ![r] = NoRow]
        /\ doomed'[p] = doomed[p] /\ item'[p] = [ref |-> t, row |-> row] /\ mark'[p] = mark[p]
    BY <1>4 DEF Unstick, TypeInv, Indexed, Goto, Load, Handled, Hold, LetGo
  <2>2. todo[p][r] \in Row /\ todo[p][r].txHash \in Tx
    BY <1>4
       DEF Unstick, IsLoaded, TypeInv, PassOK, Snapshot, LookupPC, HasHash,
           OnChainStatus
  <2>3. mark[p] \in GasPrice
    <3>1. mark[p] \in 0 .. MaxGasPrice + 1 /\ ~ (todo[p][r].gasPrice >= mark[p])
      BY <1>4, <2>1 DEF Unstick, PaysTarget, TypeInv, PassOK
    <3>2. todo[p][r].gasPrice \in 1 .. MaxGasPrice + 1
      BY <2>2 DEF Row, GasPrice
    <3> QED BY <3>1, <3>2, NodeAssumption DEF GasPrice
  <2>4. t \in SelfTx
    BY <2>2, <2>3 DEF Tx, SelfTx, RelayTx
  <2>5. row \in Row /\ HasHash(row)
    BY <2>3, <2>4, Constants DEF Row, Status, PendingStatus, HasHash, TypeInv, SharedOK
  <2>6. t \in Tx /\ t \in Ref /\ row.txHash = t
    BY <2>4, Constants
  <2> HIDE DEF row, t
  <2> QED BY <2>1, <2>5, <2>6, HandledTyped, HeldTyped
             DEF TypeInv, PassOK, PC, SavePC, LookupPC
<1>5. CASE BroadcastReplacement(p)
  BY <1>5, Constants, NothingHeld, WithoutRow
     DEF BroadcastReplacement, Broadcast, TypeInv, Indexed, Goto, Load, Handled, Hold,
         LetGo, PassOK, PC, SavePC, LookupPC, IsLoaded
<1>6. CASE ReplacementRefused(p)
  BY <1>6, Constants, NothingHeld, WithoutRow
     DEF ReplacementRefused, Refused, TypeInv, Indexed, Goto, Load, Handled, Hold,
         LetGo, PassOK, PC, SavePC, LookupPC, IsLoaded
<1>7. CASE SaveReplacement(p)
  BY <1>7, Constants, NothingHeld, WithoutRow
     DEF SaveReplacement, TypeInv, Indexed, Goto, Load, Handled, Hold, LetGo, PassOK,
         PC, SavePC, LookupPC, IsLoaded
<1>8. CASE PriceUnstick(p)
  <2>1. /\ pc[p] = "priceUnstick" /\ pc'[p] = "unstick" /\ todo'[p] = todo[p]
        /\ doomed'[p] = doomed[p] /\ item'[p] = item[p] /\ mark'[p] \in 0 .. MaxGasPrice + 1
    BY <1>8, NodeAssumption DEF PriceUnstick, TypeInv, Indexed, Goto, SharedOK, NodeTypeOK
  <2> QED BY <2>1, NodeAssumption DEF TypeInv, PassOK, PC, SavePC, LookupPC
<1> QED BY <1>1, <1>2, <1>3, <1>4, <1>5, <1>6, <1>7, <1>8 DEF UnstickStep

LEMMA ConfirmTyped ==
    ASSUME TypeInv, NEW p \in Pass, ConfirmStep(p)
    PROVE  PassOK(p)'
<1>1. CASE FindIncluded(p)
  <2>1. /\ pc'[p] = "confirm" /\ todo'[p] = FindByStatus({"included"})
        /\ doomed'[p] = doomed[p] /\ item'[p] = item[p] /\ mark'[p] = mark[p]
    BY <1>1, NodeAssumption
       DEF FindIncluded, TypeInv, Indexed, Goto, Load, Handled, Hold, LetGo, SharedOK,
           NodeTypeOK
  <2>2. /\ FindByStatus({"included"}) \in Snapshot
        /\ \A r \in Ref : /\ HasHash(FindByStatus({"included"})[r])
                          /\ FindByStatus({"included"})[r].status \in {"included"} \cup {"absent"}
    BY FindTyped DEF TypeInv
  <2> QED BY <2>1, <2>2, NodeAssumption
             DEF TypeInv, SharedOK, NodeTypeOK, PassOK, PC, SavePC, LookupPC,
                 PendingStatus, HasHash
<1>2. ASSUME NEW r \in Ref, Confirm(p, r) PROVE PassOK(p)'
  <2> DEFINE back == [todo[p][r] EXCEPT !.status = "mempool"]
             done == [todo[p][r] EXCEPT !.status = "confirmed"]
  <2>1. /\ todo'[p] = [todo[p] EXCEPT ![r] = NoRow]
        /\ doomed'[p] = doomed[p] /\ mark'[p] = mark[p] /\ pc[p] = "confirm"
    BY <1>2 DEF Confirm, TypeInv, Indexed, Goto, Load, Handled, Hold, LetGo
  <2>2. /\ back \in Row /\ HasHash(back)
        /\ done \in Row /\ HasHash(done)
    <3>1. todo[p][r] \in Row /\ todo[p][r].txHash \in Tx
      BY <1>2
         DEF Confirm, IsLoaded, TypeInv, PassOK, Snapshot, LookupPC, HasHash,
             OnChainStatus
    <3> QED BY <3>1, RowWithStatus DEF Status, PendingStatus, HasHash
  <2>3. CASE pc' = pc /\ item' = item
    BY <2>1, <2>3, HandledTyped DEF TypeInv, PassOK, SavePC, LookupPC
  <2>4. CASE Goto(p, "saveConfirmed") /\ (Hold(p, r, back) \/ Hold(p, r, done))
    <3>1. /\ pc'[p] = "saveConfirmed"
          /\ \E row \in {back, done} : item'[p] = [ref |-> r, row |-> row]
      BY <2>4 DEF TypeInv, Indexed, Goto, Load, Handled, Hold, LetGo
    <3> HIDE DEF back, done
    <3> QED BY <2>1, <2>2, <3>1, HandledTyped, HeldTyped
               DEF TypeInv, PassOK, PC, SavePC, LookupPC
  <2> QED BY <1>2, <2>3, <2>4 DEF Confirm
<1>3. ASSUME NEW r \in Ref, ConfirmThrows(p, r) PROVE PassOK(p)'
  BY <1>3, EndPassTyped DEF ConfirmThrows
<1>4. CASE SaveConfirmed(p)
  BY <1>4, Constants, NothingHeld, WithoutRow
     DEF SaveConfirmed, Save, TypeInv, Indexed, Goto, Load, Handled, Hold, LetGo,
         PassOK, PC, SavePC, LookupPC, IsLoaded
<1>5. CASE FinishPass(p)
  BY <1>5, EndPassTyped DEF FinishPass
<1>6. CASE ReadLatestBlock(p)
  <2>1. /\ pc[p] = "unstick" /\ pc'[p] = "findIncluded" /\ todo'[p] = todo[p]
        /\ doomed'[p] = doomed[p] /\ item'[p] = item[p] /\ mark'[p] = head
    BY <1>6 DEF ReadLatestBlock, TypeInv, Indexed, Goto
  <2> QED BY <2>1, NodeAssumption
          DEF TypeInv, SharedOK, NodeTypeOK, PassOK, PC, SavePC, LookupPC
<1> QED BY <1>1, <1>2, <1>3, <1>4, <1>5, <1>6 DEF ConfirmStep

LEMMA FaultTyped ==
    ASSUME TypeInv, NEW p \in Pass, PassFault(p)
    PROVE  PassOK(p)'
<1>1. ASSUME NEW from \in {"broadcast", "replace"}, NEW to \in {"sign", "unstick"},
             ReplyLost(p, from, to), from = "replace" <=> to = "unstick"
      PROVE  PassOK(p)'
  <2>1. /\ pc[p] = from /\ pc'[p] = to /\ todo'[p] = todo[p] /\ doomed'[p] = doomed[p]
        /\ item'[p] = NoItem /\ mark'[p] = mark[p]
    BY <1>1 DEF ReplyLost, TypeInv, Indexed, Goto, Load, Handled, Hold, LetGo
  <2> QED BY <2>1, <1>1, Constants, NothingHeld DEF TypeInv, PassOK, PC, SavePC, LookupPC
<1>2. CASE ReadFails(p)
  <2>1. CASE EndPass(p)
    BY <2>1, EndPassTyped
  <2>2. CASE /\ pc[p] = "sign"
             /\ Load(p, Nothing)
             /\ UNCHANGED <<pc, doomed, item, mark>>
    <3>1. todo'[p] = Nothing
      BY <2>2 DEF TypeInv, Indexed, Load
    <3> QED BY <2>2, <3>1, Constants, NothingHeld DEF TypeInv, PassOK, SavePC, LookupPC
  <2> QED BY <1>2, <2>1, <2>2 DEF ReadFails
<1>3. CASE SaveFails(p)
  <2>1. CASE EndPass(p)
    BY <2>1, EndPassTyped
  <2>2. CASE ~ EndPass(p)
    <3>1. /\ pc[p] \in {"saveSigned", "saveReplacement"}
          /\ Goto(p, IF pc[p] = "saveSigned" THEN "sign" ELSE "unstick")
          /\ Load(p, Nothing) \/ UNCHANGED todo
          /\ LetGo(p) /\ UNCHANGED <<doomed, mark>>
      BY <1>3, <2>2 DEF SaveFails
    <3>2. /\ pc'[p] = IF pc[p] = "saveSigned" THEN "sign" ELSE "unstick"
          /\ todo'[p] \in {Nothing, todo[p]} /\ doomed'[p] = doomed[p]
          /\ item'[p] = NoItem /\ mark'[p] = mark[p]
      BY <3>1 DEF TypeInv, Indexed, Goto, Load, Handled, Hold, LetGo
    <3>3. /\ Nothing \in Snapshot /\ \A r \in Ref : HasHash(Nothing[r])
          /\ \A r \in Ref : Nothing[r].status = "absent"
      BY Constants, NothingHeld DEF NoRow
    <3> QED BY <3>1, <3>2, <3>3, Constants, NothingHeld
               DEF TypeInv, PassOK, PC, SavePC, LookupPC
  <2> QED BY <2>1, <2>2
<1> QED BY <1>1, <1>2, <1>3 DEF PassFault, BroadcastReplyLost, ReplacementReplyLost

\* A step of the environment that leaves the passes alone.
LEMMA PassesAlone ==
    ASSUME TypeInv, SharedOK', UNCHANGED <<pc, todo, doomed, item, mark>>
    PROVE  TypeInv'
BY DEF TypeInv, Indexed, PassOK

LEMMA EnvTyped ==
    ASSUME TypeInv, EnvStep
    PROVE  TypeInv'
<1> USE DEF TypeInv, SharedOK
<1>1. CASE (ChainStep \/ GasPriceMoves) /\ UNCHANGED watcherVars
  <2>1. NodeTypeOK'
    BY <1>1, NodeStepTyped
  <2> QED BY <1>1, <2>1, PassesAlone DEF watcherVars
<1>2. CASE NodeFault /\ UNCHANGED <<rows, late, keys, pc, todo, doomed, item, mark>>
  <2>1. NodeTypeOK' /\ faults' \in 0 .. MaxFaults
    BY <1>2, NodeStepTyped, WatcherAssumption DEF NodeFault, Fault
  <2> QED BY <1>2, <2>1, PassesAlone
<1>3. ASSUME NEW r \in MetaTxn, SubmitMetaTxn(r) PROVE TypeInv'
  <2> DEFINE row == [NoRow EXCEPT !.status = "unsubmitted", !.gasPrice = gasPrice]
  <2>1. row \in Row /\ HasHash(row)
    <3>1. gasPrice \in GasPrice
      BY NodeAssumption DEF NodeTypeOK, GasPrice
    <3>2. row \in Row
      BY <3>1, Constants DEF Row, Status
    <3>3. row.status = "unsubmitted"
      BY Constants DEF Row
    <3> QED BY <3>2, <3>3 DEF HasHash, OnChainStatus, PendingStatus
  <2>2. rows' = [rows EXCEPT ![r] = row] /\ r \in Ref
    BY <1>3, Constants DEF SubmitMetaTxn
  <2> HIDE DEF row
  <2>3. rows' \in [Ref -> Row] /\ \A q \in Ref : HasHash(rows'[q])
    BY <2>1, <2>2
  <2>4. NodeTypeOK' /\ UNCHANGED <<late, keys, faults, pc, todo, doomed, item, mark>>
    BY <1>3 DEF SubmitMetaTxn, nodeVars, NodeTypeOK
  <2> QED BY <2>3, <2>4, PassesAlone
<1>4. ASSUME NEW r \in Ref, ExpectedAtPasses(r) PROVE TypeInv'
  <2>1. SharedOK'
    BY <1>4 DEF ExpectedAtPasses, nodeVars, NodeTypeOK
  <2> QED BY <1>4, <2>1, PassesAlone DEF ExpectedAtPasses
<1>5. CASE Restart
  <2>1. SharedOK'
    BY <1>5, WatcherAssumption DEF Restart, Fault, nodeVars, NodeTypeOK
  <2>2. Indexed'
    BY <1>5 DEF Restart, Indexed
  <2>3. ASSUME NEW p \in Pass PROVE PassOK(p)'
    <3>1. /\ pc'[p] = "idle" /\ todo'[p] = Nothing /\ doomed'[p] = Nothing
          /\ item'[p] = NoItem /\ mark'[p] = 0
      BY <1>5 DEF Restart
    <3> QED BY <3>1, Constants, NothingHeld, NodeAssumption DEF PassOK, PC, SavePC, LookupPC
  <2> QED BY <2>1, <2>2, <2>3
<1> QED BY <1>1, <1>2, <1>3, <1>4, <1>5 DEF EnvStep

LEMMA NextTyped == TypeInv /\ [Next]_vars => TypeInv'
<1> SUFFICES ASSUME TypeInv, [Next]_vars PROVE TypeInv'
    OBVIOUS
<1>1. ASSUME NEW p \in Pass, PassStep(p) \/ PassFault(p) PROVE TypeInv'
  <2>1. PassFrame(p) /\ SharedOK'
    BY <1>1, StepFrame, FrameShared
  <2>2. PassOK(p)'
    BY <1>1, SignTyped, TrackTyped, UnstickTyped, ConfirmTyped, FaultTyped DEF PassStep
  <2> QED BY <2>1, <2>2, OnePassSteps DEF PassFrame
<1>2. CASE EnvStep
  BY <1>2, EnvTyped
<1>3. CASE UNCHANGED vars
  <2>1. SharedOK' /\ UNCHANGED <<pc, todo, doomed, item, mark>>
    BY <1>3 DEF vars, watcherVars, nodeVars, TypeInv, SharedOK, NodeTypeOK
  <2> QED BY <2>1, PassesAlone
<1> QED BY <1>1, <1>2, <1>3 DEF Next

\* Whatever the passes, the chain, the API and the faults do, every variable keeps
\* its type: in particular what a pass is about to save is a row with a key, and
\* what it broadcasts is a transaction of a signer at a price the bound allows.
THEOREM TypeCorrect == Spec => []TypeInvariant
<1>1. Spec => []TypeInv
  BY InitTyped, NextTyped, PTL DEF Spec
<1> QED BY <1>1, TypeInvImpliesTypeOK, PTL DEF TypeInvariant

(***************************************************************************)
(* What the transactions table says about the chain is true, as long as no *)
(* block is undone: for any number of signers, meta-transactions and       *)
(* concurrent passes, and whatever crashes, lost answers, failing saves    *)
(* and forgetful mempools come in between.                                 *)
(*                                                                         *)
(* A pass acts on rows it read a while ago, so that the statement about    *)
(* the table alone is not inductive.  It becomes inductive when every copy *)
(* of a row in a pass's memory is required to be true as well, and every   *)
(* row picked to be aborted to have lost its nonce.                        *)
(***************************************************************************)

NonceLost(t) ==
    /\ t \in Tx
    /\ \E u \in sent : IsMined(u) /\ u # t /\ SameSlot(u, t)

Truthful(row) ==
    /\ row.status \in {"included", "confirmed"} =>
          /\ row.txHash \in Tx
          /\ block[row.txHash] = row.blockNumber
          /\ row.blockNumber # NotMined
    /\ row.status = "confirmed" =>
          row.blockNumber + NumBlocksUntilConfirmed < head
    /\ row.status = "aborted" => NonceLost(row.txHash)

TableTruth ==
    /\ \A r \in Ref : Truthful(rows[r])
    /\ \A t \in Tx : IsMined(t) => t \in sent

PassTruth(p) ==
    /\ \A r \in Ref : Truthful(todo[p][r])
    /\ Truthful(item[p].row)
    /\ \A r \in Ref : IsLoaded(doomed[p], r) => NonceLost(doomed[p][r].txHash)
    /\ pc[p] \in {"saveIncluded", "findSameNonce"} => item[p].row.status = "included"
    /\ pc[p] \in {"findIncluded", "confirm", "saveConfirmed"} => mark[p] <= head
    /\ pc[p] \in {"confirm", "saveConfirmed"} =>
          \A r \in Ref : todo[p][r].status \in {"included", "absent"}

ChainInv == TypeInv /\ TableTruth /\ \A p \in Pass : PassTruth(p)

\* Without reorgs what is mined stays mined, where it is.
ChainGrows ==
    /\ \A t \in Tx : IsMined(t) => block'[t] = block[t]
    /\ head <= head'
    /\ sent \subseteq sent'

LEMMA InitTruth == Init => ChainInv
<1> SUFFICES ASSUME Init PROVE ChainInv
    OBVIOUS
<1>1. TypeInv
  BY InitTyped
<1>2. Truthful(NoRow)
  BY DEF Truthful, NoRow
<1>3. TableTruth
  BY <1>2, Constants DEF Init, NodeInit, TableTruth, IsMined
<1>4. ASSUME NEW p \in Pass PROVE PassTruth(p)
  <2>1. /\ pc[p] = "idle" /\ todo[p] = Nothing /\ doomed[p] = Nothing /\ item[p] = NoItem
    BY DEF Init
  <2> QED BY <1>2, <2>1, Constants DEF PassTruth, IsLoaded, NoRow, NoItem
<1> QED BY <1>1, <1>3, <1>4 DEF ChainInv

LEMMA NextGrows ==
    ASSUME TypeInv, TableTruth, [Next]_vars, "reorg" \notin Faults
    PROVE  ChainGrows
<1> USE DEF TypeInv, SharedOK, NodeTypeOK, ChainGrows
<1>1. CASE UNCHANGED nodeVars
  BY <1>1 DEF nodeVars
<1>2. ASSUME NEW p \in Pass, PassStep(p) \/ PassFault(p) PROVE ChainGrows
  <2>1. UNCHANGED nodeVars \/ Receive(item[p].row.txHash)
    BY <1>2, StepFrame DEF PassFrame
  <2> QED BY <1>1, <2>1 DEF Receive
<1>3. CASE EnvStep
  <2>1. ASSUME NEW t \in sent, Mine(t) PROVE ChainGrows
    <3>1. t \in Tx /\ ~ IsMined(t)
      BY <2>1 DEF Mine, SlotMined
    <3> QED BY <2>1, <3>1 DEF Mine, IsMined
  <2>2. CASE NodeFault
    BY <2>2 DEF NodeFault, Fault, Forget
  <2> QED BY <1>1, <1>3, <2>1, <2>2
          DEF EnvStep, ChainStep, MineEmptyBlock, GasPriceMoves, SubmitMetaTxn,
              ExpectedAtPasses, Restart, nodeVars
<1> QED BY <1>1, <1>2, <1>3 DEF Next, vars

\* As the chain grows, what was true of a row stays true.
LEMMA TruthLasts ==
    ASSUME TypeInv, TypeInv', ChainGrows
    PROVE  /\ \A row \in Row : Truthful(row) => Truthful(row)'
           /\ \A t : NonceLost(t) => NonceLost(t)'
<1> USE DEF ChainGrows, IsMined, TypeInv, SharedOK, NodeTypeOK
<1>1. ASSUME NEW t, NonceLost(t) PROVE NonceLost(t)'
  BY <1>1 DEF NonceLost
<1>2. ASSUME NEW row \in Row, Truthful(row) PROVE Truthful(row)'
  <2>1. row.status = "aborted" => NonceLost(row.txHash)'
    BY <1>1, <1>2 DEF Truthful
  <2>2. row.status \in {"included", "confirmed"} =>
          /\ row.txHash \in Tx
          /\ block'[row.txHash] = row.blockNumber
          /\ row.blockNumber # NotMined
    BY <1>2 DEF Truthful
  <2>3. row.status = "confirmed" => row.blockNumber + NumBlocksUntilConfirmed < head'
    BY <1>2, NodeAssumption, WatcherAssumption DEF Truthful, Row
  <2> QED BY <2>1, <2>2, <2>3 DEF Truthful
<1> QED BY <1>1, <1>2

LEMMA OnePassTruth ==
    ASSUME ChainInv, TypeInv', ChainGrows, NEW p \in Pass, OnlyPass(p),
           TableTruth', PassTruth(p)'
    PROVE  ChainInv'
<1>1. ASSUME NEW q \in Pass, q # p PROVE PassTruth(q)'
  <2>1. /\ pc'[q] = pc[q] /\ todo'[q] = todo[q] /\ doomed'[q] = doomed[q]
        /\ item'[q] = item[q] /\ mark'[q] = mark[q]
    BY <1>1 DEF ChainInv, TypeInv, Indexed, OnlyPass
  <2>2. /\ \A r \in Ref : todo[q][r] \in Row
        /\ item[q].row \in Row
    BY DEF ChainInv, TypeInv, PassOK, Snapshot, Item
  <2>3. /\ \A r \in Ref : Truthful(todo[q][r])'
        /\ Truthful(item[q].row)'
    BY <2>1, <2>2, TruthLasts DEF ChainInv, PassTruth
  <2>4. \A r \in Ref : IsLoaded(doomed'[q], r) => NonceLost(doomed[q][r].txHash)'
    BY <2>1, TruthLasts DEF ChainInv, PassTruth
  <2>5. pc[q] \in {"findIncluded", "confirm", "saveConfirmed"} => mark[q] <= head'
    BY NodeAssumption
       DEF ChainInv, PassTruth, ChainGrows, TypeInv, PassOK, SharedOK, NodeTypeOK
  <2> QED BY <2>1, <2>3, <2>4, <2>5 DEF ChainInv, PassTruth
<1> QED BY <1>1 DEF ChainInv

\* How a step of a pass may change what the pass holds.
PassShape(p) ==
    /\ \A r \in Ref : todo'[p][r] \in {todo[p][r], rows[r], NoRow}
    /\ FindSameNonce(p) \/ \A r \in Ref : doomed'[p][r] \in {doomed[p][r], NoRow}
    /\ \/ item'[p] \in {item[p], NoItem}
       \/ \E r \in Ref : \/ Cancel(p, r) \/ PrepareMetaTxn(p, r) \/ Track(p, r)
                         \/ Abort(p, r) \/ Unstick(p, r) \/ Confirm(p, r)
    /\ pc'[p] \in {"findIncluded", "confirm", "saveConfirmed"} =>
          \/ mark'[p] = head
          \/ pc[p] \in {"findIncluded", "confirm", "saveConfirmed"} /\ mark'[p] = mark[p]
    /\ pc'[p] \in {"confirm", "saveConfirmed"} =>
          \/ \A r \in Ref : todo'[p][r].status \in {"included", "absent"}
          \/ /\ pc[p] \in {"confirm", "saveConfirmed"}
             /\ \A r \in Ref : todo'[p][r] \in {todo[p][r], NoRow}
    /\ pc'[p] \in {"saveIncluded", "findSameNonce"} =>
          \/ \E r \in Ref : Track(p, r)
          \/ pc[p] \in {"saveIncluded", "findSameNonce"} /\ item'[p] = item[p]

LEMMA StepShape ==
    ASSUME TypeInv, NEW p \in Pass, PassStep(p) \/ PassFault(p)
    PROVE  PassShape(p)
<1> USE DEF PassShape, TypeInv, Indexed, Goto, Load, Handled, Hold, LetGo, FindByStatus
<1>1. /\ todo[p] \in Snapshot /\ doomed[p] \in Snapshot
      /\ \A r \in Ref : Nothing[r] = NoRow
  BY Constants DEF PassOK
<1> USE <1>1 DEF Snapshot
<1>2. CASE SignStep(p)
  <2>1. CASE StartPass(p)
    BY <2>1 DEF StartPass
  <2>2. ASSUME NEW r \in Ref, Cancel(p, r) PROVE PassShape(p)
    BY <2>2 DEF Cancel
  <2>3. ASSUME NEW r \in Ref, PrepareMetaTxn(p, r) PROVE PassShape(p)
    BY <2>3 DEF PrepareMetaTxn
  <2>4. ASSUME NEW r \in Ref, SigningFails(p, r) PROVE PassShape(p)
    BY <2>4 DEF SigningFails
  <2>5. CASE BroadcastMetaTxn(p)
    BY <2>5 DEF BroadcastMetaTxn, Broadcast
  <2>6. CASE BroadcastRefused(p)
    BY <2>6 DEF BroadcastRefused, Refused
  <2>7. CASE SaveSigned(p)
    BY <2>7 DEF SaveSigned, Save
  <2> QED BY <1>2, <2>1, <2>2, <2>3, <2>4, <2>5, <2>6, <2>7 DEF SignStep
<1>3. CASE TrackStep(p)
  <2>1. CASE FindBroadcasted(p)
    BY <2>1 DEF FindBroadcasted
  <2>2. ASSUME NEW r \in Ref, Track(p, r) PROVE PassShape(p)
    BY <2>2 DEF Track
  <2>3. ASSUME NEW r \in Ref, Abort(p, r) PROVE PassShape(p)
    BY <2>3 DEF Abort
  <2>4. CASE SaveTracked(p)
    BY <2>4 DEF SaveTracked, Save
  <2>5. CASE SaveIncluded(p)
    BY <2>5 DEF SaveIncluded, Save
  <2>6. CASE FindSameNonce(p)
    BY <2>6 DEF FindSameNonce
  <2>7. CASE SaveAborted(p)
    BY <2>7 DEF SaveAborted, Save
  <2> QED BY <1>3, <2>1, <2>2, <2>3, <2>4, <2>5, <2>6, <2>7 DEF TrackStep
<1>4. CASE UnstickStep(p)
  <2>1. CASE FindStuck(p)
    BY <2>1 DEF FindStuck
  <2>2. ASSUME NEW r \in Ref, SkipUnstick(p, r) PROVE PassShape(p)
    BY <2>2 DEF SkipUnstick
  <2>3. ASSUME NEW r \in Ref, UnstickThrows(p, r) PROVE PassShape(p)
    BY <2>3 DEF UnstickThrows, EndPass
  <2>4. ASSUME NEW r \in Ref, Unstick(p, r) PROVE PassShape(p)
    BY <2>4 DEF Unstick
  <2>5. CASE BroadcastReplacement(p)
    BY <2>5 DEF BroadcastReplacement, Broadcast
  <2>6. CASE ReplacementRefused(p)
    BY <2>6 DEF ReplacementRefused, Refused
  <2>7. CASE SaveReplacement(p)
    BY <2>7 DEF SaveReplacement
  <2>8. CASE PriceUnstick(p)
    BY <2>8 DEF PriceUnstick
  <2> QED BY <1>4, <2>1, <2>2, <2>3, <2>4, <2>5, <2>6, <2>7, <2>8 DEF UnstickStep
<1>5. CASE ConfirmStep(p)
  <2>1. NoRow.status = "absent"
    BY DEF NoRow
  <2> QED BY <1>5, <2>1
          DEF ConfirmStep, ReadLatestBlock, FindIncluded, Confirm, ConfirmThrows, SaveConfirmed,
                            FinishPass, EndPass, Save
<1>6. CASE PassFault(p)
  BY <1>6 DEF PassFault, BroadcastReplyLost, ReplacementReplyLost, ReplyLost, ReadFails,
              SaveFails, EndPass
<1> QED BY <1>2, <1>3, <1>4, <1>5, <1>6 DEF PassStep

\* A pass that saves writes true things.
LEMMA TableStaysTrue ==
    ASSUME ChainInv, TypeInv', ChainGrows, NEW p \in Pass, PassFrame(p)
    PROVE  TableTruth'
<1>1. ASSUME NEW r \in Ref PROVE Truthful(rows[r])'
  <2>1. rows'[r] = rows[r] \/ rows'[r] = item[p].row
    BY DEF PassFrame, ChainInv, TypeInv, SharedOK
  <2>2. /\ rows[r] \in Row /\ item[p].row \in Row
        /\ Truthful(rows[r]) /\ Truthful(item[p].row)
    BY DEF ChainInv, TypeInv, SharedOK, PassOK, Item, TableTruth, PassTruth
  <2> QED BY <2>1, <2>2, TruthLasts DEF ChainInv
<1>2. ASSUME NEW t \in Tx, IsMined(t)' PROVE t \in sent'
  BY <1>2 DEF PassFrame, Receive, nodeVars, IsMined, ChainInv, TableTruth
<1> QED BY <1>1, <1>2 DEF TableTruth

\* What a pass writes into the entity in its hands is true.
LEMMA HeldIsTrue ==
    ASSUME ChainInv, TypeInv', ChainGrows, NEW p \in Pass, PassShape(p)
    PROVE  Truthful(item[p].row)'
<1> USE DEF ChainInv, TypeInv, Indexed, Hold
<1>1. CASE item'[p] \in {item[p], NoItem}
  <2>1. item[p].row \in Row /\ NoRow \in Row /\ Truthful(item[p].row)
    BY Constants DEF PassOK, Item, PassTruth
  <2>2. Truthful(NoRow) /\ NoItem.row = NoRow
    BY DEF Truthful, NoRow, NoItem
  <2> QED BY <1>1, <2>1, <2>2, TruthLasts
<1>2. ASSUME NEW r \in Ref, Cancel(p, r) PROVE Truthful(item[p].row)'
  BY <1>2 DEF Cancel, PassOK, Snapshot, Row, Truthful
<1>3. ASSUME NEW r \in Ref, PrepareMetaTxn(p, r) PROVE Truthful(item[p].row)'
  <2>1. todo[p][r] \in Row
    BY DEF PassOK, Snapshot
  <2>2. PICK s \in Signer, n \in Nonce :
           item' = [item EXCEPT ![p] =
             [ref |-> r,
              row |-> [todo[p][r] EXCEPT !.status = "submitted",
                         !.txHash = [from |-> s, nonce |-> n, payload |-> r,
                                     gasPrice |-> todo[p][r].gasPrice]]]]
    BY <1>3 DEF PrepareMetaTxn
  <2>3. item'[p].row.status = "submitted"
    <3> DEFINE t == [from |-> s, nonce |-> n, payload |-> r,
                     gasPrice |-> todo[p][r].gasPrice]
               row == [todo[p][r] EXCEPT !.status = "submitted", !.txHash = t]
    <3>1. row.status = "submitted"
      BY <2>1 DEF Row
    <3>2. item'[p] = [ref |-> r, row |-> row]
      BY <2>2
    <3> HIDE DEF row
    <3> QED BY <3>1, <3>2
  <2> QED BY <2>3 DEF Truthful
<1>4. ASSUME NEW r \in Ref, Track(p, r) PROVE Truthful(item[p].row)'
  <2> DEFINE entity == todo[p][r]
  <2>1. entity \in Row /\ entity.txHash \in Tx
    BY <1>4 DEF Track, IsLoaded, PassOK, Snapshot, LookupPC, HasHash, OnChainStatus
  <2>2. CASE item' = item
    BY <1>1, <2>2
  <2>3. CASE item'[p].row.status \in {"mempool", "stuck", "dropped"}
    BY <2>3 DEF Truthful
  <2>4. CASE /\ IsMined(entity.txHash)
             /\ item'[p].row = [entity EXCEPT !.status = "included",
                                              !.blockNumber = block[entity.txHash]]
    <3>1. /\ item'[p].row.status = "included" /\ item'[p].row.txHash = entity.txHash
          /\ item'[p].row.blockNumber = block[entity.txHash]
      BY <2>1, <2>4 DEF Row
    <3> QED BY <2>1, <2>4, <3>1 DEF Truthful, ChainGrows, IsMined
  <2> DEFINE status == TrackedStatus(entity, r \in late)
  <2>5. status = "included" => IsMined(entity.txHash)
    BY DEF TrackedStatus
  <2>6. \/ item' = item
        \/ /\ status \in {"mempool", "stuck", "dropped"}
           /\ item'[p].row = [entity EXCEPT !.status = status]
        \/ /\ status = "included"
           /\ item'[p].row = [entity EXCEPT !.status = status,
                                            !.blockNumber = block[entity.txHash]]
    BY <1>4 DEF Track
  <2> HIDE DEF status
  <2>7. ASSUME status \in {"mempool", "stuck", "dropped"},
               item'[p].row = [entity EXCEPT !.status = status]
        PROVE  item'[p].row.status \in {"mempool", "stuck", "dropped"}
    BY <2>1, <2>7 DEF Row
  <2> QED BY <2>2, <2>3, <2>4, <2>5, <2>6, <2>7
<1>5. ASSUME NEW r \in Ref, Abort(p, r) PROVE Truthful(item[p].row)'
  <2>1. doomed[p][r] \in Row /\ NonceLost(doomed[p][r].txHash)
    BY <1>5 DEF Abort, PassOK, Snapshot, PassTruth
  <2>2. /\ item'[p].row.status = "aborted"
        /\ item'[p].row.txHash = doomed[p][r].txHash
    BY <1>5, <2>1 DEF Abort, Row
  <2>3. PICK t : t = doomed[p][r].txHash
    OBVIOUS
  <2>4. NonceLost(t)'
    BY <2>1, <2>3, TruthLasts
  <2> QED BY <2>2, <2>3, <2>4 DEF Truthful
<1>6. ASSUME NEW r \in Ref, Unstick(p, r) PROVE Truthful(item[p].row)'
  BY <1>6 DEF Unstick, Truthful
<1>7. ASSUME NEW r \in Ref, Confirm(p, r) PROVE Truthful(item[p].row)'
  <2> DEFINE entity == todo[p][r]
  <2>1. /\ entity \in Row /\ entity.status = "included"
        /\ pc[p] = "confirm" /\ mark[p] <= head
    BY <1>7 DEF Confirm, IsLoaded, PassOK, Snapshot, LookupPC, PassTruth
  <2>2. \/ item' = item
        \/ item'[p].row = [entity EXCEPT !.status = "mempool"]
        \/ /\ IsBuried(entity, mark[p])
           /\ item'[p].row = [entity EXCEPT !.status = "confirmed"]
    BY <1>7 DEF Confirm
  <2>3. ASSUME item'[p].row = [entity EXCEPT !.status = "mempool"]
        PROVE  Truthful(item[p].row)'
    BY <2>1, <2>3 DEF Row, Truthful
  <2>4. ASSUME IsBuried(entity, mark[p]),
               item'[p].row = [entity EXCEPT !.status = "confirmed"]
        PROVE  Truthful(item[p].row)'
    <3>1. /\ item'[p].row.status = "confirmed" /\ item'[p].row.txHash = entity.txHash
          /\ item'[p].row.blockNumber = entity.blockNumber
      BY <2>1, <2>4 DEF Row
    <3>2. /\ entity.txHash \in Tx /\ block[entity.txHash] = entity.blockNumber
          /\ entity.blockNumber # NotMined
      BY <2>1 DEF PassTruth, Truthful
    <3>3. entity.blockNumber + NumBlocksUntilConfirmed < head'
      <4>1. entity.blockNumber + NumBlocksUntilConfirmed < mark[p]
        BY <2>4 DEF IsBuried
      <4>2. entity.blockNumber \in Int /\ mark[p] \in Int /\ head \in Int /\ head' \in Int
        BY <2>1, NodeAssumption DEF Row, PassOK, SharedOK, NodeTypeOK
      <4> QED BY <4>1, <4>2, <2>1, WatcherAssumption DEF ChainGrows
    <3> QED BY <3>1, <3>2, <3>3 DEF Truthful, ChainGrows, IsMined
  <2> QED BY <1>1, <2>2, <2>3, <2>4
<1> QED BY <1>1, <1>2, <1>3, <1>4, <1>5, <1>6, <1>7 DEF PassShape
\* What a step of a pass leaves in the pass's memory is true.
LEMMA PassStaysTrue ==
    ASSUME ChainInv, TypeInv', ChainGrows, NEW p \in Pass,
           PassStep(p) \/ PassFault(p)
    PROVE  PassTruth(p)'
<1> USE DEF ChainInv, TypeInv, Indexed
<1>1. PassShape(p)
  BY StepShape
<1>2. Truthful(NoRow) /\ NoRow \in Row
  BY Constants DEF Truthful, NoRow
<1>3. ASSUME NEW r \in Ref PROVE Truthful(todo[p][r])'
  <2>1. todo[p][r] \in Row /\ rows[r] \in Row
    BY DEF PassOK, Snapshot, SharedOK
  <2>2. Truthful(todo[p][r]) /\ Truthful(rows[r])
    BY DEF PassTruth, TableTruth
  <2>3. todo'[p][r] \in {todo[p][r], rows[r], NoRow}
    BY <1>1 DEF PassShape
  <2> QED BY <1>2, <2>1, <2>2, <2>3, TruthLasts
<1>4. Truthful(item[p].row)'
  BY <1>1, HeldIsTrue
<1>5. \A r \in Ref : IsLoaded(doomed[p], r)' => NonceLost(doomed[p][r].txHash)'
  <2>1. CASE FindSameNonce(p)
    <3> DEFINE t == item[p].row.txHash
    <3>1. t \in Tx /\ IsMined(t) /\ t \in sent
      BY <2>1 DEF FindSameNonce, PassTruth, Truthful, IsMined, TableTruth
    <3>2. ASSUME NEW r \in Ref, IsLoaded(doomed'[p], r)
          PROVE  /\ doomed'[p][r] = rows[r]
                 /\ rows[r].txHash \in Tx /\ rows[r].txHash # t
                 /\ SameSlot(rows[r].txHash, t)
      <4>1. rows[r] \in Row
        BY DEF SharedOK
      <4> QED BY <2>1, <3>2, <4>1 DEF FindSameNonce, IsLoaded, NoRow, Row
    <3>3. UNCHANGED <<sent, block>>
      BY <2>1 DEF FindSameNonce, nodeVars
    <3>4. ASSUME NEW r \in Ref, IsLoaded(doomed'[p], r)
          PROVE  NonceLost(doomed[p][r].txHash)'
      <4>1. /\ doomed'[p][r].txHash \in Tx /\ doomed'[p][r].txHash # t
            /\ SameSlot(t, doomed'[p][r].txHash)
        BY <3>2, <3>4 DEF SameSlot
      <4> HIDE DEF t
      <4> QED BY <3>1, <3>3, <4>1 DEF NonceLost, IsMined, SameSlot
    <3> QED BY <3>4 DEF IsLoaded
  <2>2. CASE \A r \in Ref : doomed'[p][r] \in {doomed[p][r], NoRow}
    <3> SUFFICES ASSUME NEW r \in Ref, IsLoaded(doomed[p], r)'
                 PROVE  NonceLost(doomed[p][r].txHash)'
      OBVIOUS
    <3>1. doomed'[p][r] = doomed[p][r]
      BY <2>2 DEF IsLoaded, NoRow
    <3>2. PICK t : t = doomed[p][r].txHash
      OBVIOUS
    <3>3. NonceLost(t)
      BY <3>1, <3>2 DEF PassTruth, IsLoaded
    <3>4. NonceLost(t)'
      BY <3>3, TruthLasts
    <3>5. doomed'[p][r].txHash = t
      BY <3>1, <3>2
    <3> QED BY <3>4, <3>5 DEF NonceLost
  <2> QED BY <1>1, <2>1, <2>2 DEF PassShape
<1>6. pc'[p] \in {"saveIncluded", "findSameNonce"} => item'[p].row.status = "included"
  <2>1. ASSUME NEW r \in Ref, Track(p, r), pc'[p] \in {"saveIncluded", "findSameNonce"}
        PROVE  item'[p].row.status = "included"
    <3> DEFINE entity == todo[p][r]
    <3>1. entity \in Row
      BY DEF PassOK, Snapshot
    <3> DEFINE status == TrackedStatus(entity, r \in late)
    <3>2. \/ UNCHANGED pc
          \/ Goto(p, "saveTracked")
          \/ item'[p].row = [entity EXCEPT !.status = "included",
                                           !.blockNumber = block[entity.txHash]]
      <4> HIDE DEF status
      <4>1. \/ UNCHANGED pc
            \/ Goto(p, "saveTracked")
            \/ /\ status = "included"
               /\ Hold(p, r, [entity EXCEPT !.status = status,
                                            !.blockNumber = block[entity.txHash]])
        BY <2>1 DEF Track, status
      <4>2. ASSUME NEW row, Hold(p, r, row) PROVE item'[p].row = row
        BY <4>2 DEF Hold
      <4> QED BY <4>1, <4>2
    <3>3. item'[p].row = [entity EXCEPT !.status = "included",
                                        !.blockNumber = block[entity.txHash]]
      BY <2>1, <3>2 DEF Track, Goto
    <3> QED BY <3>1, <3>3 DEF Row
  <2> QED BY <1>1, <2>1 DEF PassShape, PassTruth
<1>7. /\ pc'[p] \in {"findIncluded", "confirm", "saveConfirmed"} => mark'[p] <= head'
      /\ pc'[p] \in {"confirm", "saveConfirmed"} =>
            \A r \in Ref : todo'[p][r].status \in {"included", "absent"}
  <2>1. head \in Int /\ head' \in Int /\ mark[p] \in Int
    BY NodeAssumption DEF PassOK, SharedOK, NodeTypeOK
  <2>2. NoRow.status = "absent"
    BY DEF NoRow
  <2> QED BY <1>1, <2>1, <2>2 DEF PassShape, PassTruth, ChainGrows
<1> QED BY <1>3, <1>4, <1>5, <1>6, <1>7 DEF PassTruth

\* A step of the environment that leaves the passes alone.
LEMMA OthersStayTrue ==
    ASSUME ChainInv, TypeInv', ChainGrows, TableTruth',
           UNCHANGED <<pc, todo, doomed, item, mark>>
    PROVE  ChainInv'
<1> USE DEF ChainInv, TypeInv
<1>1. ASSUME NEW p \in Pass PROVE PassTruth(p)'
  <2>1. /\ \A r \in Ref : todo[p][r] \in Row
        /\ item[p].row \in Row
    BY DEF PassOK, Snapshot, Item
  <2>2. mark[p] \in Int /\ head \in Int /\ head' \in Int
    BY NodeAssumption DEF PassOK, SharedOK, NodeTypeOK
  <2>3. /\ \A r \in Ref : Truthful(todo[p][r])'
        /\ Truthful(item[p].row)'
    BY <2>1, TruthLasts DEF PassTruth
  <2>4. \A r \in Ref : IsLoaded(doomed[p], r) => NonceLost(doomed[p][r].txHash)'
    BY TruthLasts DEF PassTruth
  <2> QED BY <2>2, <2>3, <2>4 DEF PassTruth, ChainGrows
<1> QED BY <1>1

LEMMA EnvStaysTrue ==
    ASSUME ChainInv, TypeInv', ChainGrows, EnvStep \/ UNCHANGED vars,
           "reorg" \notin Faults
    PROVE  ChainInv'
<1> USE DEF ChainInv, TypeInv
<1>1. ASSUME UNCHANGED rows PROVE \A r \in Ref : Truthful(rows[r])'
  BY <1>1, TruthLasts DEF TableTruth, SharedOK
<1>2. ASSUME UNCHANGED <<sent, block>> PROVE \A t \in Tx : IsMined(t)' => t \in sent'
  BY <1>2 DEF TableTruth, IsMined
<1>3. CASE UNCHANGED <<sent, block, rows, pc, todo, doomed, item, mark>>
  BY <1>1, <1>2, <1>3, OthersStayTrue DEF TableTruth
<1>4. ASSUME NEW t \in sent, Mine(t), UNCHANGED watcherVars PROVE ChainInv'
  <2>1. \A u \in Tx : IsMined(u)' => u \in sent'
    BY <1>4 DEF Mine, IsMined, TableTruth, SharedOK, NodeTypeOK
  <2> QED BY <1>1, <1>4, <2>1, OthersStayTrue DEF TableTruth, watcherVars
<1>5. ASSUME NEW r \in MetaTxn, SubmitMetaTxn(r) PROVE ChainInv'
  <2>1. PICK row : row = [NoRow EXCEPT !.status = "unsubmitted", !.gasPrice = gasPrice]
    OBVIOUS
  <2>2. rows' = [rows EXCEPT ![r] = row] /\ row.status = "unsubmitted"
    BY <1>5, <2>1, Constants DEF SubmitMetaTxn, Row
  <2>3. UNCHANGED <<sent, block, pc, todo, doomed, item, mark>>
    BY <1>5 DEF SubmitMetaTxn, nodeVars
  <2>4. ASSUME NEW q \in Ref PROVE Truthful(rows[q])'
    <3>1. rows'[q] = rows[q] \/ rows'[q] = row
      BY <2>2 DEF SharedOK
    <3>2. Truthful(rows[q])' \/ rows'[q] # rows[q]
      BY TruthLasts DEF SharedOK, TableTruth
    <3> QED BY <2>2, <3>1, <3>2 DEF Truthful
  <2> QED BY <1>2, <2>3, <2>4, OthersStayTrue DEF TableTruth
<1>6. CASE Restart
  <2>1. TableTruth'
    BY <1>1, <1>2, <1>6 DEF Restart, nodeVars, TableTruth
  <2>2. ASSUME NEW p \in Pass PROVE PassTruth(p)'
    <3>1. /\ pc'[p] = "idle" /\ todo'[p] = Nothing /\ doomed'[p] = Nothing
          /\ item'[p] = NoItem
      BY <1>6 DEF Restart
    <3>2. Truthful(NoRow)' /\ NoItem.row = NoRow
      BY DEF Truthful, NoRow, NoItem
    <3> QED BY <3>1, <3>2, Constants DEF PassTruth, IsLoaded, NoRow
  <2> QED BY <2>1, <2>2
<1> QED BY <1>3, <1>4, <1>5, <1>6
        DEF EnvStep, ChainStep, MineEmptyBlock, GasPriceMoves, NodeFault, Fault, Forget,
            ExpectedAtPasses, nodeVars, watcherVars, vars

LEMMA NextTruth ==
    ASSUME "reorg" \notin Faults
    PROVE  ChainInv /\ [Next]_vars => ChainInv'
<1> SUFFICES ASSUME ChainInv, [Next]_vars PROVE ChainInv'
    OBVIOUS
<1>1. TypeInv' /\ ChainGrows
  BY NextTyped, NextGrows DEF ChainInv
<1>2. ASSUME NEW p \in Pass, PassStep(p) \/ PassFault(p) PROVE ChainInv'
  <2>1. PassFrame(p)
    BY <1>2, StepFrame DEF ChainInv
  <2> QED BY <1>1, <1>2, <2>1, TableStaysTrue, PassStaysTrue, OnePassTruth DEF PassFrame
<1>3. CASE EnvStep \/ UNCHANGED vars
  BY <1>1, <1>3, EnvStaysTrue
<1> QED BY <1>2, <1>3 DEF Next

LEMMA ChainInvAlways ==
    ASSUME "reorg" \notin Faults
    PROVE  Spec => []ChainInv
BY InitTruth, NextTruth, PTL DEF Spec

\* Without reorgs, every row that says `included' or `confirmed' names the block
\* its transaction is mined in, whatever another pass, a crash or a lost answer
\* did to the copy of the row that was saved.
THEOREM IncludedRowsAreMined ==
    ASSUME "reorg" \notin Faults
    PROVE  Spec => []IncludedIsMined
<1>1. ChainInv => IncludedIsMined
  BY Constants DEF ChainInv, TableTruth, Truthful, IncludedIsMined
<1> QED BY <1>1, ChainInvAlways, PTL

\* Without reorgs, an aborted row has lost its nonce to a transaction that is
\* mined, and so can never be mined itself.
THEOREM AbortedRowsAreDead ==
    ASSUME "reorg" \notin Faults
    PROVE  Spec => []AbortedCannotBeMined
<1>1. ChainInv => AbortedCannotBeMined
  BY DEF ChainInv, TableTruth, Truthful, NonceLost, AbortedCannotBeMined
<1> QED BY <1>1, ChainInvAlways, PTL

\* Without reorgs, a confirmed row's transaction is mined deeper than the number
\* of blocks the configuration asks for, although the pass compares block numbers
\* that it read at different times.
THEOREM ConfirmedRowsAreBuried ==
    ASSUME "reorg" \notin Faults
    PROVE  Spec => []ConfirmedIsBuried
<1>1. ChainInv => ConfirmedIsBuried
  BY DEF ChainInv, TableTruth, Truthful, IsMined, ConfirmedIsBuried
<1> QED BY <1>1, ChainInvAlways, PTL
=============================================================================
