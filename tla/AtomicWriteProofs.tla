------------------------- MODULE AtomicWriteProofs -------------------------
(* Proofs that every destination file is whole, for any number of writers,  *)
(* readers and processes, any values, on both platforms.                    *)
EXTENDS AtomicWrite, TLAPS

(* What WriteFull has written so far only gets longer.                      *)
LEMMA OverlayFill ==
    ASSUME NEW v, NEW n \in Nat, NEW len \in Nat
    PROVE  Overlay(Fill(n, v), n, len, v) = Fill(n + len, v)
  BY DEF Overlay, Fill

(* A file filled with one value.                                             *)
LEMMA FillType ==
    ASSUME NEW v \in Blocks, NEW n \in Nat
    PROVE  Fill(n, v) \in Seq(Blocks) /\ Len(Fill(n, v)) = n
  BY DEF Fill

(* A whole content is a sequence of blocks.                                  *)
LEMMA WholeType ==
    ASSUME NEW s, IsWhole(s)
    PROVE  s \in Seq(Blocks)
  BY AtomicWriteAssumption DEF IsWhole, Content, Blocks

(* A temporary name is not that of the destination.                          *)
LEMMA TempsAreNames ==
    ASSUME NEW p \in Pids, NEW c \in 0 .. MaxCalls - 1
    PROVE  Temp(p, c) \in TempNames /\ Temp(p, c) \in Names /\ Temp(p, c) # Dest
  BY AtomicWriteAssumption DEF Temp, TempNames, Names

(* The invariant holds at first.                                             *)
LEMMA InitIInv == Init => IInv
  <1> SUFFICES ASSUME Init PROVE IInv
    OBVIOUS
  <1> USE AtomicWriteAssumption
  <1>1. TypeOK
    <2>1. \A v \in Values : Content(v) \in Seq(Blocks)
      BY DEF Content, Blocks
    <2>2. Dest \in Names /\ NoOp \in [tmp : Names, val : Blocks, durable : BOOLEAN]
      BY DEF NoOp, Names, Blocks
    <2>3. <<>> \in Seq(Blocks)
      OBVIOUS
    <2>4. /\ dir \in [Names -> Inodes \cup {NoInode}]
          /\ data \in [Inodes -> Seq(Blocks)]
      BY <2>1, <2>3 DEF Init
    <2> QED
      BY <2>2, <2>3, <2>4 DEF Init, TypeOK, FsTypeOK, PCs, ReturnValues
  <1>2. NamesInv
    BY DEF Init, NamesInv
  <1>3. LinksInv
    BY DEF Init, LinksInv
  <1>4. TempsInv
    BY DEF Init, TempsInv, HasTemp, Named, Filling
  <1>5. DestInv
    BY DEF Init, DestInv, DestWhole, IsWhole, Names
  <1>6. ReadersInv
    BY DEF Init, ReadersInv, SnapshotRead, Reading
  <1> QED
    BY <1>1, <1>2, <1>3, <1>4, <1>5, <1>6 DEF IInv

(* -------------------------------- frames ------------------------------- *)
(* What a step must leave alone for a part of the invariant to survive it.  *)

(* The names stay exclusive while no call begins,                            *)
LEMMA KeepNames ==
    ASSUME NamesInv,
           \A u \in Writers : pc'[u] # "idle" =>
              pc[u] # "idle" /\ op'[u] = op[u] /\ counter'[Proc[u]] = counter[Proc[u]]
    PROVE  NamesInv'
  BY DEF NamesInv

(* the links stay while no directory changes,                                *)
LEMMA KeepLinks ==
    ASSUME LinksInv, dir' = dir, durDir' = durDir
    PROVE  LinksInv'
  BY DEF LinksInv

(* the temporary files while the file system does not change,                *)
LEMMA KeepTemps ==
    ASSUME TempsInv, UNCHANGED fsVars,
           \A u \in Writers :
              /\ pc'[u] # "idle" => pc[u] # "idle" /\ op'[u] = op[u]
              /\ HasTemp(u)' => HasTemp(u) /\ ino'[u] = ino[u]
              /\ Named(u)' => Named(u)
              /\ Filling(u)' => Filling(u) /\ written'[u] = written[u]
              /\ Filling(u)' /\ pc'[u] # "write" => written[u] = Size[op[u].val]
              /\ "power" \in Faults /\ pc'[u] \in {"close", "rename"} =>
                    pc[u] \in {"close", "rename"}
              /\ pc'[u] # "remove" => attempt'[u] < Attempts
              /\ pc'[u] \in {"idle", "open"} => written'[u] = 0
    PROVE  TempsInv'
  <1> USE DEF fsVars
  <1>1. \A u \in Writers : HasTemp(u)' =>
          /\ ino'[u] \in Inodes
          /\ \A n \in Names : dir'[n] = ino'[u] \/ durDir'[n] = ino'[u] => n = op'[u].tmp
    BY DEF TempsInv, HasTemp
  <1>2. \A u \in Writers : Named(u)' => dir'[op'[u].tmp] = ino'[u]
    BY DEF TempsInv, HasTemp, Named
  <1>3. \A u, w \in Writers : u # w /\ HasTemp(u)' /\ HasTemp(w)' => ino'[u] # ino'[w]
    BY DEF TempsInv
  <1>4. \A u \in Writers : Filling(u)' =>
          /\ data'[ino'[u]] = Fill(written'[u], op'[u].val)
          /\ written'[u] <= Size[op'[u].val]
          /\ pc'[u] # "write" => written'[u] = Size[op'[u].val]
          /\ "power" \in Faults /\ pc'[u] \in {"close", "rename"} => ino'[u] \in synced'
    BY DEF TempsInv, HasTemp, Filling
  <1>5. \A u \in Writers : "power" \in Faults /\ pc'[u] # "idle" => op'[u].durable
    BY DEF TempsInv
  <1> QED
    BY <1>1, <1>2, <1>3, <1>4, <1>5 DEF TempsInv

(* and the destination,                                                      *)
LEMMA KeepDest ==
    ASSUME DestInv, UNCHANGED fsVars
    PROVE  DestInv'
  BY DEF DestInv, DestWhole, fsVars

(* and the readers' files.                                                   *)
LEMMA KeepReaders ==
    ASSUME ReadersInv, UNCHANGED <<fsVars, readerVars>>,
           \A u \in Writers : HasTemp(u)' => HasTemp(u) /\ ino'[u] = ino[u]
    PROVE  ReadersInv'
  BY DEF ReadersInv, SnapshotRead, Reading, fsVars, readerVars

(* ---------------------------- writers' steps --------------------------- *)

(* A call draws a name that no other has.                                    *)
LEMMA BeginStep ==
    ASSUME IInv, NEW t \in Writers, NEW v \in Values, NEW d \in Durables, Begin(t, v, d)
    PROVE  IInv'
  <1> DEFINE p == Proc[t]
             c == counter[p]
  <1>1. p \in Pids /\ c \in 0 .. MaxCalls - 1
    <2>1. counter \in [Pids -> 0 .. MaxCalls] /\ counter[Proc[t]] < MaxCalls
      BY DEF IInv, TypeOK, Begin
    <2> QED
      BY <2>1, AtomicWriteAssumption
  <1>2. Temp(p, c) \in TempNames /\ Temp(p, c) \in Names /\ Temp(p, c) # Dest
    BY <1>1, TempsAreNames
  <1>3. TypeOK'
    <2>1. d \in BOOLEAN
      BY AtomicWriteAssumption
    <2>2. op' \in [Writers -> [tmp : Names, val : Blocks, durable : BOOLEAN]]
      BY <1>2, <2>1 DEF IInv, TypeOK, Begin, Blocks
    <2>3. counter' \in [Pids -> 0 .. MaxCalls]
      <3>1. counter' = [counter EXCEPT ![p] = c + 1] /\ counter \in [Pids -> 0 .. MaxCalls]
        BY DEF IInv, TypeOK, Begin
      <3> QED
        BY <3>1, <1>1, AtomicWriteAssumption
    <2> QED
      BY <2>2, <2>3
      DEF IInv, TypeOK, FsTypeOK, Begin, Goto, PCs, ReturnValues, fsVars, readerVars
  <1>4. /\ \A u \in Writers : u # t => pc'[u] = pc[u] /\ op'[u] = op[u]
        /\ pc[t] = "idle" /\ pc'[t] = "open"
        /\ op'[t] = [tmp |-> Temp(p, c), val |-> v, durable |-> d]
        /\ UNCHANGED <<fsVars, readerVars, ino, written, attempt>>
    BY DEF IInv, TypeOK, Begin, Goto, readerVars
  <1>5. NamesInv'
    <2>1. \A u \in Writers : u # t /\ pc[u] # "idle" => op[u].tmp # Temp(p, c)
      <3>1. \A u \in Writers : pc[u] # "idle" =>
              \E k \in Nat : k < counter[Proc[u]] /\ op[u].tmp = Temp(Proc[u], k)
        BY AtomicWriteAssumption DEF IInv, NamesInv
      <3> QED
        BY <3>1, <1>1 DEF Temp
    <2>2. \A q \in Pids : counter'[q] = IF q = p THEN c + 1 ELSE counter[q]
      BY <1>1 DEF IInv, TypeOK, Begin
    <2>3. \A u \in Writers : pc'[u] # "idle" =>
            /\ op'[u].val \in Values
            /\ \E k \in 0 .. MaxCalls - 1 :
                  k < counter'[Proc[u]] /\ op'[u].tmp = Temp(Proc[u], k)
      <3> SUFFICES ASSUME NEW u \in Writers, pc'[u] # "idle"
                   PROVE  /\ op'[u].val \in Values
                          /\ \E k \in 0 .. MaxCalls - 1 :
                                k < counter'[Proc[u]] /\ op'[u].tmp = Temp(Proc[u], k)
        OBVIOUS
      <3>1. CASE u = t
        BY <3>1, <1>1, <1>4, <2>2
      <3>2. CASE u # t
        <4>1. PICK k \in 0 .. MaxCalls - 1 :
                k < counter[Proc[u]] /\ op[u].tmp = Temp(Proc[u], k)
          BY <3>2, <1>4 DEF IInv, NamesInv
        <4>2. Proc[u] \in Pids /\ counter[Proc[u]] \in Nat
          BY AtomicWriteAssumption DEF IInv, TypeOK
        <4>3. k < counter'[Proc[u]]
          BY <4>1, <4>2, <2>2, <1>1
        <4> QED
          BY <4>1, <4>3, <3>2, <1>4 DEF IInv, NamesInv
      <3> QED
        BY <3>1, <3>2
    <2>4. \A u, w \in Writers :
            u # w /\ pc'[u] # "idle" /\ pc'[w] # "idle" => op'[u].tmp # op'[w].tmp
      BY <2>1, <1>4 DEF IInv, NamesInv
    <2> QED
      BY <2>3, <2>4 DEF NamesInv
  <1>6. LinksInv'
    BY <1>4, KeepLinks DEF IInv, fsVars
  <1>7. TempsInv'
    <2>1. \A u \in Writers : "power" \in Faults /\ pc'[u] # "idle" => op'[u].durable
      <3>1. "power" \in Faults => d
        BY AtomicWriteAssumption
      <3>2. op'[t].durable = d
        BY <1>4
      <3>3. \A u \in Writers : u # t /\ "power" \in Faults /\ pc'[u] # "idle" => op'[u].durable
        BY <1>4 DEF IInv, TempsInv
      <3> QED
        BY <3>1, <3>2, <3>3
    <2>2. \A u \in Writers : HasTemp(u)' => u # t /\ HasTemp(u)
      BY <1>4 DEF HasTemp
    <2>3. \A u \in Writers : (Named(u)' => Named(u)) /\ (Filling(u)' => Filling(u))
      BY <1>4 DEF Named, Filling
    <2>4. \A u \in Writers : pc'[u] # "remove" => attempt'[u] < Attempts
      BY <1>4 DEF IInv, TempsInv
    <2> QED
      BY <2>1, <2>2, <2>3, <2>4, <1>4 DEF IInv, TempsInv, fsVars, HasTemp, Named, Filling
  <1>8. DestInv'
    BY <1>4, KeepDest DEF IInv
  <1>9. ReadersInv'
    BY <1>4, KeepReaders DEF IInv, HasTemp
  <1> QED
    BY <1>3, <1>5, <1>6, <1>7, <1>8, <1>9 DEF IInv

(* The writers a step of t does not concern.                                *)
Others(t) ==
    \A u \in Writers : u # t =>
        /\ pc'[u] = pc[u] /\ op'[u] = op[u] /\ ino'[u] = ino[u]
        /\ written'[u] = written[u] /\ attempt'[u] = attempt[u]

(* What a call that returns leaves as it is.                                 *)
LEMMA ReturnFrame ==
    ASSUME TypeOK, NEW t \in Writers, NEW from, NEW res \in ReturnValues, Return(t, from, res)
    PROVE  /\ Others(t)
           /\ pc[t] = from /\ pc'[t] = "idle" /\ attempt'[t] = 0 /\ written'[t] = 0
           /\ UNCHANGED <<counter, readerVars>>
           /\ counter' \in [Pids -> 0 .. MaxCalls]
           /\ pc' \in [Writers -> PCs]
           /\ op' \in [Writers -> [tmp : Names, val : Blocks, durable : BOOLEAN]]
           /\ ino' \in [Writers -> Inodes \cup {NoInode}]
           /\ written' \in [Writers -> Nat]
           /\ attempt' \in [Writers -> 0 .. Attempts]
           /\ result' \in [Writers -> ReturnValues]
  <1>1. NoOp \in [tmp : Names, val : Blocks, durable : BOOLEAN]
    BY DEF NoOp, Names, Blocks
  <1>2. 0 \in 0 .. Attempts
    BY AtomicWriteAssumption
  <1> QED
    BY <1>1, <1>2 DEF TypeOK, Return, Goto, Others, PCs, readerVars

(* A call that returns without touching the file system.                    *)
LEMMA QuietReturn ==
    ASSUME IInv, NEW t \in Writers, NEW from, NEW res \in ReturnValues,
           Return(t, from, res), UNCHANGED fsVars
    PROVE  IInv'
  <1>1. /\ Others(t)
        /\ pc'[t] = "idle" /\ attempt'[t] = 0 /\ written'[t] = 0
        /\ UNCHANGED <<counter, readerVars>>
    BY ReturnFrame DEF IInv
  <1>2. TypeOK'
    BY ReturnFrame DEF IInv, TypeOK, FsTypeOK, fsVars, readerVars
  <1>3. NamesInv'
    BY <1>1, KeepNames DEF IInv, Others
  <1>4. LinksInv'
    BY KeepLinks DEF IInv, fsVars
  <1>5. TempsInv'
    <2>1. 0 < Attempts
      BY AtomicWriteAssumption
    <2>2. \A u \in Writers : u # t /\ Filling(u) /\ pc[u] # "write" => written[u] = Size[op[u].val]
      BY DEF IInv, TempsInv
    <2>3. \A u \in Writers :
            /\ pc[u] # "remove" => attempt[u] < Attempts
            /\ pc[u] \in {"idle", "open"} => written[u] = 0
      BY DEF IInv, TempsInv
    <2> QED
      BY <1>1, <2>1, <2>2, <2>3, KeepTemps DEF IInv, Others, HasTemp, Named, Filling
  <1>6. DestInv'
    BY KeepDest DEF IInv
  <1>7. ReadersInv'
    BY <1>1, KeepReaders DEF IInv, Others, HasTemp
  <1> QED
    BY <1>2, <1>3, <1>4, <1>5, <1>6, <1>7 DEF IInv

(* A step inside a call that touches neither files nor readers: it must not *)
(* go where the invariant claims more of the writer than it did.            *)
LEMMA QuietStep ==
    ASSUME IInv, TypeOK', NEW t \in Writers, Others(t),
           UNCHANGED <<fsVars, readerVars, counter, op, ino, written>>,
           HasTemp(t), HasTemp(t)',
           Named(t)' => Named(t),
           Filling(t)' => Filling(t),
           Filling(t)' /\ pc'[t] # "write" => written[t] = Size[op[t].val],
           "power" \in Faults /\ pc'[t] \in {"close", "rename"} => pc[t] \in {"close", "rename"},
           pc'[t] # "remove" => attempt'[t] < Attempts
    PROVE  IInv'
  <1>1. NamesInv'
    BY KeepNames DEF IInv, Others, HasTemp
  <1>2. LinksInv'
    BY KeepLinks DEF IInv, fsVars
  <1>3. TempsInv'
    <2>1. \A u \in Writers : u # t =>
            /\ HasTemp(u)' => HasTemp(u)
            /\ Named(u)' => Named(u)
            /\ Filling(u)' => Filling(u)
            /\ Filling(u)' /\ pc'[u] # "write" => written[u] = Size[op[u].val]
            /\ pc'[u] # "remove" => attempt'[u] < Attempts
            /\ pc'[u] \in {"idle", "open"} => written'[u] = 0
      BY DEF IInv, TempsInv, Others, HasTemp, Named, Filling
    <2> QED
      BY <2>1, KeepTemps DEF IInv, Others, HasTemp
  <1>4. DestInv'
    BY KeepDest DEF IInv
  <1>5. ReadersInv'
    BY KeepReaders DEF IInv, Others, HasTemp
  <1> QED
    BY <1>1, <1>2, <1>3, <1>4, <1>5 DEF IInv

(* The steps that change nothing but the call's own position.                *)
LEMMA LocalStep ==
    ASSUME IInv, NEW t \in Writers,
           \/ OpenTempFails(t) \/ WriteFullDone(t) \/ WriteOrFlushFails(t)
           \/ CloseTemp(t) \/ RenameFails(t) \/ Unwind(t)
    PROVE  IInv'
  <1>1. CASE OpenTempFails(t) \/ Unwind(t)
    BY <1>1, QuietReturn DEF OpenTempFails, Unwind, ReturnValues
  <1>2. CASE WriteFullDone(t)
    <2>1. TypeOK'
      BY <1>2 DEF IInv, TypeOK, FsTypeOK, WriteFullDone, Goto, PCs, fsVars, readerVars
    <2>2. Others(t)
      BY <1>2 DEF IInv, TypeOK, WriteFullDone, Goto, Others
    <2>3. /\ pc[t] = "write" /\ written[t] = Size[op[t].val]
          /\ pc'[t] = IF op[t].durable THEN "flush" ELSE "close"
          /\ UNCHANGED <<fsVars, readerVars, counter, op, ino, written, attempt>>
      BY <1>2 DEF IInv, TypeOK, WriteFullDone, Goto, readerVars
    <2>4. "power" \in Faults => op[t].durable
      BY <2>3 DEF IInv, TempsInv
    <2>5. attempt'[t] < Attempts
      BY <2>3 DEF IInv, TempsInv
    <2> QED
      BY <2>1, <2>2, <2>3, <2>4, <2>5, QuietStep DEF HasTemp, Named, Filling
  <1>3. CASE WriteOrFlushFails(t)
    <2>1. TypeOK'
      BY <1>3 DEF IInv, TypeOK, FsTypeOK, WriteOrFlushFails, Goto, PCs, fsVars, readerVars
    <2>2. Others(t)
      BY <1>3 DEF IInv, TypeOK, WriteOrFlushFails, Goto, Others
    <2>3. /\ pc[t] \in {"write", "flush"} /\ pc'[t] = "removeOpen"
          /\ UNCHANGED <<fsVars, readerVars, counter, op, ino, written, attempt>>
      BY <1>3 DEF IInv, TypeOK, WriteOrFlushFails, Goto, readerVars
    <2>4. attempt'[t] < Attempts
      BY <2>3 DEF IInv, TempsInv
    <2> QED
      BY <2>1, <2>2, <2>3, <2>4, QuietStep DEF HasTemp, Named, Filling
  <1>4. CASE CloseTemp(t)
    <2>1. TypeOK'
      BY <1>4 DEF IInv, TypeOK, FsTypeOK, CloseTemp, Goto, PCs, fsVars, readerVars
    <2>2. Others(t)
      BY <1>4 DEF IInv, TypeOK, CloseTemp, Goto, Others
    <2>3. /\ pc[t] = "close" /\ pc'[t] \in {"rename", "remove"}
          /\ UNCHANGED <<fsVars, readerVars, counter, op, ino, written, attempt>>
      BY <1>4 DEF IInv, TypeOK, CloseTemp, Goto, readerVars
    <2>4. written[t] = Size[op[t].val] /\ attempt'[t] < Attempts
      BY <2>3 DEF IInv, TempsInv, Filling
    <2> QED
      BY <2>1, <2>2, <2>3, <2>4, QuietStep DEF HasTemp, Named, Filling
  <1>5. CASE RenameFails(t)
    <2>1. TypeOK'
      <3>1. pc[t] = "rename"
        BY <1>5 DEF RenameFails, Goto
      <3>2. attempt[t] < Attempts /\ attempt[t] \in 0 .. Attempts
        BY <3>1 DEF IInv, TypeOK, TempsInv
      <3>3. attempt' \in [Writers -> 0 .. Attempts]
        BY <1>5, <3>2, AtomicWriteAssumption DEF IInv, TypeOK, RenameFails
      <3> QED
        BY <1>5, <3>3 DEF IInv, TypeOK, FsTypeOK, RenameFails, Goto, PCs, fsVars, readerVars
    <2>2. Others(t)
      BY <1>5 DEF IInv, TypeOK, RenameFails, Goto, Others
    <2>3. /\ pc[t] = "rename" /\ attempt'[t] = attempt[t] + 1
          /\ pc'[t] = IF attempt[t] + 1 < Attempts THEN "rename" ELSE "remove"
          /\ UNCHANGED <<fsVars, readerVars, counter, op, ino, written>>
      BY <1>5 DEF IInv, TypeOK, RenameFails, Goto, readerVars
    <2>4. written[t] = Size[op[t].val]
      BY <2>3 DEF IInv, TempsInv, Filling
    <2>5. pc'[t] # "remove" => attempt'[t] < Attempts
      BY <2>3
    <2> QED
      BY <2>1, <2>2, <2>3, <2>4, <2>5, QuietStep DEF HasTemp, Named, Filling
  <1> QED
    BY <1>1, <1>2, <1>3, <1>4, <1>5

(* The name of a call under way is a temporary one.                          *)
LEMMA TempName ==
    ASSUME NamesInv, NEW t \in Writers, pc[t] # "idle"
    PROVE  op[t].tmp \in TempNames /\ op[t].tmp \in Names /\ op[t].tmp # Dest
  BY TempsAreNames, AtomicWriteAssumption DEF NamesInv

(* What is open is not handed out again.                                     *)
LEMMA OpenInodesContain ==
    /\ \A u \in Writers : OwnsFd(u) => ino[u] \in OpenInodes
    /\ \A r \in Readers : Reading(r) => rino[r] \in OpenInodes
  <1>1. ASSUME NEW u \in Writers, OwnsFd(u) PROVE ino[u] \in OpenInodes
    <2>1. u \in {w \in Writers : OwnsFd(w)}
      BY <1>1
    <2> QED
      BY <2>1 DEF OpenInodes
  <1>2. ASSUME NEW r \in Readers, Reading(r) PROVE rino[r] \in OpenInodes
    <2>1. r \in {q \in Readers : Reading(q)}
      BY <1>2
    <2> QED
      BY <2>1 DEF OpenInodes
  <1> QED
    BY <1>1, <1>2

(* The temporary file that is opened is in no other call.                    *)
LEMMA OpenTempStep ==
    ASSUME IInv, NEW t \in Writers, OpenTemp(t)
    PROVE  IInv'
  <1> DEFINE n == op[t].tmp
  <1>1. PICK i \in Inodes :
          /\ OpenTrunc(n, i, OpenInodes)
          /\ ino' = [ino EXCEPT ![t] = i]
    BY DEF OpenTemp
  <1>2. /\ pc[t] = "open" /\ pc'[t] = "write" /\ ino'[t] = i
        /\ \A u \in Writers : u # t => pc'[u] = pc[u] /\ ino'[u] = ino[u]
        /\ UNCHANGED <<counter, op, written, attempt, result, readerVars>>
    BY <1>1 DEF OpenTemp, Goto, IInv, TypeOK, readerVars
  <1>3. n \in Names /\ n # Dest /\ DOMAIN dir = Names
    BY <1>2, TempName DEF IInv, TypeOK, FsTypeOK
  <1>4. \/ dir[n] = i
        \/ i \notin OpenInodes /\ \A m \in Names : dir[m] # i /\ durDir[m] # i
    BY <1>1, <1>3 DEF OpenTrunc, Linked
  <1>5. /\ dir' = [dir EXCEPT ![n] = i]
        /\ data' = [data EXCEPT ![i] = <<>>]
        /\ synced' = synced \ {i}
        /\ durDir' = durDir
    BY <1>1 DEF OpenTrunc
  <1>6. i # NoInode
    BY AtomicWriteAssumption
  <1>7. \A u \in Writers : HasTemp(u) => u # t /\ ino[u] # i
    <2> SUFFICES ASSUME NEW u \in Writers, HasTemp(u) PROVE u # t /\ ino[u] # i
      OBVIOUS
    <2>1. u # t
      BY <1>2 DEF HasTemp
    <2>2. CASE dir[n] = i
      BY <2>1, <2>2, <1>2, <1>3 DEF IInv, NamesInv, TempsInv, HasTemp
    <2>3. CASE i \notin OpenInodes /\ \A m \in Names : dir[m] # i /\ durDir[m] # i
      <3>1. OwnsFd(u) \/ Named(u)
        BY DEF HasTemp, OwnsFd, Named, IInv, TypeOK, PCs
      <3>2. CASE OwnsFd(u)
        BY <2>1, <2>3, <3>2, OpenInodesContain
      <3>3. CASE Named(u)
        <4>1. op[u].tmp \in Names
          BY TempName DEF IInv, HasTemp
        <4>2. dir[op[u].tmp] = ino[u]
          BY <3>3 DEF IInv, TempsInv
        <4> QED
          BY <2>1, <2>3, <4>1, <4>2
      <3> QED
        BY <3>1, <3>2, <3>3, <2>1
    <2> QED
      BY <2>1, <2>2, <2>3, <1>4
  <1>8. \A r \in Readers : Reading(r) => rino[r] # i
    BY <1>3, <1>4, OpenInodesContain DEF IInv, ReadersInv
  <1>9. i # dir[Dest] /\ i # durDir[Dest]
    BY <1>3, <1>4, <1>6 DEF IInv, LinksInv, Names
  <1>10. \A m \in Names : durDir[m] = i => m = n
    BY <1>3, <1>4, <1>6 DEF IInv, LinksInv
  <1>11. \A m \in Names : dir'[m] = IF m = n THEN i ELSE dir[m]
    BY <1>3, <1>5 DEF IInv, TypeOK, FsTypeOK
  <1>12. \A m \in Names : dir[m] = i => m = n
    BY <1>3, <1>4, <1>6 DEF IInv, LinksInv
  <1>13. \A j \in Inodes : j # i => data'[j] = data[j]
    BY <1>5 DEF IInv, TypeOK, FsTypeOK
  <1>14. data'[i] = <<>>
    BY <1>5 DEF IInv, TypeOK, FsTypeOK
  <1>15. TypeOK'
    <2>1. data' \in [Inodes -> Seq(Blocks)]
      BY <1>5 DEF IInv, TypeOK, FsTypeOK
    <2>2. dir' \in [Names -> Inodes \cup {NoInode}] /\ synced' \in SUBSET Inodes
      BY <1>5, <1>3 DEF IInv, TypeOK, FsTypeOK
    <2>3. ino' \in [Writers -> Inodes \cup {NoInode}]
      BY <1>1 DEF IInv, TypeOK
    <2>4. pc' \in [Writers -> PCs]
      BY DEF OpenTemp, Goto, IInv, TypeOK, PCs
    <2> QED
      BY <1>2, <1>5, <2>1, <2>2, <2>3, <2>4 DEF IInv, TypeOK, FsTypeOK, readerVars
  <1>16. NamesInv'
    BY <1>2, KeepNames DEF IInv
  <1>17. LinksInv'
    BY <1>3, <1>5, <1>10, <1>11, <1>12 DEF IInv, LinksInv
  <1>18. TempsInv'
    <2>1. \A u \in Writers : HasTemp(u)' =>
            /\ ino'[u] \in Inodes
            /\ \A m \in Names : dir'[m] = ino'[u] \/ durDir'[m] = ino'[u] => m = op'[u].tmp
      <3> SUFFICES ASSUME NEW u \in Writers, HasTemp(u)'
                   PROVE  /\ ino'[u] \in Inodes
                          /\ \A m \in Names : dir'[m] = ino'[u] \/ durDir'[m] = ino'[u] => m = op'[u].tmp
        OBVIOUS
      <3>1. CASE u = t
        BY <3>1, <1>2, <1>5, <1>10, <1>11, <1>12
      <3>2. CASE u # t
        <4>1. HasTemp(u) /\ ino[u] # i
          BY <3>2, <1>2, <1>7 DEF HasTemp
        <4> QED
          BY <3>2, <4>1, <1>2, <1>5, <1>11 DEF IInv, TempsInv
      <3> QED
        BY <3>1, <3>2
    <2>2. \A u \in Writers : Named(u)' => dir'[op'[u].tmp] = ino'[u]
      <3> SUFFICES ASSUME NEW u \in Writers, Named(u)' PROVE dir'[op'[u].tmp] = ino'[u]
        OBVIOUS
      <3>1. CASE u = t
        BY <3>1, <1>2, <1>3, <1>11
      <3>2. CASE u # t
        <4>1. Named(u) /\ pc[u] # "idle" /\ op[u].tmp \in Names
          BY <3>2, <1>2, TempName DEF Named, IInv
        <4>2. op[u].tmp # n
          BY <3>2, <4>1, <1>2 DEF IInv, NamesInv
        <4> QED
          BY <3>2, <4>1, <4>2, <1>2, <1>11 DEF IInv, TempsInv
      <3> QED
        BY <3>1, <3>2
    <2>3. \A u, w \in Writers : u # w /\ HasTemp(u)' /\ HasTemp(w)' => ino'[u] # ino'[w]
      BY <1>2, <1>7 DEF IInv, TempsInv, HasTemp
    <2>4. \A u \in Writers : Filling(u)' =>
            /\ data'[ino'[u]] = Fill(written'[u], op'[u].val)
            /\ written'[u] <= Size[op'[u].val]
            /\ pc'[u] # "write" => written'[u] = Size[op'[u].val]
            /\ "power" \in Faults /\ pc'[u] \in {"close", "rename"} => ino'[u] \in synced'
      <3> SUFFICES ASSUME NEW u \in Writers, Filling(u)'
                   PROVE  /\ data'[ino'[u]] = Fill(written'[u], op'[u].val)
                          /\ written'[u] <= Size[op'[u].val]
                          /\ pc'[u] # "write" => written'[u] = Size[op'[u].val]
                          /\ "power" \in Faults /\ pc'[u] \in {"close", "rename"} => ino'[u] \in synced'
        OBVIOUS
      <3>1. CASE u = t
        <4>1. written[t] = 0
          BY <1>2 DEF IInv, TempsInv
        <4>2. op[t].val \in Values
          BY <1>2 DEF IInv, NamesInv
        <4>3. Fill(0, op[t].val) = <<>>
          BY DEF Fill
        <4>4. 0 <= Size[op[t].val]
          BY <4>2, AtomicWriteAssumption
        <4> QED
          BY <3>1, <4>1, <4>3, <4>4, <1>2, <1>14
      <3>2. CASE u # t
        <4>1. Filling(u) /\ ino[u] # i /\ ino[u] \in Inodes
          BY <3>2, <1>2, <1>7 DEF Filling, HasTemp, IInv, TempsInv
        <4> QED
          BY <3>2, <4>1, <1>2, <1>5, <1>13 DEF IInv, TempsInv
      <3> QED
        BY <3>1, <3>2
    <2>5. \A u \in Writers : "power" \in Faults /\ pc'[u] # "idle" => op'[u].durable
      BY <1>2 DEF IInv, TempsInv
    <2>6. \A u \in Writers : pc'[u] # "remove" => attempt'[u] < Attempts
      BY <1>2 DEF IInv, TempsInv
    <2>7. \A u \in Writers : pc'[u] \in {"idle", "open"} => written'[u] = 0
      BY <1>2 DEF IInv, TempsInv
    <2> QED
      BY <2>1, <2>2, <2>3, <2>4, <2>5, <2>6, <2>7 DEF TempsInv
  <1>19. DestInv'
    <2>1. dir'[Dest] = dir[Dest] /\ durDir'[Dest] = durDir[Dest]
      BY <1>3, <1>5, <1>11 DEF Names
    <2>2. dir[Dest] \in Inodes \cup {NoInode} /\ durDir[Dest] \in Inodes \cup {NoInode}
      BY DEF IInv, TypeOK, FsTypeOK, Names
    <2> QED
      BY <2>1, <2>2, <1>5, <1>9, <1>13 DEF IInv, DestInv, DestWhole
  <1>20. ReadersInv'
    <2>1. UNCHANGED <<rpc, rino, rsize, rbuf>>
      BY <1>2 DEF readerVars
    <2>2. \A r \in Readers : Reading(r) => rino[r] \in Inodes /\ data'[rino[r]] = data[rino[r]]
      BY <1>8, <1>13 DEF IInv, ReadersInv
    <2>3. \A u \in Writers : HasTemp(u)' => (u # t => HasTemp(u) /\ ino'[u] = ino[u])
      BY <1>2 DEF HasTemp
    <2>4. SnapshotRead'
      BY <2>1, <2>2 DEF IInv, ReadersInv, SnapshotRead, Reading
    <2>5. \A r \in Readers : Reading(r) => \A m \in Names : dir'[m] = rino[r] => m = Dest
      BY <1>8, <1>11 DEF IInv, ReadersInv
    <2>6. \A r \in Readers : Reading(r) => \A u \in Writers : HasTemp(u)' => ino'[u] # rino[r]
      BY <2>3, <1>2, <1>8 DEF IInv, ReadersInv
    <2> QED
      BY <2>1, <2>2, <2>4, <2>5, <2>6 DEF IInv, ReadersInv, Reading
  <1> QED
    BY <1>15, <1>16, <1>17, <1>18, <1>19, <1>20 DEF IInv

(* A write goes to the call's own file.                                      *)
LEMMA WriteStep ==
    ASSUME IInv, NEW t \in Writers, NEW len \in 1 .. MaxSize, WriteSome(t, len)
    PROVE  IInv'
  <1> DEFINE i == ino[t]
             v == op[t].val
             n == written[t]
  <1>1. /\ pc[t] = "write" /\ pc' = pc
        /\ n + len <= Size[v]
        /\ WriteAt(i, n, len, v)
        /\ UNCHANGED <<counter, op, ino, attempt, result, readerVars>>
    BY DEF WriteSome, Goto, IInv, TypeOK
  <1>2. /\ data' = [data EXCEPT ![i] = Overlay(data[i], n, len, v)]
        /\ synced' = synced \ {i}
        /\ dir' = dir /\ durDir' = durDir
    BY <1>1 DEF WriteAt
  <1>3. i \in Inodes /\ v \in Values /\ n \in Nat /\ len \in Nat /\ data[i] = Fill(n, v)
    <2>1. i \in Inodes /\ data[i] = Fill(n, v)
      BY <1>1 DEF IInv, TempsInv, HasTemp, Filling
    <2>2. v \in Values
      BY <1>1 DEF IInv, NamesInv
    <2>3. n \in Nat
      BY DEF IInv, TypeOK
    <2>4. len \in Nat
      BY AtomicWriteAssumption
    <2> QED
      BY <2>1, <2>2, <2>3, <2>4
  <1>4. data'[i] = Fill(n + len, v)
    BY <1>2, <1>3, OverlayFill DEF IInv, TypeOK, FsTypeOK
  <1>5. \A j \in Inodes : j # i => data'[j] = data[j]
    BY <1>2 DEF IInv, TypeOK, FsTypeOK
  <1>6. /\ written'[t] = n + len
        /\ \A u \in Writers : u # t => written'[u] = written[u]
        /\ written' \in [Writers -> Nat]
    BY <1>3 DEF WriteSome, IInv, TypeOK
  <1>7. TypeOK'
    <2>1. v \in Blocks /\ n + len \in Nat
      BY <1>3 DEF Blocks
    <2>2. Fill(n + len, v) \in Seq(Blocks)
      BY <2>1, FillType
    <2>3. data' \in [Inodes -> Seq(Blocks)]
      BY <1>2, <1>3, <1>4, <2>2 DEF IInv, TypeOK, FsTypeOK
    <2> QED
      BY <1>1, <1>2, <1>6, <2>3 DEF IInv, TypeOK, FsTypeOK, readerVars
  <1>8. NamesInv'
    BY <1>1, KeepNames DEF IInv
  <1>9. LinksInv'
    BY <1>2, KeepLinks DEF IInv
  <1>10. TempsInv'
    <2>1. \A u \in Writers : HasTemp(u)' =>
            /\ ino'[u] \in Inodes
            /\ \A m \in Names : dir'[m] = ino'[u] \/ durDir'[m] = ino'[u] => m = op'[u].tmp
      BY <1>1, <1>2 DEF IInv, TempsInv, HasTemp
    <2>2. \A u \in Writers : Named(u)' => dir'[op'[u].tmp] = ino'[u]
      BY <1>1, <1>2 DEF IInv, TempsInv, Named
    <2>3. \A u, w \in Writers : u # w /\ HasTemp(u)' /\ HasTemp(w)' => ino'[u] # ino'[w]
      BY <1>1 DEF IInv, TempsInv, HasTemp
    <2>4. \A u \in Writers : Filling(u)' =>
            /\ data'[ino'[u]] = Fill(written'[u], op'[u].val)
            /\ written'[u] <= Size[op'[u].val]
            /\ pc'[u] # "write" => written'[u] = Size[op'[u].val]
            /\ "power" \in Faults /\ pc'[u] \in {"close", "rename"} => ino'[u] \in synced'
      <3> SUFFICES ASSUME NEW u \in Writers, Filling(u)'
                   PROVE  /\ data'[ino'[u]] = Fill(written'[u], op'[u].val)
                          /\ written'[u] <= Size[op'[u].val]
                          /\ pc'[u] # "write" => written'[u] = Size[op'[u].val]
                          /\ "power" \in Faults /\ pc'[u] \in {"close", "rename"} => ino'[u] \in synced'
        OBVIOUS
      <3>1. CASE u = t
        BY <3>1, <1>1, <1>4, <1>6
      <3>2. CASE u # t
        <4>1. Filling(u) /\ ino[u] # i /\ ino[u] \in Inodes
          BY <3>2, <1>1 DEF Filling, HasTemp, IInv, TempsInv
        <4> QED
          BY <3>2, <4>1, <1>1, <1>2, <1>5, <1>6 DEF IInv, TempsInv
      <3> QED
        BY <3>1, <3>2
    <2>5. \A u \in Writers :
            /\ "power" \in Faults /\ pc'[u] # "idle" => op'[u].durable
            /\ pc'[u] # "remove" => attempt'[u] < Attempts
            /\ pc'[u] \in {"idle", "open"} => written'[u] = 0
      BY <1>1, <1>6 DEF IInv, TempsInv
    <2> QED
      BY <2>1, <2>2, <2>3, <2>4, <2>5 DEF TempsInv
  <1>11. DestInv'
    <2>1. dir[Dest] # i /\ durDir[Dest] # i
      BY <1>1, TempName DEF IInv, TempsInv, HasTemp, Names
    <2>2. dir[Dest] \in Inodes \cup {NoInode} /\ durDir[Dest] \in Inodes \cup {NoInode}
      BY DEF IInv, TypeOK, FsTypeOK, Names
    <2> QED
      BY <1>2, <1>5, <2>1, <2>2 DEF IInv, DestInv, DestWhole
  <1>12. ReadersInv'
    <2>1. UNCHANGED <<rpc, rino, rsize, rbuf>>
      BY <1>1 DEF readerVars
    <2>2. \A r \in Readers : Reading(r) => data'[rino[r]] = data[rino[r]]
      BY <1>1, <1>5 DEF IInv, ReadersInv, HasTemp
    <2>3. SnapshotRead'
      BY <2>1, <2>2 DEF IInv, ReadersInv, SnapshotRead, Reading
    <2> QED
      BY <2>1, <2>2, <2>3, <1>1, <1>2 DEF IInv, ReadersInv, Reading, HasTemp
  <1> QED
    BY <1>7, <1>8, <1>9, <1>10, <1>11, <1>12 DEF IInv

(* A flush brings it to the disk.                                            *)
LEMMA FlushStep ==
    ASSUME IInv, NEW t \in Writers, FlushTemp(t)
    PROVE  IInv'
  <1>1. /\ pc[t] = "flush" /\ pc'[t] = "close"
        /\ \A u \in Writers : u # t => pc'[u] = pc[u]
        /\ synced' = synced \cup {ino[t]}
        /\ UNCHANGED <<dir, durDir, data, counter, op, ino, written, attempt, result, readerVars>>
    BY DEF FlushTemp, Fsync, Goto, IInv, TypeOK, readerVars
  <1>2. ino[t] \in Inodes
    BY <1>1 DEF IInv, TempsInv, HasTemp
  <1>3. TypeOK'
    BY <1>1, <1>2 DEF FlushTemp, Goto, IInv, TypeOK, FsTypeOK, PCs, readerVars
  <1>4. NamesInv'
    BY <1>1, KeepNames DEF IInv
  <1>5. LinksInv'
    BY <1>1, KeepLinks DEF IInv
  <1>6. \A u \in Writers : /\ HasTemp(u)' <=> HasTemp(u)
                           /\ Named(u)' <=> Named(u)
                           /\ Filling(u)' <=> Filling(u)
    BY <1>1 DEF HasTemp, Named, Filling
  <1>7. TempsInv'
    <2>1. \A u \in Writers : Filling(u) =>
            /\ pc'[u] # "write" => written[u] = Size[op[u].val]
            /\ "power" \in Faults /\ pc'[u] \in {"close", "rename"} => ino[u] \in synced'
      BY <1>1 DEF IInv, TempsInv
    <2>2. \A u \in Writers :
            /\ "power" \in Faults /\ pc'[u] # "idle" => op[u].durable
            /\ pc'[u] # "remove" => attempt[u] < Attempts
            /\ pc'[u] \in {"idle", "open"} => written[u] = 0
      BY <1>1 DEF IInv, TempsInv
    <2> QED
      BY <1>1, <1>6, <2>1, <2>2 DEF IInv, TempsInv
  <1>8. DestInv'
    BY <1>1 DEF IInv, DestInv, DestWhole
  <1>9. ReadersInv'
    BY <1>1, <1>6 DEF IInv, ReadersInv, SnapshotRead, Reading, readerVars
  <1> QED
    BY <1>3, <1>4, <1>5, <1>7, <1>8, <1>9 DEF IInv

(* What is renamed is complete, and synced if it has to be.                  *)
LEMMA RenameStep ==
    ASSUME IInv, NEW t \in Writers, Rename(t)
    PROVE  IInv'
  <1> DEFINE n == op[t].tmp
             i == ino[t]
  <1>1. /\ Others(t)
        /\ pc[t] = "rename" /\ pc'[t] = "idle" /\ attempt'[t] = 0 /\ written'[t] = 0
        /\ UNCHANGED <<counter, readerVars>>
    BY ReturnFrame DEF Rename, ReturnValues, IInv
  <1>2. /\ dir' = [dir EXCEPT ![Dest] = dir[n], ![n] = NoInode]
        /\ UNCHANGED <<durDir, data, synced>>
    BY DEF Rename, RenameOver
  <1>3. n \in Names /\ n # Dest /\ Dest \in Names
    BY <1>1, TempName DEF IInv, Names
  <1>4. i \in Inodes /\ i # NoInode /\ dir[n] = i
    BY <1>1, AtomicWriteAssumption DEF IInv, TempsInv, HasTemp, Named
  <1>5. /\ dir'[Dest] = i /\ dir'[n] = NoInode
        /\ \A m \in Names : m # n /\ m # Dest => dir'[m] = dir[m]
    BY <1>2, <1>3, <1>4 DEF IInv, TypeOK, FsTypeOK
  <1>6. \A m \in Names : m # n => dir[m] # i
    BY <1>3, <1>4 DEF IInv, LinksInv
  <1>7. TypeOK'
    <2>1. dir' \in [Names -> Inodes \cup {NoInode}]
      BY <1>2, <1>3, <1>4 DEF IInv, TypeOK, FsTypeOK
    <2>2. Return(t, "rename", "ok")
      BY DEF Rename
    <2> QED
      BY <2>1, <2>2, <1>1, <1>2, ReturnFrame DEF IInv, TypeOK, FsTypeOK, readerVars, ReturnValues
  <1>8. NamesInv'
    BY <1>1, KeepNames DEF IInv, Others
  <1>9. LinksInv'
    <2>1. \A m, k \in Names : dir'[m] # NoInode /\ dir'[m] = dir'[k] => m = k
      BY <1>3, <1>4, <1>5, <1>6 DEF IInv, LinksInv
    <2>2. \A m, k \in Names : dir'[m] # NoInode /\ dir'[m] = durDir'[k] /\ m # Dest => m = k
      BY ZenonT(60), <1>2, <1>3, <1>5 DEF IInv, LinksInv
    <2> QED
      BY <2>1, <2>2, <1>2 DEF IInv, LinksInv
  <1>10. TempsInv'
    <2>1. \A u \in Writers : HasTemp(u)' => u # t /\ HasTemp(u) /\ ino[u] # i
      BY <1>1 DEF IInv, TempsInv, HasTemp, Others
    <2>2. \A u \in Writers : HasTemp(u)' =>
            /\ ino'[u] \in Inodes
            /\ \A m \in Names : dir'[m] = ino'[u] \/ durDir'[m] = ino'[u] => m = op'[u].tmp
      <3> SUFFICES ASSUME NEW u \in Writers, HasTemp(u)'
                   PROVE  /\ ino'[u] \in Inodes
                          /\ \A m \in Names :
                                dir'[m] = ino'[u] \/ durDir'[m] = ino'[u] => m = op'[u].tmp
        OBVIOUS
      <3>1. /\ ino[u] \in Inodes /\ ino'[u] = ino[u] /\ op'[u] = op[u]
            /\ \A m \in Names : dir[m] = ino[u] \/ durDir[m] = ino[u] => m = op[u].tmp
        BY <1>1, <2>1 DEF IInv, TempsInv, Others
      <3>2. ino[u] # NoInode
        BY <3>1, AtomicWriteAssumption
      <3> QED
        BY ZenonT(60), <3>1, <3>2, <2>1, <1>2, <1>5
    <2>3. \A u \in Writers : Named(u)' => dir'[op'[u].tmp] = ino'[u]
      <3> SUFFICES ASSUME NEW u \in Writers, Named(u)' PROVE dir'[op'[u].tmp] = ino'[u]
        OBVIOUS
      <3>1. u # t
        BY <1>1 DEF Named
      <3>2. Named(u) /\ pc[u] # "idle"
        BY <3>1, <1>1 DEF Named, Others
      <3>3. op[u].tmp # n /\ op[u].tmp # Dest /\ op[u].tmp \in Names
        BY <3>1, <3>2, <1>1, TempName DEF IInv, NamesInv
      <3> QED
        BY <3>1, <3>2, <3>3, <1>1, <1>5 DEF IInv, TempsInv, Others
    <2>4. \A u, w \in Writers : u # w /\ HasTemp(u)' /\ HasTemp(w)' => ino'[u] # ino'[w]
      BY <1>1, <2>1 DEF IInv, TempsInv, Others
    <2>5. \A u \in Writers : Filling(u)' =>
            /\ data'[ino'[u]] = Fill(written'[u], op'[u].val)
            /\ written'[u] <= Size[op'[u].val]
            /\ pc'[u] # "write" => written'[u] = Size[op'[u].val]
            /\ "power" \in Faults /\ pc'[u] \in {"close", "rename"} => ino'[u] \in synced'
      BY <1>1, <1>2 DEF IInv, TempsInv, Others, Filling
    <2>6. \A u \in Writers :
            /\ "power" \in Faults /\ pc'[u] # "idle" => op'[u].durable
            /\ pc'[u] # "remove" => attempt'[u] < Attempts
            /\ pc'[u] \in {"idle", "open"} => written'[u] = 0
      BY <1>1, AtomicWriteAssumption DEF IInv, TempsInv, Others
    <2> QED
      BY <2>2, <2>3, <2>4, <2>5, <2>6 DEF TempsInv
  <1>11. DestInv'
    <2>1. /\ data[i] = Fill(Size[op[t].val], op[t].val)
          /\ "power" \in Faults => i \in synced
      BY <1>1 DEF IInv, TempsInv, Filling
    <2>2. op[t].val \in Values
      BY <1>1 DEF IInv, NamesInv
    <2>3. IsWhole(data[i])
      BY <2>1, <2>2 DEF IsWhole, Content, Fill
    <2> QED
      BY <2>1, <2>3, <1>2, <1>5 DEF IInv, DestInv, DestWhole
  <1>12. ReadersInv'
    <2>1. \A u \in Writers : HasTemp(u)' => HasTemp(u) /\ ino'[u] = ino[u]
      BY <1>1 DEF HasTemp, Others
    <2>2. UNCHANGED <<rpc, rino, rsize, rbuf>>
      BY <1>1 DEF readerVars
    <2>3. \A r \in Readers : Reading(r) => \A m \in Names : dir'[m] = rino[r] => m = Dest
      BY <1>5, AtomicWriteAssumption DEF IInv, ReadersInv
    <2>4. SnapshotRead'
      BY <2>2, <1>2 DEF IInv, ReadersInv, SnapshotRead
    <2> QED
      BY <2>1, <2>2, <2>3, <2>4, <1>2 DEF IInv, ReadersInv, Reading
  <1> QED
    BY <1>7, <1>8, <1>9, <1>10, <1>11, <1>12 DEF IInv

(* The name of a failed call's temporary file goes away.                    *)
LEMMA UnlinkStep ==
    ASSUME IInv, TypeOK', NEW t \in Writers, Others(t),
           pc[t] \in {"remove", "removeOpen"},
           Unlink(op[t].tmp),
           UNCHANGED <<counter, readerVars>>,
           pc'[t] \in {"idle", "unwind"},
           pc'[t] = "idle" => written'[t] = 0,
           pc'[t] = "unwind" => ino'[t] = ino[t] /\ op'[t] = op[t],
           attempt'[t] < Attempts
    PROVE  IInv'
  <1> DEFINE n == op[t].tmp
  <1>1. dir' = [dir EXCEPT ![n] = NoInode] /\ UNCHANGED <<durDir, data, synced>>
    BY DEF Unlink
  <1>2. n \in Names /\ n # Dest /\ Dest \in Names
    BY TempName DEF IInv, Names
  <1>3. dir'[n] = NoInode /\ \A m \in Names : m # n => dir'[m] = dir[m]
    BY <1>1, <1>2 DEF IInv, TypeOK, FsTypeOK
  <1>4. NamesInv'
    BY KeepNames DEF IInv, Others
  <1>5. LinksInv'
    BY <1>1, <1>3 DEF IInv, LinksInv
  <1>6. \A u \in Writers : HasTemp(u)' => HasTemp(u) /\ ino'[u] = ino[u] /\ op'[u] = op[u]
    BY DEF HasTemp, Others
  <1>7. TempsInv'
    <2>1. \A u \in Writers : HasTemp(u)' =>
            /\ ino'[u] \in Inodes
            /\ \A m \in Names : dir'[m] = ino'[u] \/ durDir'[m] = ino'[u] => m = op'[u].tmp
      <3>1. \A u \in Writers : HasTemp(u)' => ino[u] \in Inodes /\ ino[u] # NoInode
        BY <1>6, AtomicWriteAssumption DEF IInv, TempsInv
      <3> QED
        BY <3>1, <1>1, <1>3, <1>6 DEF IInv, TempsInv
    <2>2. \A u \in Writers : Named(u)' => dir'[op'[u].tmp] = ino'[u]
      <3> SUFFICES ASSUME NEW u \in Writers, Named(u)' PROVE dir'[op'[u].tmp] = ino'[u]
        OBVIOUS
      <3>1. u # t
        BY DEF Named
      <3>2. Named(u) /\ pc[u] # "idle"
        BY <3>1 DEF Named, Others
      <3>3. op[u].tmp # n /\ op[u].tmp \in Names
        BY <3>1, <3>2, TempName DEF IInv, NamesInv
      <3> QED
        BY <3>1, <3>2, <3>3, <1>3 DEF IInv, TempsInv, Others
    <2>3. \A u, w \in Writers : u # w /\ HasTemp(u)' /\ HasTemp(w)' => ino'[u] # ino'[w]
      BY <1>6 DEF IInv, TempsInv
    <2>4. \A u \in Writers : Filling(u)' =>
            /\ data'[ino'[u]] = Fill(written'[u], op'[u].val)
            /\ written'[u] <= Size[op'[u].val]
            /\ pc'[u] # "write" => written'[u] = Size[op'[u].val]
            /\ "power" \in Faults /\ pc'[u] \in {"close", "rename"} => ino'[u] \in synced'
      BY <1>1 DEF IInv, TempsInv, Others, Filling
    <2>5. \A u \in Writers :
            /\ "power" \in Faults /\ pc'[u] # "idle" => op'[u].durable
            /\ pc'[u] # "remove" => attempt'[u] < Attempts
            /\ pc'[u] \in {"idle", "open"} => written'[u] = 0
      BY DEF IInv, TempsInv, Others
    <2> QED
      BY <2>1, <2>2, <2>3, <2>4, <2>5 DEF TempsInv
  <1>8. DestInv'
    BY <1>1, <1>2, <1>3 DEF IInv, DestInv, DestWhole
  <1>9. ReadersInv'
    <2>1. UNCHANGED <<rpc, rino, rsize, rbuf>>
      BY DEF readerVars
    <2>2. \A r \in Readers : Reading(r) => \A m \in Names : dir'[m] = rino[r] => m = Dest
      BY <1>3, AtomicWriteAssumption DEF IInv, ReadersInv
    <2> QED
      BY <2>1, <2>2, <1>1, <1>6 DEF IInv, ReadersInv, SnapshotRead, Reading
  <1> QED
    BY <1>4, <1>5, <1>7, <1>8, <1>9 DEF IInv

(* What is removed is the call's own temporary file.                         *)
LEMMA RemoveStep ==
    ASSUME IInv, NEW t \in Writers, RemoveTemp(t) \/ RemoveTempOpen(t)
    PROVE  IInv'
  <1>1. CASE RemoveTemp(t)
    <2>1. Return(t, "remove", "fail") /\ Unlink(op[t].tmp)
      BY <1>1 DEF RemoveTemp
    <2>2. /\ Others(t)
          /\ pc[t] = "remove" /\ pc'[t] = "idle" /\ attempt'[t] = 0 /\ written'[t] = 0
          /\ UNCHANGED <<counter, readerVars>>
      BY <2>1, ReturnFrame DEF ReturnValues, IInv
    <2>3. TypeOK'
      <3>1. dir' \in [Names -> Inodes \cup {NoInode}] /\ UNCHANGED <<durDir, data, synced>>
        BY <2>1 DEF Unlink, IInv, TypeOK, FsTypeOK
      <3> QED
        BY <2>1, <2>2, <3>1, ReturnFrame DEF IInv, TypeOK, FsTypeOK, readerVars, ReturnValues
    <2> QED
      BY <2>1, <2>2, <2>3, UnlinkStep, AtomicWriteAssumption
  <1>2. CASE RemoveTempOpen(t)
    <2>1. /\ pc[t] = "removeOpen" /\ pc'[t] = "unwind" /\ Others(t)
          /\ UNCHANGED <<readerVars, counter, op, ino, written, attempt>>
      BY <1>2 DEF RemoveTempOpen, Goto, IInv, TypeOK, Others, readerVars
    <2>2. TypeOK'
      <3>1. FsTypeOK(Names, Blocks)'
        BY <1>2 DEF RemoveTempOpen, Unlink, fsVars, IInv, TypeOK, FsTypeOK
      <3> QED
        BY <1>2, <3>1 DEF RemoveTempOpen, Goto, IInv, TypeOK, PCs, readerVars
    <2>3. attempt'[t] < Attempts
      BY <2>1 DEF IInv, TempsInv
    <2>4. CASE Unlink(op[t].tmp)
      BY <2>1, <2>2, <2>3, <2>4, UnlinkStep
    <2>5. CASE UNCHANGED fsVars
      BY <2>1, <2>2, <2>3, <2>5, QuietStep DEF HasTemp, Named, Filling
    <2> QED
      BY <1>2, <2>4, <2>5 DEF RemoveTempOpen
  <1> QED
    BY <1>1, <1>2

(* ---------------------------- readers' steps --------------------------- *)

(* A reader's step leaves everything of the writers.                         *)
LEMMA ReaderFrame ==
    ASSUME IInv, UNCHANGED <<fsVars, writerVars>>
    PROVE  NamesInv' /\ LinksInv' /\ TempsInv' /\ DestInv'
  <1> USE DEF IInv, fsVars, writerVars
  <1>1. NamesInv'
    BY DEF NamesInv
  <1>2. LinksInv'
    BY DEF LinksInv
  <1>3. TempsInv'
    BY DEF TempsInv, HasTemp, Named, Filling
  <1>4. DestInv'
    BY DEF DestInv, DestWhole
  <1> QED
    BY <1>1, <1>2, <1>3, <1>4

(* A reader that has done has no file any more.                              *)
LEMMA ReadEnds ==
    ASSUME IInv, NEW r \in Readers,
           rpc' = [rpc EXCEPT ![r] = "idle"],
           \A q \in Readers : q # r =>
              rino'[q] = rino[q] /\ rsize'[q] = rsize[q] /\ rbuf'[q] = rbuf[q],
           UNCHANGED <<fsVars, writerVars>>
    PROVE  ReadersInv'
  <1>1. \A q \in Readers : Reading(q)' => q # r /\ Reading(q)
    BY DEF Reading, IInv, TypeOK
  <1>2. \A q \in Readers : q # r => rpc'[q] = rpc[q]
    BY DEF IInv, TypeOK
  <1>3. SnapshotRead'
    BY <1>1, <1>2 DEF IInv, ReadersInv, SnapshotRead, Reading, fsVars
  <1>4. \A t \in Writers : (HasTemp(t)' <=> HasTemp(t)) /\ ino'[t] = ino[t]
    BY DEF HasTemp, writerVars
  <1> QED
    BY <1>1, <1>2, <1>3, <1>4 DEF IInv, ReadersInv, fsVars

(* A reader opens what the destination is at that moment,                    *)
LEMMA ReadOpenStep ==
    ASSUME IInv, NEW r \in Readers, ReadOpen(r)
    PROVE  IInv'
  <1> DEFINE i == dir[Dest]
  <1>1. /\ rpc[r] = "idle" /\ rpc'[r] = "size" /\ rino'[r] = i /\ rbuf'[r] = <<>>
        /\ \A q \in Readers : q # r =>
              rpc'[q] = rpc[q] /\ rino'[q] = rino[q] /\ rbuf'[q] = rbuf[q]
        /\ UNCHANGED <<fsVars, writerVars, rsize>>
        /\ i # NoInode
    BY DEF ReadOpen, RGoto, IInv, TypeOK, fsVars, writerVars
  <1>2. i \in Inodes /\ Dest \in Names
    BY <1>1 DEF IInv, TypeOK, FsTypeOK, Names
  <1>3. TypeOK'
    <2>1. rbuf' \in [Readers -> Seq(Blocks)]
      BY DEF ReadOpen, IInv, TypeOK
    <2>2. rino' \in [Readers -> Inodes \cup {NoInode}]
      BY <1>2 DEF ReadOpen, IInv, TypeOK
    <2> QED
      BY <1>1, <2>1, <2>2
      DEF ReadOpen, RGoto, IInv, TypeOK, FsTypeOK, fsVars, writerVars, ReturnValues
  <1>4. NamesInv' /\ LinksInv' /\ TempsInv' /\ DestInv'
    BY <1>1, ReaderFrame
  <1>5. ReadersInv'
    <2>1. IsWhole(data[i])
      BY <1>1 DEF IInv, DestInv, DestWhole
    <2>2. \A n \in Names : dir[n] = i => n = Dest
      BY <1>1, <1>2 DEF IInv, LinksInv
    <2>3. \A t \in Writers : HasTemp(t) => ino[t] # i
      BY <1>2, TempName DEF IInv, TempsInv, HasTemp
    <2>4. SnapshotRead'
      BY <1>1 DEF IInv, ReadersInv, SnapshotRead, fsVars
    <2>5. \A t \in Writers : (HasTemp(t)' <=> HasTemp(t)) /\ ino'[t] = ino[t]
      BY <1>1 DEF HasTemp, writerVars
    <2>6. data' = data /\ dir' = dir
      BY <1>1 DEF fsVars
    <2>7. ASSUME NEW q \in Readers, Reading(q)'
          PROVE  /\ rino'[q] \in Inodes
                 /\ IsWhole(data'[rino'[q]])
                 /\ \A n \in Names : dir'[n] = rino'[q] => n = Dest
                 /\ \A t \in Writers : HasTemp(t)' => ino'[t] # rino'[q]
                 /\ rpc'[q] = "size" => rbuf'[q] = <<>>
      <3>1. CASE q = r
        BY <3>1, <1>1, <1>2, <2>1, <2>2, <2>3, <2>5, <2>6
      <3>2. CASE q # r
        <4>1. Reading(q) /\ rpc'[q] = rpc[q] /\ rino'[q] = rino[q] /\ rbuf'[q] = rbuf[q]
          BY <3>2, <2>7, <1>1 DEF Reading
        <4> QED
          BY <4>1, <2>5, <2>6 DEF IInv, ReadersInv
      <3> QED
        BY <3>1, <3>2
    <2> QED
      BY <2>4, <2>7 DEF ReadersInv, IsWhole
  <1> QED
    BY <1>3, <1>4, <1>5 DEF IInv

(* may fail,                                                                 *)
LEMMA ReadFailsStep ==
    ASSUME IInv, NEW r \in Readers, NEW from, ReadFails(r, from)
    PROVE  IInv'
  <1>1. TypeOK'
    BY DEF ReadFails, RGoto, IInv, TypeOK, FsTypeOK, fsVars, writerVars, ReturnValues
  <1>2. NamesInv' /\ LinksInv' /\ TempsInv' /\ DestInv'
    BY ReaderFrame DEF ReadFails
  <1>3. /\ rpc' = [rpc EXCEPT ![r] = "idle"]
        /\ UNCHANGED <<fsVars, writerVars>>
        /\ \A q \in Readers : q # r =>
              rino'[q] = rino[q] /\ rsize'[q] = rsize[q] /\ rbuf'[q] = rbuf[q]
    BY DEF ReadFails, RGoto, IInv, TypeOK
  <1>4. ReadersInv'
    BY <1>3, ReadEnds
  <1> QED
    BY <1>1, <1>2, <1>4 DEF IInv

(* answers what it has read,                                                 *)
LEMMA ReadDoneStep ==
    ASSUME IInv, NEW r \in Readers, ReadDone(r)
    PROVE  IInv'
  <1>1. TypeOK'
    BY DEF ReadDone, RGoto, IInv, TypeOK, FsTypeOK, fsVars, writerVars, ReturnValues
  <1>2. NamesInv' /\ LinksInv' /\ TempsInv' /\ DestInv'
    BY ReaderFrame DEF ReadDone
  <1>3. /\ rpc' = [rpc EXCEPT ![r] = "idle"]
        /\ UNCHANGED <<fsVars, writerVars>>
        /\ \A q \in Readers : q # r =>
              rino'[q] = rino[q] /\ rsize'[q] = rsize[q] /\ rbuf'[q] = rbuf[q]
    BY DEF ReadDone, RGoto, IInv, TypeOK
  <1>4. ReadersInv'
    BY <1>3, ReadEnds
  <1> QED
    BY <1>1, <1>2, <1>4 DEF IInv

(* A step of readall inside the call: the open file stays the same.         *)
LEMMA ReadOn ==
    ASSUME IInv, NEW r \in Readers, Reading(r),
           UNCHANGED <<fsVars, writerVars, rino>>,
           rpc'[r] = "read",
           \A q \in Readers : q # r => rpc'[q] = rpc[q] /\ rsize'[q] = rsize[q] /\ rbuf'[q] = rbuf[q],
           Len(data[rino[r]]) = rsize'[r],
           Len(rbuf'[r]) <= rsize'[r],
           rbuf'[r] = SubSeq(data[rino[r]], 1, Len(rbuf'[r]))
    PROVE  ReadersInv'
  <1>1. \A q \in Readers : Reading(q)' => Reading(q) /\ (rpc'[q] = "size" => rpc[q] = "size")
    BY DEF Reading
  <1>2. SnapshotRead'
    BY DEF IInv, ReadersInv, SnapshotRead, fsVars
  <1>3. \A t \in Writers : (HasTemp(t)' <=> HasTemp(t)) /\ ino'[t] = ino[t]
    BY DEF HasTemp, writerVars
  <1> QED
    BY <1>1, <1>2, <1>3 DEF IInv, ReadersInv, fsVars

(* and has asked for the size of that file.                                  *)
LEMMA ReadSizeStep ==
    ASSUME IInv, NEW r \in Readers, ReadSize(r)
    PROVE  IInv'
  <1>1. /\ rpc[r] = "size" /\ rpc'[r] = "read" /\ rsize'[r] = Len(data[rino[r]])
        /\ \A q \in Readers : q # r => rpc'[q] = rpc[q] /\ rsize'[q] = rsize[q]
        /\ UNCHANGED <<fsVars, writerVars, rino, rbuf>>
    BY DEF ReadSize, RGoto, IInv, TypeOK, fsVars, writerVars
  <1>2. Reading(r) /\ rino[r] \in Inodes /\ rbuf[r] = <<>>
    BY <1>1 DEF Reading, IInv, ReadersInv
  <1>3. data[rino[r]] \in Seq(Blocks)
    BY <1>2 DEF IInv, TypeOK, FsTypeOK
  <1>4. TypeOK'
    BY <1>3 DEF ReadSize, RGoto, IInv, TypeOK, FsTypeOK, fsVars, writerVars
  <1>5. rbuf'[r] = SubSeq(data[rino[r]], 1, Len(rbuf'[r])) /\ Len(rbuf'[r]) <= rsize'[r]
    BY <1>1, <1>2, <1>3
  <1>6. ReadersInv'
    BY <1>1, <1>2, <1>5, ReadOn
  <1>7. NamesInv' /\ LinksInv' /\ TempsInv' /\ DestInv'
    BY <1>1, ReaderFrame
  <1> QED
    BY <1>4, <1>6, <1>7 DEF IInv

(* A prefix and what follows it are a longer prefix.                         *)
LEMMA PrefixGrows ==
    ASSUME NEW S, NEW s \in Seq(S), NEW k \in Nat, NEW len \in Nat, k + len <= Len(s)
    PROVE  /\ SubSeq(s, 1, k) \o SubSeq(s, k + 1, k + len) = SubSeq(s, 1, k + len)
           /\ SubSeq(s, 1, k + len) \in Seq(S)
           /\ Len(SubSeq(s, 1, k + len)) = k + len
  OBVIOUS

(* A reader reads on in that file.                                           *)
LEMMA ReadSomeStep ==
    ASSUME IInv, NEW r \in Readers, NEW len \in 1 .. MaxSize, ReadSome(r, len)
    PROVE  IInv'
  <1> DEFINE s == data[rino[r]]
             k == Len(rbuf[r])
  <1>1. /\ rpc[r] = "read" /\ rpc' = rpc
        /\ k + len <= rsize[r] /\ k + len <= Len(s)
        /\ rbuf'[r] = rbuf[r] \o SubSeq(s, k + 1, k + len)
        /\ \A q \in Readers : q # r => rbuf'[q] = rbuf[q]
        /\ UNCHANGED <<fsVars, writerVars, rino, rsize>>
    BY DEF ReadSome, RGoto, IInv, TypeOK, fsVars, writerVars
  <1>2. Reading(r) /\ rino[r] \in Inodes
    BY <1>1 DEF Reading, IInv, ReadersInv
  <1>3. s \in Seq(Blocks) /\ k \in Nat /\ len \in Nat
    BY <1>2, AtomicWriteAssumption DEF IInv, TypeOK, FsTypeOK
  <1>4. rbuf[r] = SubSeq(s, 1, k) /\ Len(s) = rsize[r]
    BY <1>1 DEF IInv, ReadersInv, SnapshotRead
  <1>5. /\ rbuf'[r] = SubSeq(s, 1, k + len)
        /\ rbuf'[r] \in Seq(Blocks)
        /\ Len(rbuf'[r]) = k + len
    <2>1. rbuf'[r] = SubSeq(s, 1, k) \o SubSeq(s, k + 1, k + len)
      BY <1>1, <1>4
    <2> HIDE DEF s, k
    <2>2. k + len <= Len(s)
      BY <1>1
    <2> QED
      BY <2>1, <2>2, <1>3, PrefixGrows
  <1>6. TypeOK'
    <2>1. rbuf' \in [Readers -> Seq(Blocks)]
      BY <1>5 DEF ReadSome, IInv, TypeOK
    <2> QED
      BY <1>1, <2>1 DEF ReadSome, IInv, TypeOK, FsTypeOK, fsVars, writerVars
  <1>7. ReadersInv'
    BY <1>1, <1>2, <1>4, <1>5, ReadOn
  <1>8. NamesInv' /\ LinksInv' /\ TempsInv' /\ DestInv'
    BY <1>1, ReaderFrame
  <1> QED
    BY <1>6, <1>7, <1>8 DEF IInv

(* ------------------------------- failures ------------------------------ *)

(* Processes that die take their calls with them, and nothing of the others. *)
LEMMA DieFrame ==
    ASSUME IInv, NEW ps \in SUBSET Pids, Die(ps)
    PROVE  /\ \A t \in Writers :
                 IF Proc[t] \in ps
                 THEN pc'[t] = "idle" /\ written'[t] = 0 /\ attempt'[t] = 0
                 ELSE /\ pc'[t] = pc[t] /\ op'[t] = op[t] /\ ino'[t] = ino[t]
                      /\ written'[t] = written[t] /\ attempt'[t] = attempt[t]
                      /\ counter'[Proc[t]] = counter[Proc[t]]
           /\ \A r \in Readers :
                 IF Proc[r] \in ps
                 THEN rpc'[r] = "idle"
                 ELSE /\ rpc'[r] = rpc[r] /\ rino'[r] = rino[r]
                      /\ rsize'[r] = rsize[r] /\ rbuf'[r] = rbuf[r]
           /\ counter' \in [Pids -> 0 .. MaxCalls]
           /\ pc' \in [Writers -> PCs]
           /\ op' \in [Writers -> [tmp : Names, val : Blocks, durable : BOOLEAN]]
           /\ ino' \in [Writers -> Inodes \cup {NoInode}]
           /\ written' \in [Writers -> Nat]
           /\ attempt' \in [Writers -> 0 .. Attempts]
           /\ result' \in [Writers -> ReturnValues]
           /\ rpc' \in [Readers -> {"idle", "size", "read"}]
           /\ rino' \in [Readers -> Inodes \cup {NoInode}]
           /\ rsize' \in [Readers -> Nat]
           /\ rbuf' \in [Readers -> Seq(Blocks)]
           /\ rresult' \in [Readers -> ReturnValues]
  <1>1. \A t \in Writers :
          IF Proc[t] \in ps
          THEN pc'[t] = "idle" /\ written'[t] = 0 /\ attempt'[t] = 0
          ELSE /\ pc'[t] = pc[t] /\ op'[t] = op[t] /\ ino'[t] = ino[t]
               /\ written'[t] = written[t] /\ attempt'[t] = attempt[t]
               /\ counter'[Proc[t]] = counter[Proc[t]]
    <2>1. \A t \in Writers : Proc[t] \in Pids
      BY AtomicWriteAssumption
    <2> QED
      BY <2>1 DEF Die
  <1>2. \A r \in Readers :
          IF Proc[r] \in ps
          THEN rpc'[r] = "idle"
          ELSE /\ rpc'[r] = rpc[r] /\ rino'[r] = rino[r]
               /\ rsize'[r] = rsize[r] /\ rbuf'[r] = rbuf[r]
    BY DEF Die
  <1>3. NoOp \in [tmp : Names, val : Blocks, durable : BOOLEAN]
    BY DEF NoOp, Names, Blocks
  <1>4. counter' \in [Pids -> 0 .. MaxCalls]
    BY AtomicWriteAssumption DEF Die, IInv, TypeOK
  <1>5. op' \in [Writers -> [tmp : Names, val : Blocks, durable : BOOLEAN]]
    BY <1>3 DEF Die, IInv, TypeOK
  <1>6. /\ pc' \in [Writers -> PCs]
        /\ ino' \in [Writers -> Inodes \cup {NoInode}]
        /\ written' \in [Writers -> Nat]
        /\ result' \in [Writers -> ReturnValues]
    BY DEF Die, IInv, TypeOK, PCs, ReturnValues
  <1>7. attempt' \in [Writers -> 0 .. Attempts]
    BY AtomicWriteAssumption DEF Die, IInv, TypeOK
  <1>8. /\ rpc' \in [Readers -> {"idle", "size", "read"}]
        /\ rino' \in [Readers -> Inodes \cup {NoInode}]
        /\ rsize' \in [Readers -> Nat]
        /\ rresult' \in [Readers -> ReturnValues]
    BY DEF Die, IInv, TypeOK, ReturnValues
  <1>9. rbuf' \in [Readers -> Seq(Blocks)]
    BY DEF Die, IInv, TypeOK
  <1> QED
    BY <1>1, <1>2, <1>4, <1>5, <1>6, <1>7, <1>8, <1>9

(* After a crash the files are as they were.                                 *)
LEMMA CrashStep ==
    ASSUME IInv, NEW p \in Pids, Crash(p)
    PROVE  IInv'
  <1>1. Die({p}) /\ {p} \in SUBSET Pids /\ UNCHANGED fsVars
    BY DEF Crash
  <1>2. /\ \A t \in Writers : pc'[t] # "idle" =>
              /\ pc'[t] = pc[t] /\ op'[t] = op[t] /\ ino'[t] = ino[t]
              /\ written'[t] = written[t] /\ attempt'[t] = attempt[t]
              /\ counter'[Proc[t]] = counter[Proc[t]]
        /\ \A t \in Writers : pc'[t] = "idle" /\ pc[t] # "idle" => written'[t] = 0 /\ attempt'[t] = 0
        /\ \A t \in Writers : pc'[t] = "idle" /\ pc[t] = "idle" =>
              written'[t] \in {0, written[t]} /\ attempt'[t] \in {0, attempt[t]}
        /\ \A r \in Readers : rpc'[r] # "idle" =>
              /\ rpc'[r] = rpc[r] /\ rino'[r] = rino[r]
              /\ rsize'[r] = rsize[r] /\ rbuf'[r] = rbuf[r]
    BY <1>1, DieFrame
  <1>3. TypeOK'
    BY <1>1, DieFrame DEF IInv, TypeOK, FsTypeOK, fsVars
  <1>4. NamesInv'
    BY <1>2, KeepNames DEF IInv
  <1>5. LinksInv'
    BY <1>1, KeepLinks DEF IInv, fsVars
  <1>6. TempsInv'
    <2>1. \A u \in Writers :
            /\ HasTemp(u)' => HasTemp(u) /\ ino'[u] = ino[u]
            /\ Named(u)' => Named(u)
            /\ Filling(u)' => Filling(u) /\ written'[u] = written[u]
      BY <1>2 DEF HasTemp, Named, Filling
    <2>2. \A u \in Writers : Filling(u)' /\ pc'[u] # "write" => written[u] = Size[op[u].val]
      BY <2>1, <1>2 DEF IInv, TempsInv, Filling
    <2>3. \A u \in Writers : pc'[u] # "remove" => attempt'[u] < Attempts
      BY <1>2, AtomicWriteAssumption DEF IInv, TempsInv
    <2>4. \A u \in Writers : pc'[u] \in {"idle", "open"} => written'[u] = 0
      BY <1>2 DEF IInv, TempsInv
    <2> QED
      BY <1>1, <1>2, <2>1, <2>2, <2>3, <2>4, KeepTemps DEF IInv
  <1>7. DestInv'
    BY <1>1, KeepDest DEF IInv
  <1>8. ReadersInv'
    <2>1. \A t \in Writers : HasTemp(t)' => HasTemp(t) /\ ino'[t] = ino[t]
      BY <1>2 DEF HasTemp
    <2>2. SnapshotRead'
      BY <1>1, <1>2 DEF IInv, ReadersInv, SnapshotRead, fsVars
    <2>3. \A r \in Readers : Reading(r)' =>
            Reading(r) /\ rpc'[r] = rpc[r] /\ rino'[r] = rino[r] /\ rbuf'[r] = rbuf[r]
      BY <1>2 DEF Reading
    <2>4. dir' = dir /\ data' = data
      BY <1>1 DEF fsVars
    <2> QED
      BY <2>1, <2>2, <2>3, <2>4 DEF IInv, ReadersInv, IsWhole
  <1> QED
    BY <1>3, <1>4, <1>5, <1>6, <1>7, <1>8 DEF IInv

(* After a power loss they are as they were on the disk.                     *)
LEMMA PowerLossStep ==
    ASSUME IInv, PowerLoss
    PROVE  IInv'
  <1>1. PICK cut \in [Inodes \ synced -> 0 .. MaxSize] : LosePower(cut)
    BY DEF PowerLoss
  <1>2. "power" \in Faults /\ Die(Pids) /\ Pids \in SUBSET Pids
    BY DEF PowerLoss
  <1>3. /\ \A t \in Writers : pc'[t] = "idle" /\ written'[t] = 0 /\ attempt'[t] = 0
        /\ \A r \in Readers : rpc'[r] = "idle"
    <2>1. \A t \in Writers \cup Readers : Proc[t] \in Pids
      BY AtomicWriteAssumption
    <2> QED
      BY <1>2, <2>1, DieFrame
  <1>4. dir' = durDir /\ durDir' = durDir /\ synced' = Inodes
    BY <1>1 DEF LosePower
  <1>5. TypeOK'
    <2>1. \A i \in Inodes : data[i] \in Seq(Blocks)
      BY DEF IInv, TypeOK, FsTypeOK
    <2>2. \A i \in Inodes : i \notin synced /\ ~(Len(data[i]) <= cut[i]) =>
            SubSeq(data[i], 1, cut[i]) \in Seq(Blocks)
      <3> SUFFICES ASSUME NEW i \in Inodes, i \notin synced, ~(Len(data[i]) <= cut[i])
                   PROVE  SubSeq(data[i], 1, cut[i]) \in Seq(Blocks)
        OBVIOUS
      <3>1. cut[i] \in Nat
        BY AtomicWriteAssumption
      <3> QED
        BY <2>1, <3>1
    <2>3. data' \in [Inodes -> Seq(Blocks)]
      BY <1>1, <2>1, <2>2 DEF LosePower
    <2> QED
      BY <1>2, <1>4, <2>3, DieFrame DEF IInv, TypeOK, FsTypeOK
  <1>6. NamesInv'
    BY <1>3 DEF NamesInv
  <1>7. LinksInv'
    BY <1>4 DEF IInv, LinksInv
  <1>8. TempsInv'
    BY <1>3, AtomicWriteAssumption DEF TempsInv, HasTemp, Named, Filling
  <1>9. DestInv'
    <2>1. Dest \in Names /\ DOMAIN durDir = Names /\ durDir[Dest] \in Inodes \cup {NoInode}
      BY DEF IInv, TypeOK, FsTypeOK, Names
    <2>2. ASSUME durDir[Dest] # NoInode
          PROVE  data'[durDir[Dest]] = data[durDir[Dest]]
      <3>1. durDir[Dest] \in synced /\ durDir[Dest] \in Inodes
        BY <1>2, <2>1, <2>2 DEF IInv, DestInv
      <3> QED
        BY <1>1, <2>1, <3>1 DEF LosePower
    <2> QED
      BY <1>4, <2>1, <2>2 DEF IInv, DestInv, DestWhole
  <1>10. ReadersInv'
    BY <1>3 DEF ReadersInv, SnapshotRead, Reading
  <1> QED
    BY <1>5, <1>6, <1>7, <1>8, <1>9, <1>10 DEF IInv

(* A rename may reach the disk at any time after.                            *)
LEMMA CommitStep ==
    ASSUME IInv, Commit
    PROVE  IInv'
  <1>1. durDir' = dir /\ UNCHANGED <<dir, data, synced, writerVars, readerVars>>
    BY DEF Commit, JournalCommit
  <1>2. TypeOK'
    BY <1>1 DEF IInv, TypeOK, FsTypeOK, writerVars, readerVars
  <1>3. NamesInv'
    BY <1>1 DEF IInv, NamesInv, writerVars
  <1>4. LinksInv'
    BY <1>1 DEF IInv, LinksInv
  <1>5. TempsInv'
    BY <1>1 DEF IInv, TempsInv, HasTemp, Named, Filling, writerVars
  <1>6. DestInv'
    BY <1>1 DEF IInv, DestInv, DestWhole
  <1>7. ReadersInv'
    BY <1>1 DEF IInv, ReadersInv, SnapshotRead, Reading, HasTemp, readerVars, writerVars
  <1> QED
    BY <1>2, <1>3, <1>4, <1>5, <1>6, <1>7 DEF IInv

(* The invariant is about the variables of the model only.                   *)
LEMMA StutterStep ==
    ASSUME IInv, UNCHANGED vars
    PROVE  IInv'
  <1>1. UNCHANGED <<fsVars, writerVars, readerVars>>
    BY DEF vars
  <1>2. TypeOK'
    BY <1>1 DEF IInv, TypeOK, FsTypeOK, fsVars, writerVars, readerVars
  <1>3. ReadersInv'
    BY <1>1 DEF IInv, ReadersInv, SnapshotRead, Reading, HasTemp, fsVars, readerVars, writerVars
  <1> QED
    BY <1>1, <1>2, <1>3, ReaderFrame DEF IInv

(* Every step keeps the invariant.                                           *)
LEMMA NextIInv == IInv /\ [Next]_vars => IInv'
  <1> SUFFICES ASSUME IInv, [Next]_vars PROVE IInv'
    OBVIOUS
  <1>1. ASSUME NEW t \in Writers, NEW v \in Values, NEW d \in Durables, Begin(t, v, d)
        PROVE  IInv'
    BY <1>1, BeginStep
  <1>2. ASSUME NEW t \in Writers, WriterStep(t) PROVE IInv'
    <2>1. CASE OpenTemp(t)
      BY <2>1, OpenTempStep
    <2>2. CASE \/ OpenTempFails(t) \/ WriteFullDone(t) \/ WriteOrFlushFails(t)
               \/ CloseTemp(t) \/ RenameFails(t) \/ Unwind(t)
      BY <2>2, LocalStep
    <2>3. CASE \E len \in 1 .. MaxSize : WriteSome(t, len)
      BY <2>3, WriteStep
    <2>4. CASE FlushTemp(t)
      BY <2>4, FlushStep
    <2>5. CASE Rename(t)
      BY <2>5, RenameStep
    <2>6. CASE RemoveTemp(t) \/ RemoveTempOpen(t)
      BY <2>6, RemoveStep
    <2> QED
      BY <1>2, <2>1, <2>2, <2>3, <2>4, <2>5, <2>6 DEF WriterStep
  <1>3. ASSUME NEW r \in Readers, ReadOpen(r) PROVE IInv'
    BY <1>3, ReadOpenStep
  <1>4. ASSUME NEW r \in Readers, ReaderStep(r) PROVE IInv'
    <2>1. CASE ReadOpenFails(r) \/ ReadSizeFails(r) \/ ReadShort(r)
      BY <2>1, ReadFailsStep DEF ReadOpenFails, ReadSizeFails, ReadShort
    <2>2. CASE ReadSize(r)
      BY <2>2, ReadSizeStep
    <2>3. CASE \E len \in 1 .. MaxSize : ReadSome(r, len)
      BY <2>3, ReadSomeStep
    <2>4. CASE ReadDone(r)
      BY <2>4, ReadDoneStep
    <2> QED
      BY <1>4, <2>1, <2>2, <2>3, <2>4 DEF ReaderStep
  <1>5. ASSUME NEW p \in Pids, Crash(p) PROVE IInv'
    BY <1>5, CrashStep
  <1>6. CASE PowerLoss
    BY <1>6, PowerLossStep
  <1>7. CASE Commit
    BY <1>7, CommitStep
  <1>8. CASE UNCHANGED vars
    BY <1>8, StutterStep
  <1> QED
    BY <1>1, <1>2, <1>3, <1>4, <1>5, <1>6, <1>7, <1>8 DEF Next

(* The inductive invariant holds in every state of every instance.          *)
THEOREM Invariance == Spec => []IInv
  <1> QED
    BY InitIInv, NextIInv, PTL DEF Spec

(* Every variable stays in its range: file_write.cpp:34-64, file_read.cpp:  *)
(* 7-43, platform.cpp:170-207.                                              *)
THEOREM TypeCorrect == Spec => []TypeOK
  <1>1. IInv => TypeOK
    BY DEF IInv
  <1> QED
    BY <1>1, Invariance, PTL

(* At every instant the destination holds one complete value, and would     *)
(* after a power loss: what file.h:204-206 promises of writeAllAtomic.      *)
THEOREM DestinationIsWhole == Spec => []DestWhole
  <1>1. IInv => DestWhole
    BY DEF IInv, DestInv
  <1> QED
    BY <1>1, Invariance, PTL

(* No two calls, of one process or of several, write one temporary file:    *)
(* the pid and the counter of MakeTempPath suffice, crashes included.       *)
THEOREM TempsAreExclusive == Spec => []TempsExclusive
  <1>1. IInv => TempsExclusive
    BY DEF IInv, TempsInv, TempsExclusive, HasTemp, OwnsFd
  <1> QED
    BY <1>1, Invariance, PTL

(* A readall next to any number of writeAllAtomic reads one version.        *)
THEOREM ReadsASnapshot == Spec => []SnapshotRead
  <1>1. IInv => SnapshotRead
    BY DEF IInv, ReadersInv
  <1> QED
    BY <1>1, Invariance, PTL

(* ----------------------------- the register ------------------------------ *)

(* At first no call has a result,                                            *)
LEMMA InitResults == Init => ResultsInv
  BY DEF Init, ResultsInv, Reading

(* and the register has its first value.                                     *)
LEMMA InitRegister == Init => Register!Init
  <1> SUFFICES ASSUME Init PROVE Register!Init
    OBVIOUS
  <1>1. Value \in Contents \cup {NoInode}
    <2>1. CASE dir = [n \in Names |-> NoInode]
      BY <2>1 DEF Value, Names
    <2>2. CASE \E i \in Inodes, v \in Values :
                  /\ dir = [n \in Names |-> IF n = Dest THEN i ELSE NoInode]
                  /\ data = [j \in Inodes |-> IF j = i THEN Content(v) ELSE <<>>]
      BY <2>2 DEF Value, Names, Contents
    <2> QED
      BY <2>1, <2>2 DEF Init
  <1>2. Stable = Value
    BY DEF Init, Value, Stable
  <1>3. WritesUnderWay = [t \in Writers |-> Hole]
    BY DEF Init, WritesUnderWay
  <1>4. ReadsUnderWay = [r \in Readers |-> Hole]
    BY DEF Init, ReadsUnderWay, Reading
  <1>5. Answers = [r \in Readers |-> Hole]
    BY DEF Init, Answers
  <1> QED
    BY <1>1, <1>2, <1>3, <1>4, <1>5 DEF Register!Init

(* ------------------- what a step leaves of the mapping ------------------ *)

(* The destination keeps its file, the file keeps its contents, and so does *)
(* the file a power loss would bring back.                                  *)
KeepsDest ==
    /\ dir'[Dest] = dir[Dest] /\ durDir'[Dest] = durDir[Dest]
    /\ \A i \in {dir[Dest], durDir[Dest]} : i # NoInode => data'[i] = data[i]

KeepsReads ==
    /\ UNCHANGED readerVars
    /\ \A r \in Readers : Reading(r) => data'[rino[r]] = data[rino[r]]

(* The value of the register is what the destination holds,                  *)
LEMMA SameValue ==
    ASSUME KeepsDest
    PROVE  Value' = Value /\ Stable' = Stable
  BY DEF KeepsDest, Value, Stable

(* its reads are those of the readers,                                       *)
LEMMA SameReads ==
    ASSUME KeepsReads
    PROVE  ReadsUnderWay' = ReadsUnderWay /\ Answers' = Answers
  <1>1. \A r \in Readers : Reading(r)' <=> Reading(r)
    BY DEF KeepsReads, readerVars, Reading
  <1>2. ReadsUnderWay' = ReadsUnderWay
    BY <1>1 DEF KeepsReads, readerVars, ReadsUnderWay
  <1>3. Answers' = Answers
    BY DEF KeepsReads, readerVars, Answers
  <1> QED
    BY <1>2, <1>3

(* its writes those of the calls.                                            *)
LEMMA SameWrites ==
    ASSUME \A u \in Writers : (pc'[u] = "idle" <=> pc[u] = "idle") /\ op'[u] = op[u]
    PROVE  WritesUnderWay' = WritesUnderWay
  BY DEF WritesUnderWay

(* A step of one call changes the write of that one.                         *)
LEMMA OneWrite ==
    ASSUME NEW t \in Writers, \A u \in Writers : u # t => pc'[u] = pc[u] /\ op'[u] = op[u]
    PROVE  WritesUnderWay' =
             [WritesUnderWay EXCEPT ![t] = IF pc'[t] = "idle" THEN Hole ELSE Content(op'[t].val)]
  BY DEF WritesUnderWay

(* A call in progress writes a value, and Hole is none.                     *)
LEMMA WritingSomething ==
    ASSUME IInv, NEW t \in Writers, pc[t] # "idle"
    PROVE  WritesUnderWay[t] = Content(op[t].val) /\ WritesUnderWay[t] # Hole
  BY MarkersAssumption DEF WritesUnderWay, IInv, NamesInv

(* A reader that has a file open looks at a value, and Hole is none.        *)
LEMMA LookingAtSomething ==
    ASSUME IInv, NEW r \in Readers, Reading(r)
    PROVE  ReadsUnderWay[r] = data[rino[r]] /\ ReadsUnderWay[r] # Hole
  BY MarkersAssumption DEF ReadsUnderWay, IInv, ReadersInv, IsWhole

(* -------------------------- steps of the writers ------------------------ *)

(* A call that begins invokes a write of the register.                       *)
LEMMA BeginIsInvoke ==
    ASSUME IInv, NEW t \in Writers, NEW v \in Values, NEW d \in Durables, Begin(t, v, d)
    PROVE  Register!Invoke(t, Content(v))
  <1>1. /\ pc[t] = "idle" /\ pc'[t] = "open" /\ op'[t].val = v
        /\ \A u \in Writers : u # t => pc'[u] = pc[u] /\ op'[u] = op[u]
        /\ UNCHANGED <<fsVars, readerVars>>
    BY DEF Begin, Goto, IInv, TypeOK
  <1>2. WritesUnderWay[t] = Hole
    BY <1>1 DEF WritesUnderWay
  <1>3. WritesUnderWay' = [WritesUnderWay EXCEPT ![t] = Content(v)]
    BY <1>1, OneWrite
  <1>4. Value' = Value /\ Stable' = Stable
    BY <1>1, SameValue DEF KeepsDest, fsVars
  <1>5. ReadsUnderWay' = ReadsUnderWay /\ Answers' = Answers
    BY <1>1, SameReads DEF KeepsReads, fsVars
  <1> QED
    BY <1>2, <1>3, <1>4, <1>5 DEF Register!Invoke

(* The temporary file is not the destination's, and no reader has it open.  *)
LEMMA OpenTempIsQuiet ==
    ASSUME IInv, NEW t \in Writers, OpenTemp(t)
    PROVE  KeepsDest /\ KeepsReads
  <1> DEFINE n == op[t].tmp
  <1>1. PICK i \in Inodes : OpenTrunc(n, i, OpenInodes)
    BY DEF OpenTemp
  <1>2. pc[t] = "open" /\ UNCHANGED readerVars
    BY DEF OpenTemp, Goto
  <1>3. n \in Names /\ n # Dest /\ Dest \in Names
    BY <1>2, TempName DEF IInv, Names
  <1>4. /\ DOMAIN dir = Names /\ DOMAIN data = Inodes
        /\ dir' = [dir EXCEPT ![n] = i] /\ durDir' = durDir
        /\ data' = [data EXCEPT ![i] = <<>>]
        /\ \/ dir[n] = i
           \/ dir[n] = NoInode /\ i \notin OpenInodes /\ ~Linked(i)
    BY <1>1 DEF OpenTrunc, IInv, TypeOK, FsTypeOK
  <1>5. i # NoInode
    BY AtomicWriteAssumption
  <1>6. i # dir[Dest] /\ i # durDir[Dest]
    BY <1>3, <1>4, <1>5 DEF Linked, IInv, LinksInv
  <1>7. ASSUME NEW r \in Readers, Reading(r) PROVE rino[r] # i
    BY <1>3, <1>4, <1>7, OpenInodesContain DEF IInv, ReadersInv
  <1>8. KeepsDest
    BY <1>3, <1>4, <1>6 DEF KeepsDest
  <1> QED
    BY <1>2, <1>4, <1>7, <1>8 DEF KeepsReads

(* Writes to a temporary file are not seen in the register,                  *)
LEMMA WriteIsQuiet ==
    ASSUME IInv, NEW t \in Writers, NEW len \in 1 .. MaxSize, WriteSome(t, len)
    PROVE  KeepsDest /\ KeepsReads
  <1>1. /\ pc[t] = "write" /\ dir' = dir /\ durDir' = durDir
        /\ data' = [data EXCEPT ![ino[t]] = Overlay(@, written[t], len, op[t].val)]
        /\ UNCHANGED readerVars
    BY DEF WriteSome, Goto, WriteAt
  <1>2. op[t].tmp # Dest /\ Dest \in Names
    BY <1>1, TempName DEF IInv, Names
  <1>3. ino[t] # dir[Dest] /\ ino[t] # durDir[Dest]
    BY <1>1, <1>2 DEF IInv, TempsInv, HasTemp
  <1>4. \A r \in Readers : Reading(r) => rino[r] # ino[t]
    BY <1>1 DEF IInv, ReadersInv, HasTemp
  <1> QED
    BY <1>1, <1>3, <1>4 DEF KeepsDest, KeepsReads

(* A step inside a call that leaves the destination alone is a stutter.     *)
LEMMA QuietWrite ==
    ASSUME KeepsDest, KeepsReads, NEW t \in Writers, pc[t] # "idle", pc'[t] # "idle",
           op' = op, \A u \in Writers : u # t => pc'[u] = pc[u]
    PROVE  UNCHANGED <<Value, Stable, WritesUnderWay, ReadsUnderWay, Answers>>
  BY SameValue, SameReads, SameWrites

(* A call that returns without having renamed anything gives up its write.  *)
LEMMA QuietReturnIsAbort ==
    ASSUME IInv, NEW t \in Writers, NEW from, Return(t, from, "fail"), from # "idle",
           KeepsDest, \A r \in Readers : Reading(r) => data'[rino[r]] = data[rino[r]]
    PROVE  Register!Abort(t)
  <1>1. /\ pc[t] = from /\ pc'[t] = "idle" /\ UNCHANGED readerVars
        /\ \A u \in Writers : u # t => pc'[u] = pc[u] /\ op'[u] = op[u]
    BY ReturnFrame DEF IInv, ReturnValues, Others
  <1>2. WritesUnderWay' = [WritesUnderWay EXCEPT ![t] = Hole]
    BY <1>1, OneWrite
  <1> QED
    BY <1>1, <1>2, SameValue, SameReads, WritingSomething DEF KeepsReads, Register!Abort

(* nor is its removal.                                                       *)
LEMMA UnlinkKeepsDest ==
    ASSUME IInv, NEW t \in Writers, pc[t] # "idle", Unlink(op[t].tmp)
    PROVE  KeepsDest /\ \A r \in Readers : Reading(r) => data'[rino[r]] = data[rino[r]]
  <1>1. op[t].tmp # Dest
    BY TempName DEF IInv
  <1> QED
    BY <1>1 DEF Unlink, KeepsDest, IInv, TypeOK, FsTypeOK, Names

(* The rename makes the value of the call the value of the file.            *)
LEMMA RenameIsCommit ==
    ASSUME IInv, NEW t \in Writers, Rename(t)
    PROVE  Register!Commit(t)
  <1> DEFINE n == op[t].tmp
             v == op[t].val
  <1>1. /\ pc[t] = "rename" /\ pc'[t] = "idle" /\ UNCHANGED readerVars
        /\ \A u \in Writers : u # t => pc'[u] = pc[u] /\ op'[u] = op[u]
    BY ReturnFrame DEF Rename, IInv, ReturnValues, Others
  <1>2. /\ dir' = [dir EXCEPT ![Dest] = dir[n], ![n] = NoInode]
        /\ UNCHANGED <<durDir, data, synced>>
    BY DEF Rename, RenameOver
  <1>3. n \in Names /\ n # Dest /\ Dest \in Names /\ DOMAIN dir = Names
    BY <1>1, TempName DEF IInv, TypeOK, FsTypeOK, Names
  <1>4. dir'[Dest] = ino[t] /\ ino[t] # NoInode
    BY <1>1, <1>2, <1>3, AtomicWriteAssumption DEF IInv, TempsInv, Named, HasTemp
  <1>5. data[ino[t]] = Content(v)
    <2>1. data[ino[t]] = Fill(written[t], v) /\ written[t] = Size[v]
      BY <1>1 DEF IInv, TempsInv, Filling
    <2> QED
      BY <2>1 DEF Fill, Content
  <1>6. Value' = Content(v) /\ Stable' = Stable
    BY <1>2, <1>4, <1>5 DEF Value, Stable
  <1>7. WritesUnderWay[t] = Content(v) /\ WritesUnderWay[t] # Hole
    BY <1>1, WritingSomething
  <1>8. WritesUnderWay' = [WritesUnderWay EXCEPT ![t] = Hole]
    BY <1>1, OneWrite
  <1>9. ReadsUnderWay' = ReadsUnderWay /\ Answers' = Answers
    BY <1>1, <1>2, SameReads DEF KeepsReads
  <1> QED
    BY <1>6, <1>7, <1>8, <1>9 DEF Register!Commit

RegisterStep ==
    Register!Next \/ UNCHANGED <<Value, Stable, WritesUnderWay, ReadsUnderWay, Answers>>

(* Each step of a writer is a step of the register, or none.                 *)
LEMMA WriterStepMaps ==
    ASSUME IInv, NEW t \in Writers, WriterStep(t)
    PROVE  RegisterStep
  <1> USE DEF RegisterStep
  <1>1. CASE OpenTemp(t)
    <2>1. /\ pc[t] # "idle" /\ pc'[t] # "idle" /\ op' = op
          /\ \A u \in Writers : u # t => pc'[u] = pc[u]
      BY <1>1 DEF OpenTemp, Goto, IInv, TypeOK
    <2> QED
      BY <1>1, <2>1, OpenTempIsQuiet, QuietWrite
  <1>2. CASE \E len \in 1 .. MaxSize : WriteSome(t, len)
    <2>1. PICK len \in 1 .. MaxSize : WriteSome(t, len)
      BY <1>2
    <2>2. /\ pc[t] # "idle" /\ pc'[t] # "idle" /\ op' = op
          /\ \A u \in Writers : u # t => pc'[u] = pc[u]
      BY <2>1 DEF WriteSome, Goto, IInv, TypeOK
    <2> QED
      BY <2>1, <2>2, WriteIsQuiet, QuietWrite
  <1>3. CASE WriteFullDone(t) \/ FlushTemp(t) \/ WriteOrFlushFails(t) \/ CloseTemp(t) \/ RenameFails(t)
    <2>1. /\ pc[t] # "idle" /\ pc'[t] # "idle" /\ op' = op
          /\ \A u \in Writers : u # t => pc'[u] = pc[u]
      BY <1>3 DEF WriteFullDone, FlushTemp, WriteOrFlushFails, CloseTemp, RenameFails,
                  Goto, IInv, TypeOK
    <2>2. UNCHANGED <<dir, durDir, data, readerVars>>
      BY <1>3 DEF WriteFullDone, FlushTemp, Fsync, WriteOrFlushFails, CloseTemp, RenameFails, fsVars
    <2>3. KeepsDest /\ KeepsReads
      BY <2>2 DEF KeepsDest, KeepsReads
    <2> QED
      BY <2>1, <2>3, QuietWrite
  <1>4. CASE OpenTempFails(t) \/ Unwind(t)
    <2>1. Register!Abort(t)
      BY <1>4, QuietReturnIsAbort DEF OpenTempFails, Unwind, KeepsDest, fsVars
    <2> QED
      BY <2>1 DEF Register!Next
  <1>5. CASE Rename(t)
    BY <1>5, RenameIsCommit DEF Register!Next
  <1>6. CASE RemoveTemp(t)
    <2>1. pc[t] = "remove" /\ Unlink(op[t].tmp) /\ Return(t, "remove", "fail")
      BY <1>6 DEF RemoveTemp, Return, Goto
    <2>2. Register!Abort(t)
      BY <2>1, UnlinkKeepsDest, QuietReturnIsAbort
    <2> QED
      BY <2>2 DEF Register!Next
  <1>7. CASE RemoveTempOpen(t)
    <2>1. /\ pc[t] = "removeOpen" /\ pc'[t] = "unwind" /\ op' = op
          /\ \A u \in Writers : u # t => pc'[u] = pc[u]
          /\ UNCHANGED readerVars
          /\ UNCHANGED fsVars \/ Unlink(op[t].tmp)
      BY <1>7 DEF RemoveTempOpen, Goto, IInv, TypeOK
    <2>2. KeepsDest /\ KeepsReads
      BY <2>1, UnlinkKeepsDest DEF KeepsDest, KeepsReads, fsVars
    <2> QED
      BY <2>1, <2>2, QuietWrite
  <1> QED
    BY <1>1, <1>2, <1>3, <1>4, <1>5, <1>6, <1>7 DEF WriterStep

(* -------------------------- steps of the readers ------------------------ *)

(* A step of one reader changes the read of that one.                        *)
LEMMA OneRead ==
    ASSUME NEW r \in Readers,
           \A q \in Readers : q # r =>
              rpc'[q] = rpc[q] /\ rino'[q] = rino[q] /\ rbuf'[q] = rbuf[q] /\ rresult'[q] = rresult[q],
           UNCHANGED <<fsVars, writerVars>>
    PROVE  /\ ReadsUnderWay' = [ReadsUnderWay EXCEPT ![r] =
                                  IF rpc'[r] \in {"size", "read"} THEN data[rino'[r]] ELSE Hole]
           /\ Answers' = [Answers EXCEPT ![r] = IF rresult'[r] = "ok" THEN rbuf'[r] ELSE Hole]
           /\ UNCHANGED <<Value, Stable, WritesUnderWay>>
  BY DEF ReadsUnderWay, Reading, Answers, Value, Stable, WritesUnderWay, fsVars, writerVars

(* A reader takes the register's value when it opens the file.               *)
LEMMA ReadOpenIsLook ==
    ASSUME IInv, NEW r \in Readers, ReadOpen(r)
    PROVE  Register!Look(r)
  <1>1. /\ rpc[r] = "idle" /\ rpc'[r] = "size" /\ rino'[r] = dir[Dest] /\ rresult'[r] = "none"
        /\ dir[Dest] # NoInode
        /\ \A q \in Readers : q # r =>
              rpc'[q] = rpc[q] /\ rino'[q] = rino[q] /\ rbuf'[q] = rbuf[q] /\ rresult'[q] = rresult[q]
        /\ UNCHANGED <<fsVars, writerVars>>
    BY DEF ReadOpen, RGoto, IInv, TypeOK
  <1>2. Value = data[dir[Dest]] /\ Value # NoInode
    BY <1>1, MarkersAssumption DEF Value, IInv, DestInv, DestWhole, IsWhole
  <1>3. ReadsUnderWay[r] = Hole
    BY <1>1 DEF ReadsUnderWay, Reading
  <1> QED
    BY <1>1, <1>2, <1>3, OneRead DEF Register!Look

(* A failed read has no answer.                                              *)
LEMMA ReadFailsIsNoAnswer ==
    ASSUME IInv, NEW r \in Readers, NEW from, ReadFails(r, from)
    PROVE  Register!NoAnswer(r)
  <1>1. /\ rpc'[r] = "idle" /\ rresult'[r] = "fail"
        /\ \A q \in Readers : q # r =>
              rpc'[q] = rpc[q] /\ rino'[q] = rino[q] /\ rbuf'[q] = rbuf[q] /\ rresult'[q] = rresult[q]
        /\ UNCHANGED <<fsVars, writerVars>>
    BY DEF ReadFails, RGoto, IInv, TypeOK
  <1> QED
    BY <1>1, OneRead DEF Register!NoAnswer

(* A full buffer is the file as it was when it was opened.                  *)
LEMMA ReadDoneIsAnswer ==
    ASSUME IInv, NEW r \in Readers, ReadDone(r)
    PROVE  Register!Answer(r)
  <1>1. /\ rpc[r] = "read" /\ rpc'[r] = "idle" /\ rresult'[r] = "ok"
        /\ rbuf' = rbuf /\ Len(rbuf[r]) = rsize[r]
        /\ \A q \in Readers : q # r =>
              rpc'[q] = rpc[q] /\ rino'[q] = rino[q] /\ rresult'[q] = rresult[q]
        /\ UNCHANGED <<fsVars, writerVars>>
    BY DEF ReadDone, RGoto, IInv, TypeOK
  <1>2. Reading(r) /\ rino[r] \in Inodes
    BY <1>1 DEF Reading, IInv, ReadersInv
  <1>3. data[rino[r]] \in Seq(Blocks)
    BY <1>2 DEF IInv, TypeOK, FsTypeOK
  <1>4. rbuf[r] = SubSeq(data[rino[r]], 1, Len(data[rino[r]]))
    BY <1>1 DEF IInv, ReadersInv, SnapshotRead
  <1>5. rbuf[r] = data[rino[r]]
    BY <1>3, <1>4
  <1>6. ReadsUnderWay[r] = rbuf[r] /\ ReadsUnderWay[r] # Hole
    BY <1>2, <1>5, LookingAtSomething
  <1> QED
    BY <1>1, <1>6, OneRead DEF Register!Answer

(* Reading on is not seen in the register.                                   *)
LEMMA ReadOnIsQuiet ==
    ASSUME IInv, ResultsInv, NEW r \in Readers, Reading(r), rpc'[r] \in {"size", "read"},
           \A q \in Readers : q # r => rpc'[q] = rpc[q] /\ rbuf'[q] = rbuf[q],
           UNCHANGED <<fsVars, writerVars, rino, rresult>>
    PROVE  UNCHANGED <<Value, Stable, WritesUnderWay, ReadsUnderWay, Answers>>
  <1>1. rresult[r] # "ok"
    BY DEF ResultsInv
  <1>2. \A q \in Readers : Reading(q)' <=> Reading(q)
    BY DEF Reading
  <1>3. ReadsUnderWay' = ReadsUnderWay
    BY <1>2 DEF ReadsUnderWay, fsVars
  <1>4. \A q \in Readers : rresult[q] = "ok" => rbuf'[q] = rbuf[q]
    BY <1>1
  <1>5. Answers' = Answers
    BY <1>4 DEF Answers
  <1> QED
    BY <1>3, <1>5 DEF Value, Stable, WritesUnderWay, fsVars, writerVars

(* Each step of a reader is a step of the register, or none.                 *)
LEMMA ReaderStepMaps ==
    ASSUME IInv, ResultsInv, NEW r \in Readers, ReaderStep(r)
    PROVE  RegisterStep
  <1> USE DEF RegisterStep
  <1>1. CASE ReadOpenFails(r) \/ ReadSizeFails(r) \/ ReadShort(r)
    <2>1. Register!NoAnswer(r)
      BY <1>1, ReadFailsIsNoAnswer DEF ReadOpenFails, ReadSizeFails, ReadShort
    <2> QED
      BY <2>1 DEF Register!Next
  <1>2. CASE ReadSize(r)
    BY <1>2, ReadOnIsQuiet DEF ReadSize, RGoto, Reading, IInv, TypeOK
  <1>3. CASE \E len \in 1 .. MaxSize : ReadSome(r, len)
    BY <1>3, ReadOnIsQuiet DEF ReadSome, RGoto, Reading, IInv, TypeOK
  <1>4. CASE ReadDone(r)
    BY <1>4, ReadDoneIsAnswer DEF Register!Next
  <1> QED
    BY <1>1, <1>2, <1>3, <1>4 DEF ReaderStep

(* --------------------------- steps of the machine ----------------------- *)

(* Processes that die are forgotten by the register,                         *)
LEMMA DieMaps ==
    ASSUME NEW ps \in SUBSET Pids, Die(ps),
           \A r \in Readers : Reading(r) /\ Proc[r] \notin ps => data'[rino[r]] = data[rino[r]]
    PROVE  /\ WritesUnderWay' = [w \in Writers |-> IF Proc[w] \in ps THEN Hole ELSE WritesUnderWay[w]]
           /\ ReadsUnderWay' = [r \in Readers |-> IF Proc[r] \in ps THEN Hole ELSE ReadsUnderWay[r]]
           /\ Answers' = [r \in Readers |-> IF Proc[r] \in ps THEN Hole ELSE Answers[r]]
  BY DEF Die, WritesUnderWay, ReadsUnderWay, Reading, Answers

(* so a crash is a step of it.                                               *)
LEMMA CrashMaps ==
    ASSUME NEW p \in Pids, Crash(p)
    PROVE  Register!Next
  <1> DEFINE ws == {w \in Writers : Proc[w] = p}
             rs == {r \in Readers : Proc[r] = p}
  <1>1. /\ WritesUnderWay' = [w \in Writers |-> IF w \in ws THEN Hole ELSE WritesUnderWay[w]]
        /\ ReadsUnderWay' = [r \in Readers |-> IF r \in rs THEN Hole ELSE ReadsUnderWay[r]]
        /\ Answers' = [r \in Readers |-> IF r \in rs THEN Hole ELSE Answers[r]]
    BY DieMaps DEF Crash, fsVars
  <1>2. Value' = Value /\ Stable' = Stable
    BY DEF Crash, fsVars, Value, Stable
  <1>3. Register!Crash(ws, rs)
    BY <1>1, <1>2 DEF Register!Crash
  <1>4. ws \in SUBSET Writers /\ rs \in SUBSET Readers
    OBVIOUS
  <1> QED
    BY <1>3, <1>4 DEF Register!Next

(* What is on disk of the durable file is all of it: it was synced before   *)
(* its rename.                                                              *)
LEMMA PowerLossMaps ==
    ASSUME IInv, PowerLoss
    PROVE  Register!LosePower
  <1>1. "power" \in Faults /\ Die(Pids)
    BY DEF PowerLoss
  <1>2. PICK cut \in [Inodes \ synced -> 0 .. MaxSize] : LosePower(cut)
    BY DEF PowerLoss
  <1>3. Value' = Stable /\ Stable' = Stable
    <2>1. dir' = durDir /\ durDir' = durDir
      BY <1>2 DEF LosePower
    <2>2. CASE durDir[Dest] = NoInode
      BY <2>1, <2>2 DEF Value, Stable
    <2>3. CASE durDir[Dest] # NoInode
      <3>1. durDir[Dest] \in Inodes /\ durDir[Dest] \in synced /\ Dest \in DOMAIN durDir
        BY <1>1, <2>3 DEF IInv, TypeOK, FsTypeOK, DestInv, Names
      <3>2. data'[durDir[Dest]] = data[durDir[Dest]]
        BY <1>2, <3>1 DEF LosePower
      <3> QED
        BY <2>1, <2>3, <3>2 DEF Value, Stable
    <2> QED
      BY <2>2, <2>3
  <1>4. \A t \in Writers \cup Readers : Proc[t] \in Pids
    BY AtomicWriteAssumption
  <1>5. /\ WritesUnderWay' = [w \in Writers |-> Hole]
        /\ ReadsUnderWay' = [r \in Readers |-> Hole]
        /\ Answers' = [r \in Readers |-> Hole]
    BY <1>1, <1>4 DEF Die, WritesUnderWay, ReadsUnderWay, Reading, Answers
  <1> QED
    BY <1>3, <1>5 DEF Register!LosePower

(* A rename that reaches the disk makes the value persistent.                *)
LEMMA CommitIsPersist ==
    ASSUME Commit
    PROVE  Register!Persist
  BY DEF Commit, JournalCommit, Register!Persist, writerVars, readerVars,
         Value, Stable, WritesUnderWay, ReadsUnderWay, Reading, Answers

(* ------------------------------- the theorem ---------------------------- *)

(* Each step is a step of the register, or none.                             *)
LEMMA NextMaps ==
    ASSUME IInv, ResultsInv, [Next]_vars
    PROVE  RegisterStep
  <1> USE DEF RegisterStep
  <1>1. ASSUME NEW t \in Writers, NEW v \in Values, NEW d \in Durables, Begin(t, v, d)
        PROVE  RegisterStep
    <2>1. Register!Invoke(t, Content(v)) /\ Content(v) \in Contents
      BY <1>1, BeginIsInvoke DEF Contents
    <2> QED
      BY <2>1 DEF Register!Next
  <1>2. ASSUME NEW t \in Writers, WriterStep(t) PROVE RegisterStep
    BY <1>2, WriterStepMaps
  <1>3. ASSUME NEW r \in Readers, ReadOpen(r) PROVE RegisterStep
    BY <1>3, ReadOpenIsLook DEF Register!Next
  <1>4. ASSUME NEW r \in Readers, ReaderStep(r) PROVE RegisterStep
    BY <1>4, ReaderStepMaps
  <1>5. ASSUME NEW p \in Pids, Crash(p) PROVE RegisterStep
    BY <1>5, CrashMaps
  <1>6. CASE PowerLoss
    BY <1>6, PowerLossMaps DEF Register!Next
  <1>7. CASE Commit
    BY <1>7, CommitIsPersist DEF Register!Next
  <1>8. CASE UNCHANGED vars
    BY <1>8 DEF vars, fsVars, writerVars, readerVars,
         Value, Stable, WritesUnderWay, ReadsUnderWay, Reading, Answers
  <1> QED
    BY <1>1, <1>2, <1>3, <1>4, <1>5, <1>6, <1>7, <1>8 DEF Next

(* A call under way has no result yet.                                       *)
LEMMA NextResults ==
    ASSUME IInv, ResultsInv, [Next]_vars
    PROVE  ResultsInv'
  <1> USE DEF ResultsInv
  <1>1. ASSUME NEW t \in Writers, NEW v \in Values, NEW d \in Durables, Begin(t, v, d)
        PROVE  ResultsInv'
    BY <1>1 DEF Begin, Goto, readerVars, Reading, IInv, TypeOK
  <1>2. ASSUME NEW t \in Writers, WriterStep(t)
        PROVE  ResultsInv'
    <2>1. CASE OpenTemp(t) \/ WriteFullDone(t) \/ FlushTemp(t) \/ WriteOrFlushFails(t)
               \/ CloseTemp(t) \/ RenameFails(t) \/ RemoveTempOpen(t)
      BY <2>1 DEF OpenTemp, WriteFullDone, FlushTemp, WriteOrFlushFails, CloseTemp, RenameFails,
                  RemoveTempOpen, Goto, readerVars, Reading, IInv, TypeOK
    <2>2. CASE \E len \in 1 .. MaxSize : WriteSome(t, len)
      BY <2>2 DEF WriteSome, Goto, readerVars, Reading, IInv, TypeOK
    <2>3. CASE OpenTempFails(t) \/ Unwind(t) \/ Rename(t) \/ RemoveTemp(t)
      BY <2>3 DEF OpenTempFails, Unwind, Rename, RemoveTemp, Return, Goto, readerVars, Reading,
                  IInv, TypeOK
    <2> QED
      BY <1>2, <2>1, <2>2, <2>3 DEF WriterStep
  <1>3. ASSUME NEW r \in Readers, ReadOpen(r) \/ ReaderStep(r)
        PROVE  ResultsInv'
    <2>1. CASE ReadOpen(r)
      BY <2>1 DEF ReadOpen, RGoto, writerVars, Reading, IInv, TypeOK
    <2>2. CASE ReadOpenFails(r) \/ ReadSizeFails(r) \/ ReadShort(r)
      BY <2>2 DEF ReadOpenFails, ReadSizeFails, ReadShort, ReadFails, RGoto, writerVars, Reading,
                  IInv, TypeOK
    <2>3. CASE ReadSize(r) \/ ReadDone(r)
      BY <2>3 DEF ReadSize, ReadDone, RGoto, writerVars, Reading, IInv, TypeOK
    <2>4. CASE \E len \in 1 .. MaxSize : ReadSome(r, len)
      BY <2>4 DEF ReadSome, RGoto, writerVars, Reading, IInv, TypeOK
    <2> QED
      BY <1>3, <2>1, <2>2, <2>3, <2>4 DEF ReaderStep
  <1>4. ASSUME NEW ps \in SUBSET Pids, Die(ps)
        PROVE  ResultsInv'
    BY <1>4 DEF Die, Reading
  <1>5. CASE (\E p \in Pids : Crash(p)) \/ PowerLoss
    BY <1>4, <1>5 DEF Crash, PowerLoss
  <1>6. CASE Commit \/ UNCHANGED vars
    BY <1>6 DEF Commit, vars, writerVars, readerVars, Reading
  <1> QED
    BY <1>1, <1>2, <1>3, <1>5, <1>6 DEF Next

(* A call under way has no result yet, so a result is of a finished call.   *)
THEOREM ResultsAreFinal == Spec => []ResultsInv
  <1> QED
    BY InitResults, NextResults, Invariance, PTL DEF Spec

(* writeAllAtomic makes the file a register (file.h:204-207): a write takes *)
(* effect at its rename or not at all, a readall answers with the value the *)
(* file had when it was opened, a crash loses calls only, and a power loss  *)
(* goes back to a value the file had.                                       *)
THEOREM IsARegister == Spec => ImplementsRegister
  <1>1. IInv /\ ResultsInv /\ [Next]_vars =>
           [Register!Next]_<<Value, Stable, WritesUnderWay, ReadsUnderWay, Answers>>
    BY NextMaps DEF RegisterStep
  <1> QED
    BY <1>1, InitRegister, Invariance, ResultsAreFinal, PTL
    DEF Spec, ImplementsRegister, Register!Spec, Register!vars

(* ------------------- who replaces, and what is left behind -------------- *)

Replacement ==
    dir'[Dest] # dir[Dest] =>
        \/ \E t \in Writers :
              /\ result[t] = "none" /\ result'[t] = "ok"
              /\ data'[dir'[Dest]] = Content(op[t].val)
        \/ \A t \in Writers : pc'[t] = "idle" /\ result'[t] = "none"

(* Only a call that succeeds replaces the destination,                       *)
LEMMA WriterReplaces ==
    ASSUME IInv, ResultsInv, NEW t \in Writers, WriterStep(t)
    PROVE  Replacement
  <1> USE DEF Replacement
  <1>1. CASE OpenTemp(t) \/ \E len \in 1 .. MaxSize : WriteSome(t, len)
    BY <1>1, OpenTempIsQuiet, WriteIsQuiet DEF KeepsDest
  <1>2. CASE OpenTempFails(t) \/ WriteFullDone(t) \/ FlushTemp(t) \/ WriteOrFlushFails(t)
             \/ CloseTemp(t) \/ RenameFails(t) \/ Unwind(t)
    BY <1>2 DEF OpenTempFails, WriteFullDone, FlushTemp, Fsync, WriteOrFlushFails, CloseTemp,
                RenameFails, Unwind, fsVars
  <1>3. CASE RemoveTemp(t) \/ RemoveTempOpen(t)
    <2>1. pc[t] # "idle" /\ (UNCHANGED fsVars \/ Unlink(op[t].tmp))
      BY <1>3 DEF RemoveTemp, RemoveTempOpen, Return, Goto
    <2> QED
      BY <2>1, UnlinkKeepsDest DEF KeepsDest, fsVars
  <1>4. CASE Rename(t)
    <2>1. pc[t] = "rename" /\ result[t] = "none" /\ result'[t] = "ok"
      BY <1>4 DEF Rename, Return, Goto, ResultsInv, IInv, TypeOK
    <2>2. Register!Commit(t)
      BY <1>4, RenameIsCommit
    <2>3. Value' = Content(op[t].val)
      BY <2>1, <2>2, WritingSomething DEF Register!Commit
    <2>4. Value' = data'[dir'[Dest]]
      BY <2>1, <2>3, MarkersAssumption DEF Value, IInv, NamesInv
    <2> QED
      BY <2>1, <2>3, <2>4
  <1> QED
    BY <1>1, <1>2, <1>3, <1>4 DEF WriterStep

(* whatever step is taken.                                                   *)
LEMMA NextReplaces ==
    ASSUME IInv, ResultsInv, [Next]_vars
    PROVE  Replacement
  <1> USE DEF Replacement
  <1>1. ASSUME NEW t \in Writers, NEW v \in Values, NEW d \in Durables, Begin(t, v, d)
        PROVE  Replacement
    BY <1>1 DEF Begin, fsVars
  <1>2. ASSUME NEW t \in Writers, WriterStep(t) PROVE Replacement
    BY <1>2, WriterReplaces
  <1>3. ASSUME NEW r \in Readers, ReadOpen(r) \/ ReaderStep(r) PROVE Replacement
    BY <1>3 DEF ReadOpen, ReaderStep, ReadOpenFails, ReadSize, ReadSizeFails, ReadSome, ReadDone,
                ReadShort, ReadFails, fsVars
  <1>4. CASE PowerLoss
    BY <1>4, AtomicWriteAssumption DEF PowerLoss, Die
  <1>5. CASE (\E p \in Pids : Crash(p)) \/ Commit \/ UNCHANGED vars
    BY <1>5 DEF Crash, Commit, JournalCommit, vars, fsVars
  <1> QED
    BY <1>1, <1>2, <1>3, <1>4, <1>5 DEF Next

(* The destination changes in the step that makes a call return true, to    *)
(* the value of that call, and otherwise only with the power: a call that   *)
(* returns false has changed nothing (file_write.cpp:43-62).                *)
THEOREM OnlySuccessReplaces == Spec => ReplacedOnlyBySuccess
  <1>1. IInv /\ ResultsInv /\ [Next]_vars => [Replacement]_vars
    BY NextReplaces
  <1> QED
    BY <1>1, Invariance, ResultsAreFinal, PTL DEF Spec, ReplacedOnlyBySuccess, Replacement

(* At first nothing is left behind,                                          *)
LEMMA InitResidue == Init => ResidueInv
  <1> SUFFICES ASSUME Init PROVE ResidueInv
    OBVIOUS
  <1>1. \A n \in TempNames : n \in Names /\ n # Dest
    BY AtomicWriteAssumption DEF Names
  <1>2. \A n \in TempNames : dir[n] = NoInode
    BY <1>1 DEF Init
  <1>3. \A t \in Writers : pc[t] # "unwind"
    BY DEF Init
  <1> QED
    BY <1>2, <1>3 DEF ResidueInv, NoResidue

(* and no call leaves anything when nothing dies and open files can be       *)
(* removed.                                                                  *)
LEMMA WriterResidue ==
    ASSUME IInv, ResidueInv, ~Windows, NEW t \in Writers, WriterStep(t)
    PROVE  ResidueInv'
  <1> DEFINE n == op[t].tmp
  <1> USE DEF ResidueInv, NoResidue
  <1>1. \A u \in Writers : u # t => (pc'[u] = pc[u] /\ op'[u] = op[u])
    BY DEF WriterStep, OpenTemp, OpenTempFails, WriteSome, WriteFullDone, FlushTemp,
           WriteOrFlushFails, CloseTemp, Rename, RenameFails, RemoveTemp, RemoveTempOpen, Unwind,
           Return, Goto, IInv, TypeOK
  <1>2. pc[t] # "idle"
    BY DEF WriterStep, OpenTemp, OpenTempFails, WriteSome, WriteFullDone, FlushTemp,
           WriteOrFlushFails, CloseTemp, Rename, RenameFails, RemoveTemp, RemoveTempOpen, Unwind,
           Return, Goto
  <1>3. n \in TempNames /\ n \in Names /\ n # Dest /\ Dest \in Names /\ Dest \notin TempNames
    BY <1>2, TempName, AtomicWriteAssumption DEF IInv, Names
  <1>4. \A u \in Writers : u # t /\ pc[u] # "idle" => op[u].tmp # n /\ op[u].tmp # Dest
    BY <1>2, TempName DEF IInv, NamesInv
  <1>5. DOMAIN dir = Names
    BY DEF IInv, TypeOK, FsTypeOK
  <1>6. CASE OpenTemp(t)
    <2>1. /\ pc'[t] = "write" /\ op' = op /\ \A m \in Names : m # n => dir'[m] = dir[m]
      BY <1>5, <1>6 DEF OpenTemp, OpenTrunc, Goto, IInv, TypeOK
    <2>2. ASSUME NEW m \in TempNames, dir'[m] # NoInode
          PROVE  \E u \in Writers : pc'[u] \notin {"idle", "open"} /\ op'[u].tmp = m
      <3>1. CASE m = n
        BY <2>1, <3>1
      <3>2. CASE m # n
        <4>1. dir[m] # NoInode
          BY <2>1, <2>2, <3>2 DEF Names
        <4>2. PICK u \in Writers : pc[u] \notin {"idle", "open"} /\ op[u].tmp = m
          BY <4>1
        <4> QED
          BY <1>1, <2>1, <3>2, <4>2
      <3> QED
        BY <3>1, <3>2
    <2>3. ASSUME NEW u \in Writers, pc'[u] = "unwind" PROVE dir'[op'[u].tmp] = NoInode
      BY <1>1, <1>4, <2>1, <2>3, TempName DEF IInv
    <2> QED
      BY <2>2, <2>3
  <1>7. CASE \/ (\E len \in 1 .. MaxSize : WriteSome(t, len)) \/ WriteFullDone(t) \/ FlushTemp(t)
             \/ WriteOrFlushFails(t) \/ CloseTemp(t) \/ RenameFails(t)
    <2>1. /\ pc[t] \notin {"idle", "open"} /\ pc'[t] \notin {"idle", "open", "unwind"}
          /\ op' = op /\ dir' = dir
      BY <1>7 DEF WriteSome, WriteAt, WriteFullDone, FlushTemp, Fsync, WriteOrFlushFails, CloseTemp,
                  RenameFails, Goto, fsVars, IInv, TypeOK
    <2> QED
      BY <1>1, <2>1
  <1>8. CASE OpenTempFails(t) \/ Unwind(t)
    <2>1. pc[t] \in {"open", "unwind"} /\ pc'[t] = "idle" /\ dir' = dir
      BY <1>8 DEF OpenTempFails, Unwind, Return, Goto, fsVars, IInv, TypeOK
    <2> QED
      BY <1>1, <2>1
  <1>9. CASE Rename(t)
    <2>1. pc'[t] = "idle" /\ dir'[n] = NoInode /\ \A m \in Names : m \notin {n, Dest} => dir'[m] = dir[m]
      BY <1>3, <1>5, <1>9 DEF Rename, RenameOver, Return, Goto, IInv, TypeOK
    <2> QED
      BY <1>1, <1>3, <1>4, <2>1, TempName DEF Names, IInv
  <1>10. CASE RemoveTemp(t) \/ RemoveTempOpen(t)
    <2>1. /\ pc'[t] \in {"idle", "unwind"} /\ (pc'[t] = "unwind" => op'[t] = op[t])
          /\ dir'[n] = NoInode /\ \A m \in Names : m # n => dir'[m] = dir[m]
      BY <1>3, <1>5, <1>10 DEF RemoveTemp, RemoveTempOpen, Unlink, Return, Goto, IInv, TypeOK
    <2> QED
      BY <1>1, <1>3, <1>4, <2>1, TempName DEF Names, IInv
  <1> QED
    BY <1>6, <1>7, <1>8, <1>9, <1>10 DEF WriterStep

(* Where no process dies and an open file can be removed, every temporary   *)
(* file in the directory is of a call in progress: on each path, failures   *)
(* included, writeAllAtomic has renamed or removed its own                  *)
(* (file_write.cpp:43-62, test_file.cpp:399-403).                           *)
THEOREM NothingIsLeftBehind ==
    ASSUME "crash" \notin Faults, "power" \notin Faults, ~Windows
    PROVE  Spec => []NoResidue
  <1>1. ASSUME IInv, ResidueInv, [Next]_vars PROVE ResidueInv'
    <2>1. ASSUME NEW t \in Writers, NEW v \in Values, NEW d \in Durables, Begin(t, v, d)
          PROVE  ResidueInv'
      <3>1. /\ pc[t] = "idle" /\ pc'[t] = "open" /\ dir' = dir
            /\ \A u \in Writers : u # t => (pc'[u] = pc[u] /\ op'[u] = op[u])
        BY <1>1, <2>1 DEF Begin, Goto, fsVars, IInv, TypeOK
      <3> QED
        BY <1>1, <3>1 DEF ResidueInv, NoResidue
    <2>2. ASSUME NEW t \in Writers, WriterStep(t) PROVE ResidueInv'
      BY <1>1, <2>2, WriterResidue
    <2>3. ASSUME NEW r \in Readers, ReadOpen(r) \/ ReaderStep(r) PROVE ResidueInv'
      <3>1. UNCHANGED <<fsVars, writerVars>>
        BY <2>3 DEF ReadOpen, ReaderStep, ReadOpenFails, ReadSize, ReadSizeFails, ReadSome, ReadDone,
                    ReadShort, ReadFails
      <3> QED
        BY <1>1, <3>1 DEF ResidueInv, NoResidue, fsVars, writerVars
    <2>4. CASE UNCHANGED vars
      BY <1>1, <2>4 DEF ResidueInv, NoResidue, vars, fsVars, writerVars
    <2> QED
      BY <1>1, <2>1, <2>2, <2>3, <2>4 DEF Next, Crash, PowerLoss, Commit
  <1>2. ResidueInv => NoResidue
    BY DEF ResidueInv
  <1> QED
    BY <1>1, <1>2, InitResidue, Invariance, PTL DEF Spec
=============================================================================
