------------------------ MODULE HalRefinementProofs -------------------------
(***************************************************************************)
(* HalTransfer for every number of threads, calls, tiles and DMEMs, every  *)
(* set of requests and every address map of the assumed shape.  First what *)
(* hal_mutex, taken at the top of each call, buys the drivers below, which *)
(* share their engines and their locks without asking who else is there;   *)
(* then that each call of the HAL is one step of a flat memory indexed by  *)
(* address, or is refused: HalTransfer implements FlatMemory.              *)
(***************************************************************************)
EXTENDS HalTransferInv, AddressMapProofs, SequenceTheorems

-----------------------------------------------------------------------------
\* The destination of an accepted packet has a lock of its own: tiles have the
\* first eight, DMEMs the other eight.
LEMMA LockIndexType ==
  ASSUME NEW r, RemoteAccepted(r)
  PROVE  LockIndex(r.dst) \in Locks
<1> DEFINE T == {t \in Tiles : Within(r.dst, TileBase(t), TILE_STRIDE)}
           D == {d \in Dmems : Within(r.dst, DMEM_512_BASE[d], DMEM_512_SIZE)}
<1>1. GetTileId(r.dst) \in Tiles \cup {-1}
  <2>1. CASE T = {} BY <2>1 DEF GetTileId
  <2>2. CASE T # {}
    <3>1. (CHOOSE t \in T : TRUE) \in T BY <2>2
    <3> QED BY <2>2, <3>1 DEF GetTileId
  <2> QED BY <2>1, <2>2
<1>2. GetDmemId(r.dst) \in Dmems \cup {-1}
  <2>1. CASE D = {} BY <2>1 DEF GetDmemId
  <2>2. CASE D # {}
    <3>1. (CHOOSE d \in D : TRUE) \in D BY <2>2
    <3> QED BY <2>2, <3>1 DEF GetDmemId
  <2> QED BY <2>1, <2>2
<1>3. GetTileId(r.dst) # -1 \/ GetDmemId(r.dst) # -1
  <2>1. GetAddressRegion(r.dst) \in {"dlm1", "dmem"} BY DEF RemoteAccepted
  <2> QED BY <2>1 DEF GetAddressRegion
<1>4. NUM_TILES \in 0 .. 8 /\ NUM_DMEMS \in 0 .. 8
  BY AddressMapAssumption DEF AddressMapAssumption
<1>5. CASE GetTileId(r.dst) # -1
  <2>1. GetTileId(r.dst) \in 0 .. NUM_TILES - 1 BY <1>1, <1>5 DEF Tiles
  <2> QED BY <1>4, <1>5, <2>1 DEF LockIndex, Locks
<1>6. CASE GetTileId(r.dst) = -1
  <2>1. GetDmemId(r.dst) \in 0 .. NUM_DMEMS - 1 BY <1>2, <1>3, <1>6 DEF Dmems
  <2> QED BY <1>4, <1>6, <2>1 DEF LockIndex, Locks
<1> QED BY <1>5, <1>6

LEMMA InitHal == Init => HalInv
<1> SUFFICES ASSUME Init PROVE HalInv OBVIOUS
<1>1. MaxCalls \in Nat /\ MAX_SIZE \in Nat /\ NoRequest \notin Requests
  BY RequestAssumption DEF RequestAssumption
<1>2. ControlTypeOK
  <2>1. [t \in Tiles |-> [src |-> 0, dst |-> 0, count |-> 0]]
            \in [Tiles -> [src : Nat, dst : Nat, count : 0 .. MAX_SIZE]]
    BY <1>1
  <2>2. handle \in [Tiles -> [src : Nat, dst : Nat, count : 0 .. MAX_SIZE]]
    BY <2>1 DEF Init
  <2>3. /\ hal \in Threads \cup {NoThread} /\ initialized \in BOOLEAN
        /\ dest \in [Locks -> Threads \cup {NoThread}]
        /\ pc \in [Threads -> PCs] /\ req \in [Threads -> Requests \cup {NoRequest}]
    BY DEF Init, PCs
  <2>4. calls \in 0 .. MaxCalls BY <1>1 DEF Init
  <2> QED BY <2>2, <2>3, <2>4 DEF ControlTypeOK
<1>3. \A t \in Threads : pc[t] = "idle" BY DEF Init
<1>4. \A l \in Locks : dest[l] = NoThread BY DEF Init
<1>5. MutexInv /\ RequestInv BY <1>3 DEF MutexInv, RequestInv
<1>6. DestInv BY <1>4 DEF DestInv
<1>7. UncontendedArbitration /\ EngineRunsItsRequest
  BY <1>3 DEF UncontendedArbitration, EngineRunsItsRequest
<1> QED BY <1>2, <1>5, <1>6, <1>7 DEF HalInv

-----------------------------------------------------------------------------
Outside == {"idle", "lock"}

\* While one thread owns hal_mutex the others have not entered a driver, and
\* nobody else holds the lock of a destination.
LEMMA Alone ==
  ASSUME HalInv, NEW t \in Threads, pc[t] \notin Outside
  PROVE  /\ hal = t
         /\ \A u \in Threads : u # t => pc[u] \in Outside
         /\ \A l \in Locks : dest[l] # NoThread =>
                dest[l] = t /\ pc[t] = "transfer" /\ l = LockIndex(req[t].dst)
<1>1. hal = t BY DEF HalInv, MutexInv, Outside
<1>2. \A u \in Threads : u # t => pc[u] \in Outside
  BY <1>1 DEF HalInv, MutexInv, Outside
<1>3. ASSUME NEW l \in Locks, dest[l] # NoThread
      PROVE  dest[l] = t /\ pc[t] = "transfer" /\ l = LockIndex(req[t].dst)
  <2>1. dest[l] \in Threads BY <1>3 DEF HalInv, ControlTypeOK
  <2>2. pc[dest[l]] = "transfer" /\ l = LockIndex(req[dest[l]].dst)
    BY <1>3 DEF HalInv, DestInv
  <2>3. dest[l] = t BY <1>2, <2>1, <2>2 DEF Outside
  <2> QED BY <2>2, <2>3
<1> QED BY <1>1, <1>2, <1>3

\* A step of the owner that stays in the call has to care for its own state.
LEMMA OwnerStep ==
  ASSUME HalInv, NEW t \in Threads, pc[t] \notin Outside,
         NEW c \in PCs \ Outside, pc' = [pc EXCEPT ![t] = c],
         hal' = hal, req' = req, calls' = calls, initialized' \in BOOLEAN,
         dest' \in [Locks -> Threads \cup {NoThread}],
         handle' \in [Tiles -> [src : Nat, dst : Nat, count : 0 .. MAX_SIZE]],
         c \in {"start", "finish"} => LocalAccepted(req[t]),
         c \in {"init", "send", "arbitrate", "transfer"} => RemoteAccepted(req[t]),
         c = "start" => handle'[req[t].tile] =
            [src |-> req[t].src, dst |-> req[t].dst, count |-> req[t].size],
         c = "transfer" => dest'[LockIndex(req[t].dst)] = t,
         \A l \in Locks : dest'[l] # NoThread =>
            dest'[l] = t /\ c = "transfer" /\ l = LockIndex(req[t].dst)
  PROVE  HalInv'
<1>1. /\ hal = t /\ pc'[t] = c
      /\ \A u \in Threads : u # t => pc'[u] = pc[u] /\ pc[u] \in Outside
  BY Alone DEF HalInv, ControlTypeOK
<1>2. ControlTypeOK' BY DEF HalInv, ControlTypeOK
<1>3. MutexInv' BY <1>1 DEF MutexInv, Outside
<1>4. RequestInv'
  <2>1. req[t] \in Requests BY DEF HalInv, RequestInv, Outside
  <2>2. ASSUME NEW u \in Threads, u # t
        PROVE  /\ pc'[u] \notin {"start", "finish", "init", "send", "arbitrate", "transfer"}
               /\ pc'[u] # "idle" => req'[u] \in Requests
    BY <1>1, <2>2 DEF HalInv, RequestInv, Outside
  <2>3. /\ req'[t] \in Requests
        /\ pc'[t] \in {"start", "finish"} => LocalAccepted(req'[t])
        /\ pc'[t] \in {"init", "send", "arbitrate", "transfer"}
                => RemoteAccepted(req'[t])
    BY <1>1, <2>1
  <2> QED BY <2>2, <2>3 DEF RequestInv
<1>5. DestInv' BY <1>1 DEF DestInv
<1>6. UncontendedArbitration'
  <2>1. ASSUME NEW u \in Threads, u # t
        PROVE  pc'[u] \notin {"arbitrate", "transfer"}
    BY <1>1, <2>1 DEF Outside
  <2>2. pc'[t] = "transfer" => dest'[LockIndex(req'[t].dst)] = t BY <1>1
  <2>3. pc'[t] = "arbitrate" => dest'[LockIndex(req'[t].dst)] = NoThread
    <3>1. pc'[t] = "arbitrate" => RemoteAccepted(req[t]) BY <1>1
    <3>2. pc'[t] = "arbitrate" => LockIndex(req[t].dst) \in Locks
      BY <3>1, LockIndexType
    <3> QED BY <1>1, <3>2
  <2> QED BY <2>1, <2>2, <2>3 DEF UncontendedArbitration
<1>7. EngineRunsItsRequest'
  <2>1. ASSUME NEW u \in Threads, u # t PROVE pc'[u] # "start"
    BY <1>1, <2>1 DEF Outside
  <2> QED BY <1>1, <2>1 DEF EngineRunsItsRequest
<1> QED BY <1>2, <1>3, <1>4, <1>5, <1>6, <1>7 DEF HalInv

-----------------------------------------------------------------------------
LEMMA HalStep == HalInv /\ [Next]_vars => HalInv'
<1> SUFFICES ASSUME HalInv, [Next]_vars PROVE HalInv' OBVIOUS
<1> USE DEF Goto, Done
<1>0. ControlTypeOK BY DEF HalInv
<1>1. ASSUME NEW t \in Threads, Call(t) PROVE HalInv'
  <2>1. PICK r \in Requests : req' = [req EXCEPT ![t] = r] BY <1>1 DEF Call
  <2>2. /\ pc[t] = "idle" /\ calls < MaxCalls /\ calls' = calls + 1
        /\ pc' = [pc EXCEPT ![t] = "lock"]
        /\ UNCHANGED <<mem, hal, initialized, dest, handle>>
    BY <1>1 DEF Call
  <2>3. /\ pc'[t] = "lock" /\ req'[t] = r
        /\ \A u \in Threads : u # t => pc'[u] = pc[u] /\ req'[u] = req[u]
    BY <1>0, <2>1, <2>2 DEF ControlTypeOK
  <2>4. ControlTypeOK'
    <3>1. calls' \in 0 .. MaxCalls
      BY <1>0, <2>2, RequestAssumption DEF ControlTypeOK, RequestAssumption
    <3> QED BY <1>0, <2>1, <2>2, <3>1 DEF ControlTypeOK, PCs
  <2>5. MutexInv' BY <2>2, <2>3 DEF HalInv, MutexInv
  <2>6. RequestInv' BY <2>3 DEF HalInv, RequestInv
  <2>7. DestInv'
    <3>1. ASSUME NEW l \in Locks, dest[l] # NoThread
          PROVE  pc'[dest[l]] = "transfer" /\ l = LockIndex(req'[dest[l]].dst)
      <4>1. dest[l] \in Threads BY <1>0, <3>1 DEF ControlTypeOK
      <4>2. pc[dest[l]] = "transfer" /\ l = LockIndex(req[dest[l]].dst)
        BY <3>1 DEF HalInv, DestInv
      <4> QED BY <2>2, <2>3, <4>1, <4>2
    <3> QED BY <2>2, <3>1 DEF DestInv
  <2>8. UncontendedArbitration' /\ EngineRunsItsRequest'
    BY <2>2, <2>3 DEF HalInv, UncontendedArbitration, EngineRunsItsRequest
  <2> QED BY <2>4, <2>5, <2>6, <2>7, <2>8 DEF HalInv
<1>2. ASSUME NEW t \in Threads, Acquire(t) PROVE HalInv'
  <2>1. /\ pc[t] = "lock" /\ hal = NoThread /\ hal' = t
        /\ pc' = [pc EXCEPT ![t] = "body"]
        /\ UNCHANGED <<initialized, dest, handle, req, calls>>
    BY <1>2 DEF Acquire
  <2>2. NoThread \notin Threads BY RequestAssumption DEF RequestAssumption
  <2>3. /\ pc'[t] = "body"
        /\ \A u \in Threads : u # t => pc'[u] = pc[u] /\ pc[u] \in Outside
    BY <1>0, <2>1, <2>2 DEF HalInv, ControlTypeOK, MutexInv, Outside
  <2>4. ControlTypeOK' BY <1>0, <2>1 DEF ControlTypeOK, PCs
  <2>5. MutexInv' BY <2>1, <2>3 DEF MutexInv, Outside
  <2>6. RequestInv'
    <3>1. req[t] \in Requests BY <2>1 DEF HalInv, RequestInv
    <3>2. \A u \in Threads : pc'[u] \in Outside \cup {"body"} BY <2>3
    <3>3. \A u \in Threads : pc'[u] # "idle" => req'[u] \in Requests
      BY <2>1, <2>3, <3>1 DEF HalInv, RequestInv
    <3> QED BY <3>2, <3>3 DEF RequestInv, Outside
  <2>7. \A l \in Locks : dest'[l] = NoThread
    <3>1. ASSUME NEW l \in Locks, dest[l] # NoThread PROVE FALSE
      <4>1. dest[l] \in Threads /\ pc[dest[l]] = "transfer"
        BY <1>0, <3>1 DEF ControlTypeOK, HalInv, DestInv
      <4> QED BY <2>1, <2>3, <4>1 DEF Outside
    <3> QED BY <2>1, <3>1
  <2>8. DestInv' BY <2>7 DEF DestInv
  <2>9. UncontendedArbitration' /\ EngineRunsItsRequest'
    <3>1. \A u \in Threads : pc'[u] \in Outside \cup {"body"} BY <2>3
    <3> QED BY <3>1 DEF UncontendedArbitration, EngineRunsItsRequest, Outside
  <2> QED BY <2>4, <2>5, <2>6, <2>8, <2>9 DEF HalInv
<1>3. ASSUME NEW t \in Threads, Release(t) PROVE HalInv'
  <2>1. /\ pc[t] = "unlock" /\ hal' = NoThread
        /\ pc' = [pc EXCEPT ![t] = "idle"] /\ req' = [req EXCEPT ![t] = NoRequest]
        /\ UNCHANGED <<initialized, dest, handle, calls>>
    BY <1>3 DEF Release
  <2>2. pc[t] \notin Outside BY <2>1 DEF Outside
  <2>3. \A u \in Threads : pc'[u] \in Outside /\ (u # t => pc'[u] = pc[u])
    BY <1>0, <2>1, <2>2, Alone DEF ControlTypeOK, Outside
  <2>4. \A l \in Locks : dest'[l] = NoThread BY <2>1, <2>2, Alone
  <2>5. ControlTypeOK' BY <1>0, <2>1 DEF ControlTypeOK, PCs
  <2>6. MutexInv' BY <2>3 DEF MutexInv, Outside
  <2>7. RequestInv'
    <3>1. \A u \in Threads : pc'[u] # "idle" => req'[u] \in Requests
      <4>1. pc'[t] = "idle" BY <1>0, <2>1 DEF ControlTypeOK
      <4>2. \A u \in Threads : u # t => req'[u] = req[u] /\ pc'[u] = pc[u]
        BY <1>0, <2>1, <2>3 DEF ControlTypeOK
      <4> QED BY <4>1, <4>2 DEF HalInv, RequestInv
    <3> QED BY <2>3, <3>1 DEF RequestInv, Outside
  <2>8. DestInv' BY <2>4 DEF DestInv
  <2>9. UncontendedArbitration' /\ EngineRunsItsRequest'
    BY <2>3 DEF UncontendedArbitration, EngineRunsItsRequest, Outside
  <2> QED BY <2>5, <2>6, <2>7, <2>8, <2>9 DEF HalInv
<1>4. ASSUME NEW t \in Threads, NEW c \in {"unlock", "finish"},
             pc[t] \notin Outside \cup {"transfer"}, pc' = [pc EXCEPT ![t] = c],
             c = "finish" => LocalAccepted(req[t]),
             UNCHANGED <<hal, initialized, dest, handle, req, calls>>
      PROVE  HalInv'
  <2>1. \A l \in Locks : dest[l] = NoThread BY <1>4, Alone
  <2>2. c \in PCs \ Outside BY DEF PCs, Outside
  <2> QED BY <1>0, <1>4, <2>1, <2>2, OwnerStep DEF ControlTypeOK
<1>5. ASSUME NEW t \in Threads,
             Reject(t) \/ CopyDirectly(t) \/ MemoryRead(t) \/ MemoryWrite(t)
                \/ Query(t) \/ DmacFinish(t) \/ NocDrop(t)
      PROVE  HalInv'
  <2>1. /\ pc[t] \in {"body", "finish", "send"} /\ pc' = [pc EXCEPT ![t] = "unlock"]
        /\ UNCHANGED <<hal, initialized, dest, handle, req, calls>>
    BY <1>5 DEF Reject, CopyDirectly, MemoryRead, MemoryWrite, Query, DmacFinish,
                NocDrop, InBody
  <2> QED BY <1>4, <2>1 DEF Outside
<1>6. ASSUME NEW t \in Threads, DmacCopy(t) PROVE HalInv'
  <2>1. /\ pc[t] = "start" /\ pc' = [pc EXCEPT ![t] = "finish"]
        /\ UNCHANGED <<hal, initialized, dest, handle, req, calls>>
    BY <1>6 DEF DmacCopy
  <2>2. LocalAccepted(req[t]) BY <2>1 DEF HalInv, RequestInv
  <2> QED BY <1>4, <2>1, <2>2 DEF Outside
<1>7. ASSUME NEW t \in Threads, DmacConfigure(t) PROVE HalInv'
  <2>1. /\ pc[t] = "body" /\ req[t].op = "dma_local_transfer" /\ Accepted(req[t])
        /\ pc' = [pc EXCEPT ![t] = "start"]
        /\ handle' = [handle EXCEPT ![req[t].tile] =
              [src |-> req[t].src, dst |-> req[t].dst, count |-> req[t].size]]
        /\ UNCHANGED <<hal, initialized, dest, req, calls>>
    BY <1>7 DEF DmacConfigure, InBody
  <2>2. LocalAccepted(req[t]) BY <2>1 DEF Accepted
  <2>3. req[t] \in Requests BY <2>1 DEF HalInv, RequestInv
  <2>4. req[t].src \in Nat /\ req[t].dst \in Nat /\ req[t].size \in 0 .. MAX_SIZE
    BY <2>3, RequestAssumption DEF RequestAssumption
  <2>5. req[t].tile \in Tiles BY <2>2 DEF LocalAccepted
  <2>6. handle' \in [Tiles -> [src : Nat, dst : Nat, count : 0 .. MAX_SIZE]]
    BY <1>0, <2>1, <2>4 DEF ControlTypeOK
  <2>7. handle'[req[t].tile] =
            [src |-> req[t].src, dst |-> req[t].dst, count |-> req[t].size]
    BY <1>0, <2>1, <2>5 DEF ControlTypeOK
  <2>8. pc[t] \notin Outside /\ "start" \in PCs \ Outside BY <2>1 DEF PCs, Outside
  <2>9. \A l \in Locks : dest[l] = NoThread BY <2>1, <2>8, Alone
  <2> QED BY <1>0, <2>1, <2>2, <2>6, <2>7, <2>8, <2>9, OwnerStep DEF ControlTypeOK
<1>8. ASSUME NEW t \in Threads, NEW c \in {"init", "send", "arbitrate"},
             pc[t] \notin Outside \cup {"transfer"}, pc' = [pc EXCEPT ![t] = c],
             RemoteAccepted(req[t]), initialized' \in BOOLEAN,
             dest' \in {dest, [l \in Locks |-> NoThread]},
             UNCHANGED <<hal, handle, req, calls>>
      PROVE  HalInv'
  <2>1. \A l \in Locks : dest[l] = NoThread BY <1>8, Alone
  <2>2. c \in PCs \ Outside BY DEF PCs, Outside
  <2>3. /\ dest' \in [Locks -> Threads \cup {NoThread}]
        /\ \A l \in Locks : dest'[l] = NoThread
    BY <1>0, <1>8, <2>1 DEF ControlTypeOK
  <2> QED BY <1>0, <1>8, <2>2, <2>3, OwnerStep DEF ControlTypeOK
<1>9. ASSUME NEW t \in Threads, NocSend(t) PROVE HalInv'
  <2>1. /\ pc[t] = "body" /\ req[t].op = "dma_remote_transfer" /\ Accepted(req[t])
        /\ \E c \in {"init", "send", "arbitrate"} : pc' = [pc EXCEPT ![t] = c]
        /\ UNCHANGED <<hal, initialized, dest, handle, req, calls>>
    BY <1>9 DEF NocSend, InBody
  <2>2. RemoteAccepted(req[t]) BY <2>1 DEF Accepted
  <2>3. initialized' \in BOOLEAN BY <1>0, <2>1 DEF ControlTypeOK
  <2> QED BY <1>8, <2>1, <2>2, <2>3 DEF Outside
<1>10. ASSUME NEW t \in Threads, NocInitArbitration(t) \/ NocArrive(t) PROVE HalInv'
  <2>1. /\ pc[t] \in {"init", "send"} /\ initialized' \in BOOLEAN
        /\ \E c \in {"init", "send", "arbitrate"} : pc' = [pc EXCEPT ![t] = c]
        /\ dest' \in {dest, [l \in Locks |-> NoThread]}
        /\ UNCHANGED <<hal, handle, req, calls>>
    BY <1>0, <1>10 DEF NocInitArbitration, NocArrive, ControlTypeOK
  <2>2. RemoteAccepted(req[t]) BY <2>1 DEF HalInv, RequestInv
  <2> QED BY <1>8, <2>1, <2>2 DEF Outside
<1>11. ASSUME NEW t \in Threads, NocArbitrate(t) PROVE HalInv'
  <2> DEFINE k == LockIndex(req[t].dst)
  <2>1. /\ pc[t] = "arbitrate" /\ pc' = [pc EXCEPT ![t] = "transfer"]
        /\ dest' = [dest EXCEPT ![k] = t]
        /\ UNCHANGED <<hal, initialized, handle, req, calls>>
    BY <1>11 DEF NocArbitrate
  <2>2. RemoteAccepted(req[t]) BY <2>1 DEF HalInv, RequestInv
  <2>3. k \in Locks BY <2>2, LockIndexType
  <2>4. pc[t] \notin Outside /\ "transfer" \in PCs \ Outside BY <2>1 DEF PCs, Outside
  <2>5. \A l \in Locks : dest[l] = NoThread BY <2>1, <2>4, Alone
  <2> HIDE DEF k
  <2>6. /\ dest' \in [Locks -> Threads \cup {NoThread}] /\ dest'[k] = t
        /\ \A l \in Locks : l # k => dest'[l] = NoThread
    BY <1>0, <2>1, <2>3, <2>5 DEF ControlTypeOK
  <2> QED BY <1>0, <2>1, <2>2, <2>4, <2>6, OwnerStep DEF ControlTypeOK, k
<1>12. ASSUME NEW t \in Threads, NocTransfer(t) PROVE HalInv'
  <2> DEFINE k == LockIndex(req[t].dst)
  <2>1. /\ pc[t] = "transfer" /\ pc' = [pc EXCEPT ![t] = "unlock"]
        /\ dest' = [dest EXCEPT ![k] = NoThread]
        /\ UNCHANGED <<hal, initialized, handle, req, calls>>
    BY <1>12 DEF NocTransfer
  <2>2. pc[t] \notin Outside /\ "unlock" \in PCs \ Outside BY <2>1 DEF PCs, Outside
  <2>3. \A l \in Locks : dest[l] # NoThread => l = k BY <2>2, Alone
  <2> HIDE DEF k
  <2>4. /\ dest' \in [Locks -> Threads \cup {NoThread}]
        /\ \A l \in Locks : dest'[l] = NoThread
    BY <1>0, <2>1, <2>3 DEF ControlTypeOK
  <2> QED BY <1>0, <2>1, <2>2, <2>4, OwnerStep DEF ControlTypeOK
<1>13. CASE UNCHANGED vars
  BY <1>13 DEF vars, HalInv, ControlTypeOK, MutexInv, RequestInv, DestInv,
               UncontendedArbitration, EngineRunsItsRequest
<1> QED BY <1>1, <1>2, <1>3, <1>5, <1>6, <1>7, <1>9, <1>10, <1>11, <1>12, <1>13
        DEF Next, Step, Finished

LEMMA HalInvariant == Spec => []HalInv
<1> QED BY InitHal, HalStep, PTL DEF Spec

\* A packet never waits for its destination and nobody takes it away: the
\* locks of noc_send_packet are never contended, for any number of threads,
\* because each call of the HAL holds hal_mutex (UncontendedArbitration).
THEOREM PacketsNeverContend == Spec => []UncontendedArbitration
<1>1. HalInv => UncontendedArbitration BY DEF HalInv
<1> QED BY <1>1, HalInvariant, PTL

\* A tile's DMA engine, shared by all threads, is started with the addresses
\* of the thread that configured it (EngineRunsItsRequest).
THEOREM EngineIsNotShared == Spec => []EngineRunsItsRequest
<1>1. HalInv => EngineRunsItsRequest BY DEF HalInv
<1> QED BY <1>1, HalInvariant, PTL

-----------------------------------------------------------------------------
(***************************************************************************)
(* The flat memory                                                         *)
(***************************************************************************)

\* The instance of the abstract specification sees the same address map.
LEMMA SameMap ==
  /\ Flat!Tiles = Tiles
  /\ \A t : Flat!TileBase(t) = TileBase(t)
  /\ \A a, b, n : Flat!Within(a, b, n) = Within(a, b, n)
  /\ \A m : Flat!Base(m) = Base(m)
  /\ \A k : Flat!Size(k) = Size(k) /\ Flat!Memories(k) = Memories(k)
  /\ \A m : Flat!Span(m) = Span(m)
  /\ Flat!AllMemories = AllMemories
  /\ Flat!Addresses = Addresses
<1>1. Flat!Tiles = Tiles BY DEF Flat!Tiles, Tiles
<1>2. \A t : Flat!TileBase(t) = TileBase(t) BY DEF Flat!TileBase, TileBase
<1>3. \A a, b, n : Flat!Within(a, b, n) = Within(a, b, n) BY DEF Flat!Within, Within
<1>4. \A m : Flat!Base(m) = Base(m) BY <1>2 DEF Flat!Base, Base
<1>5. Flat!Dmems = Dmems BY DEF Flat!Dmems, Dmems
<1>6. \A k : Flat!Size(k) = Size(k) BY DEF Flat!Size, Size
<1>7. \A k : Flat!Memories(k) = Memories(k)
  BY <1>1, <1>5 DEF Flat!Memories, Memories
<1>8. \A m : Flat!Span(m) = Span(m) BY <1>4, <1>6 DEF Flat!Span, Span
<1>9. Flat!AllMemories = AllMemories
  BY <1>7 DEF Flat!AllMemories, AllMemories, Flat!Kinds, Kinds
<1>10. Flat!Addresses = Addresses BY <1>8, <1>9 DEF Flat!Addresses, Addresses
<1> QED BY <1>1, <1>2, <1>3, <1>4, <1>6, <1>7, <1>8, <1>9, <1>10

\* n cells from a lie in m.
Lies(m, a, n) == n >= 1 /\ {a, a + n - 1} \subseteq Span(m)

\* A request is no larger than the gaps between the memories.
LEMMA RequestFits ==
  ASSUME NEW r \in Requests
  PROVE  /\ r.src \in Nat /\ r.dst \in Nat /\ r.size \in Nat /\ r.op \in Operations
         /\ ValidateAddress(r.src, r.size) <=> \E m \in AllMemories : Lies(m, r.src, r.size)
         /\ ValidateAddress(r.dst, r.size) <=> \E m \in AllMemories : Lies(m, r.dst, r.size)
<1>1. /\ r.src \in Nat /\ r.dst \in Nat /\ r.size \in 0 .. MAX_SIZE /\ r.op \in Operations
      /\ MAX_SIZE \in Nat
  BY RequestAssumption DEF RequestAssumption
<1>2. r.size \in Nat /\ r.size <= MAX_SIZE BY <1>1
<1>3. Gaps(r.size)
  BY <1>1, <1>2, MapFacts, RequestAssumption DEF RequestAssumption, Gaps
<1> QED BY <1>1, <1>2, <1>3, ValidMeansOneBuffer DEF Lies

\* The calls in terms of the map: what each of them checks, read as where its
\* ranges lie.
LEMMA LegalIs ==
  ASSUME NEW r
  PROVE  /\ r.op = "cpu_local_move" => (Flat!Legal(r) <=>
              /\ \E m \in AllMemories : Lies(m, r.src, r.size)
              /\ \E m \in AllMemories : Lies(m, r.dst, r.size))
         /\ r.op = "dma_local_transfer" => (Flat!Legal(r) <=>
              /\ r.tile \in Tiles
              /\ \E k \in {"dlm64", "dlm1"} : Lies(<<k, r.tile>>, r.src, r.size)
              /\ \E k \in {"dlm64", "dlm1"} : Lies(<<k, r.tile>>, r.dst, r.size))
         /\ r.op = "dma_remote_transfer" => (Flat!Legal(r) <=>
              \E k, l \in {"dlm1", "dmem"} : k # l /\
                 /\ \E m \in Memories(k) : Lies(m, r.src, r.size)
                 /\ \E m \in Memories(l) : Lies(m, r.dst, r.size))
         /\ r.op = "dmem_to_dmem_transfer" => (Flat!Legal(r) <=>
              /\ \E m \in Memories("dmem") : Lies(m, r.src, r.size)
              /\ \E m \in Memories("dmem") : Lies(m, r.dst, r.size))
         /\ r.op = "memory_read" => (Flat!Legal(r) <=>
              \E m \in AllMemories : Lies(m, r.src, r.size))
         /\ r.op = "memory_write" => (Flat!Legal(r) <=>
              \E m \in AllMemories : Lies(m, r.dst, r.size))
         /\ r.op = "get_dmem_status" => (Flat!Legal(r) <=>
              \E m \in Memories("dmem") : Lies(m, r.src, 1))
         /\ r.op = "mesh_route_optimal" => (Flat!Legal(r) <=>
              /\ \E t \in Tiles : Within(r.src, TileBase(t), TILE_STRIDE)
              /\ \E t \in Tiles : Within(r.dst, TileBase(t), TILE_STRIDE))
         /\ r.op = "node_sync" => Flat!Legal(r)
<1>1. \A m, a, n : Flat!LiesIn(m, a, n) <=> Lies(m, a, n)
  BY SameMap DEF Flat!LiesIn, Lies
<1>2. \A a, n : Flat!LiesInSome(a, n) <=> \E m \in AllMemories : Lies(m, a, n)
  BY <1>1, SameMap DEF Flat!LiesInSome
<1>3. \A k, a, n : Flat!LiesInKind(k, a, n) <=> \E m \in Memories(k) : Lies(m, a, n)
  BY <1>1, SameMap DEF Flat!LiesInKind
<1>4. \A t, a, n : Flat!LiesInTile(t, a, n)
                    <=> \E k \in {"dlm64", "dlm1"} : Lies(<<k, t>>, a, n)
  BY <1>1 DEF Flat!LiesInTile
<1>5. \A t, a : Flat!InTile(t, a) <=> Within(a, TileBase(t), TILE_STRIDE)
  BY SameMap DEF Flat!InTile
<1>6. CASE r.op = "cpu_local_move" BY <1>2, <1>6 DEF Flat!Legal
<1>7. CASE r.op = "dma_local_transfer" BY <1>4, <1>7, SameMap DEF Flat!Legal
<1>8. CASE r.op = "dma_remote_transfer" BY <1>3, <1>8 DEF Flat!Legal
<1>9. CASE r.op = "dmem_to_dmem_transfer" BY <1>3, <1>9 DEF Flat!Legal
<1>10. CASE r.op \in {"memory_read", "memory_write"} BY <1>2, <1>10 DEF Flat!Legal
<1>11. CASE r.op = "get_dmem_status" BY <1>3, <1>11 DEF Flat!Legal
<1>12. CASE r.op = "mesh_route_optimal" BY <1>5, <1>12, SameMap DEF Flat!Legal
<1>13. CASE r.op = "node_sync" BY <1>13 DEF Flat!Legal
<1> QED BY <1>6, <1>7, <1>8, <1>9, <1>10, <1>11, <1>12, <1>13

\* The kinds that get_address_region and the checks of the calls tell apart.
LEMMA KindOf ==
  /\ \A k \in Kinds : \A m : m \in Memories(k) <=> m \in AllMemories /\ m[1] = k
  /\ \A m \in AllMemories : m[1] \in Kinds /\ (m[1] \in {"dlm64", "dlm1"} => m = <<m[1], m[2]>>)
  /\ \A k \in {"dlm64", "dlm1"}, t \in Tiles : <<k, t>> \in AllMemories
<1>1. /\ \A k \in {"dlm64", "dlm1"} : Memories(k) = {k} \X Tiles
      /\ Memories("dmem") = {"dmem"} \X Dmems /\ Memories("c0") = {"c0"} \X {0}
  BY MemoriesOf
<1>2. \A k \in Kinds : \A m \in Memories(k) : m[1] = k BY <1>1 DEF Kinds
<1>3. \A m : m \in AllMemories <=> \E k \in Kinds : m \in Memories(k)
  BY DEF AllMemories
<1>4. \A k \in {"dlm64", "dlm1"} : \A m \in Memories(k) : m = <<m[1], m[2]>>
  BY <1>1
<1> QED BY <1>1, <1>2, <1>3, <1>4 DEF Kinds

\* Each call carries out what the abstract specification carries out, and
\* refuses what it refuses: the checks of the calls and of their drivers come to
\* the same as asking where the ranges lie.
THEOREM AcceptedIsLegal ==
  ASSUME NEW r \in Requests PROVE Accepted(r) <=> Flat!Legal(r)
<1> DEFINE valid(a) == \E m \in AllMemories : Lies(m, a, r.size)
<1>0. /\ r.src \in Nat /\ r.dst \in Nat /\ r.size \in Nat /\ r.op \in Operations
      /\ ValidateAddress(r.src, r.size) <=> valid(r.src)
      /\ ValidateAddress(r.dst, r.size) <=> valid(r.dst)
  BY RequestFits
<1>1. \A m \in AllMemories : \A a \in Span(m) : AddrToPtr(a) # NULL
  <2>1. ASSUME NEW m \in AllMemories, NEW a \in Span(m), AddrToPtr(a) = NULL
        PROVE  FALSE
    <3>1. m = <<"none", 0>> BY <2>1, PtrOf DEF NULL
    <3> QED BY <3>1, MemoryKinds
  <2> QED BY <2>1
<1>2. \A a : valid(a) => AddrToPtr(a) # NULL BY <1>1 DEF Lies
<1>3. ASSUME NEW a \in {r.src, r.dst}, NEW k \in Kinds
      PROVE  valid(a) /\ GetAddressRegion(a) = k
                <=> \E m \in Memories(k) : Lies(m, a, r.size)
  <2>1. \A m \in AllMemories : Lies(m, a, r.size) => GetAddressRegion(a) = m[1]
    BY RegionOf DEF Lies
  <2> QED BY <2>1, KindOf
<1>4. ASSUME NEW a \in {r.src, r.dst}, r.tile \in Tiles
      PROVE  valid(a) /\ GetTileId(a) = r.tile
                <=> \E k \in {"dlm64", "dlm1"} : Lies(<<k, r.tile>>, a, r.size)
  <2>1. r.tile # -1 BY <1>4, MapFacts
  <2>2. ASSUME NEW m \in AllMemories, Lies(m, a, r.size), GetTileId(a) = r.tile
        PROVE  \E k \in {"dlm64", "dlm1"} : Lies(<<k, r.tile>>, a, r.size)
    <3>1. a \in Span(m) BY <2>2 DEF Lies
    <3>2. m[1] \in {"dlm64", "dlm1"}
      BY <2>1, <2>2, <3>1, RegionOf, KindOf DEF Kinds
    <3>3. m[2] = r.tile BY <2>2, <3>1, <3>2, RegionOf
    <3>4. m = <<m[1], r.tile>> BY <3>2, <3>3, KindOf
    <3>5. Lies(<<m[1], r.tile>>, a, r.size) BY <2>2, <3>4
    <3> QED BY <3>2, <3>5
  <2>3. ASSUME NEW k \in {"dlm64", "dlm1"}, Lies(<<k, r.tile>>, a, r.size)
        PROVE  valid(a) /\ GetTileId(a) = r.tile
    <3>1. <<k, r.tile>> \in AllMemories BY <1>4, KindOf
    <3>2. a \in Span(<<k, r.tile>>) BY <2>3 DEF Lies
    <3>3. GetTileId(a) = <<k, r.tile>>[2] BY <3>1, <3>2, RegionOf
    <3> QED BY <2>3, <3>1, <3>3
  <2> QED BY <2>2, <2>3
<1>5. ASSUME NEW a \in {r.src, r.dst}
      PROVE  GetTileId(a) >= 0 <=> \E t \in Tiles : Within(a, TileBase(t), TILE_STRIDE)
  <2>1. a \in Int BY <1>0
  <2>2. \A t \in Tiles : t >= 0 BY MapFacts
  <2>3. \A t \in Tiles : Within(a, TileBase(t), TILE_STRIDE) => GetTileId(a) = t
    BY <2>1, TileIdOf
  <2>4. \/ GetTileId(a) = -1
        \/ GetTileId(a) \in Tiles /\ Within(a, TileBase(GetTileId(a)), TILE_STRIDE)
    BY <2>1, TileIdOf
  <2> QED BY <2>2, <2>3, <2>4
<1>6. GetAddressRegion(r.src) = "dmem" /\ GetDmemId(r.src) >= 0
        <=> \E m \in Memories("dmem") : Lies(m, r.src, 1)
  <2>1. \A m : Lies(m, r.src, 1) <=> r.src \in Span(m)
    <3>1. r.src + 1 - 1 = r.src BY <1>0
    <3> QED BY <3>1 DEF Lies
  <2>2. ASSUME GetAddressRegion(r.src) = "dmem"
        PROVE  \E m \in Memories("dmem") : r.src \in Span(m)
    <3>1. PICK m \in AllMemories : r.src \in Span(m) BY <1>0, <2>2, RegionHas
    <3>2. m[1] = "dmem" BY <2>2, <3>1, RegionOf
    <3> QED BY <3>1, <3>2, KindOf DEF Kinds
  <2>3. ASSUME NEW m \in Memories("dmem"), r.src \in Span(m)
        PROVE  GetAddressRegion(r.src) = "dmem" /\ GetDmemId(r.src) >= 0
    <3>1. m \in AllMemories /\ m[1] = "dmem" BY KindOf DEF Kinds
    <3>2. GetAddressRegion(r.src) = "dmem" /\ GetDmemId(r.src) \in Dmems
      BY <2>3, <3>1, RegionOf
    <3>3. \A d \in Dmems : d >= 0 BY MapFacts
    <3> QED BY <3>2, <3>3
  <2> QED BY <2>1, <2>2, <2>3
<1> HIDE DEF valid
<1>7. CASE r.op = "cpu_local_move"
  <2>1. Accepted(r) <=> valid(r.src) /\ valid(r.dst)
    BY <1>0, <1>2, <1>7 DEF Accepted, BothValid
  <2> QED BY <1>7, <2>1, LegalIs DEF valid
<1>8. CASE r.op = "dma_local_transfer"
  <2>1. Accepted(r) <=> /\ r.tile \in Tiles
                        /\ valid(r.src) /\ GetTileId(r.src) = r.tile
                        /\ valid(r.dst) /\ GetTileId(r.dst) = r.tile
    BY <1>0, <1>8 DEF Accepted, LocalAccepted, BothValid
  <2> QED BY <1>4, <1>8, <2>1, LegalIs
<1>9. CASE r.op = "dma_remote_transfer"
  <2>1. Accepted(r) <=>
          \E k, l \in {"dlm1", "dmem"} : k # l /\
             /\ valid(r.src) /\ GetAddressRegion(r.src) = k
             /\ valid(r.dst) /\ GetAddressRegion(r.dst) = l
    BY <1>0, <1>9 DEF Accepted, RemoteAccepted, BothValid
  <2>2. \A k \in {"dlm1", "dmem"} : k \in Kinds BY DEF Kinds
  <2> QED BY <1>3, <1>9, <2>1, <2>2, LegalIs
<1>10. CASE r.op = "dmem_to_dmem_transfer"
  <2>1. Accepted(r) <=> /\ valid(r.src) /\ GetAddressRegion(r.src) = "dmem"
                        /\ valid(r.dst) /\ GetAddressRegion(r.dst) = "dmem"
    BY <1>0, <1>10 DEF Accepted, DmemAccepted, BothValid
  <2> QED BY <1>3, <1>10, <2>1, LegalIs DEF Kinds
<1>11. CASE r.op = "memory_read"
  <2>1. Accepted(r) <=> valid(r.src) BY <1>0, <1>2, <1>11 DEF Accepted
  <2> QED BY <1>11, <2>1, LegalIs DEF valid
<1>12. CASE r.op = "memory_write"
  <2>1. Accepted(r) <=> valid(r.dst) BY <1>0, <1>2, <1>12 DEF Accepted
  <2> QED BY <1>12, <2>1, LegalIs DEF valid
<1>13. CASE r.op = "get_dmem_status" BY <1>6, <1>13, LegalIs DEF Accepted
<1>14. CASE r.op = "mesh_route_optimal" BY <1>5, <1>14, LegalIs DEF Accepted
<1>15. CASE r.op = "node_sync" BY <1>15, LegalIs DEF Accepted
<1> QED BY <1>0, <1>7, <1>8, <1>9, <1>10, <1>11, <1>12, <1>13, <1>14, <1>15
        DEF Operations

-----------------------------------------------------------------------------
(***************************************************************************)
(* The buffers, seen by address.                                           *)
(***************************************************************************)

\* A cell of a buffer has an address, and addr_to_ptr leads back to it.
LEMMA Cells ==
  /\ \A m \in AllMemories : \A a \in Span(m) :
       /\ a \in Addresses /\ a \in Nat
       /\ Pointers[a] = [mem |-> m, off |-> a - Base(m)]
       /\ AddrToPtr(a) = Pointers[a] /\ Pointers[a] \in Buffers
  /\ \A a \in Addresses : \E m \in AllMemories : a \in Span(m)
  /\ \A p \in Buffers : /\ p.mem \in AllMemories /\ p.off \in Nat
                        /\ p = [mem |-> p.mem, off |-> p.off]
                        /\ Base(p.mem) + p.off \in Span(p.mem)
<1>1. \A a \in Addresses : \E m \in AllMemories : a \in Span(m) BY DEF Addresses
<1>2. ASSUME NEW m \in AllMemories, NEW a \in Span(m)
      PROVE  /\ a \in Addresses /\ a \in Nat
             /\ Pointers[a] = [mem |-> m, off |-> a - Base(m)]
             /\ AddrToPtr(a) = Pointers[a] /\ Pointers[a] \in Buffers
  <2>1. a \in Addresses BY DEF Addresses
  <2>2. a \in Nat /\ Within(a, Base(m), Size(m[1])) /\ Base(m) \in Nat
        /\ Size(m[1]) \in Nat
    BY Spans
  <2>3. AddrToPtr(a) = [mem |-> m, off |-> a - Base(m)] BY PtrOf
  <2>4. Pointers[a] = AddrToPtr(a) BY <2>1 DEF Pointers
  <2>5. a - Base(m) \in 0 .. Size(m[1]) - 1 BY <2>2 DEF Within
  <2>6. [mem |-> m, off |-> a - Base(m)] \in Buffer(m) BY <2>5 DEF Buffer
  <2> QED BY <2>1, <2>2, <2>3, <2>4, <2>6 DEF Buffers
<1>3. ASSUME NEW p \in Buffers
      PROVE  /\ p.mem \in AllMemories /\ p.off \in Nat
             /\ p = [mem |-> p.mem, off |-> p.off]
             /\ Base(p.mem) + p.off \in Span(p.mem)
  <2>1. PICK m \in AllMemories : p \in [mem : {m}, off : 0 .. Size(m[1]) - 1]
    BY DEF Buffers, Buffer
  <2>2. p.mem = m /\ p.off \in 0 .. Size(m[1]) - 1 BY <2>1
  <2>3. Base(m) \in Nat /\ Size(m[1]) \in Nat BY Spans
  <2>4. Within(Base(m) + p.off, Base(m), Size(m[1])) BY <2>2, <2>3 DEF Within
  <2>5. Base(m) + p.off \in Span(m) BY <2>2, <2>3, <2>4, Spans
  <2>6. p = [mem |-> p.mem, off |-> p.off] BY <2>1
  <2> QED BY <2>2, <2>3, <2>5, <2>6
<1> QED BY <1>1, <1>2, <1>3

\* The cells of a range, counted from its first address.
LEMMA RangeCells ==
  ASSUME NEW m \in AllMemories, NEW a \in Nat, NEW n \in Nat, Lies(m, a, n)
  PROVE  /\ \A k \in 0 .. n - 1 : a + k \in Span(m)
         /\ AddrToPtr(a) = [mem |-> m, off |-> a - Base(m)]
         /\ \A k \in 0 .. n - 1 : Pointers[a + k] = [mem |-> m, off |-> a - Base(m) + k]
<1>1. /\ a \in Span(m) /\ a + n - 1 \in Span(m) /\ Base(m) \in Nat
      /\ Size(m[1]) \in Nat
  BY Spans DEF Lies
<1>2. Within(a, Base(m), Size(m[1])) /\ Within(a + n - 1, Base(m), Size(m[1]))
  BY <1>1, Spans
<1>3. ASSUME NEW k \in 0 .. n - 1
      PROVE  a + k \in Span(m) /\ (a + k) - Base(m) = a - Base(m) + k
  <2>1. Within(a + k, Base(m), Size(m[1])) BY <1>1, <1>2 DEF Within
  <2> QED BY <1>1, <2>1, Spans
<1>4. AddrToPtr(a) = [mem |-> m, off |-> a - Base(m)] BY <1>1, PtrOf
<1>5. \A k \in 0 .. n - 1 : Pointers[a + k] = [mem |-> m, off |-> (a + k) - Base(m)]
  BY <1>3, Cells
<1>6. \A k \in 0 .. n - 1 : Pointers[a + k] = [mem |-> m, off |-> a - Base(m) + k]
  BY <1>3, <1>5
<1> QED BY <1>3, <1>4, <1>6

\* What a cell of the destination of a copy is, in the buffers and by address.
LEMMA InRange ==
  ASSUME NEW w \in AllMemories, NEW dst \in Nat, NEW N \in Nat, Lies(w, dst, N),
         NEW n \in 0 .. N, NEW a \in Addresses
  PROVE  /\ Pointers[a].mem = w /\ Within(Pointers[a].off, AddrToPtr(dst).off, n)
               <=> Within(a, dst, n)
         /\ AddrToPtr(dst).mem = w
         /\ Within(a, dst, n) => /\ a - dst \in 0 .. N - 1
                                 /\ Pointers[a].off - AddrToPtr(dst).off = a - dst
<1>1. PICK m \in AllMemories : a \in Span(m) BY Cells
<1>2. Pointers[a] = [mem |-> m, off |-> a - Base(m)] /\ a \in Nat BY <1>1, Cells
<1>3. AddrToPtr(dst) = [mem |-> w, off |-> dst - Base(w)] BY RangeCells
<1>4. Base(m) \in Nat /\ Base(w) \in Nat BY Spans
<1>5. ASSUME Within(a, dst, n) PROVE m = w /\ a - dst \in 0 .. N - 1
  <2>1. a - dst \in 0 .. N - 1 /\ dst + (a - dst) = a BY <1>2, <1>5 DEF Within
  <2>2. dst + (a - dst) \in Span(w) BY <2>1, RangeCells
  <2>3. Pointers[a] = [mem |-> w, off |-> a - Base(w)] BY <2>1, <2>2, Cells
  <2>4. Pointers[a].mem = m /\ Pointers[a].mem = w BY <1>2, <2>3
  <2> QED BY <2>1, <2>4
<1>6. CASE m = w
  <2>1. Pointers[a].off = a - Base(w) /\ AddrToPtr(dst).off = dst - Base(w)
        /\ Pointers[a].mem = w /\ AddrToPtr(dst).mem = w
    BY <1>2, <1>3, <1>6
  <2>2. Within(a - Base(w), dst - Base(w), n) <=> Within(a, dst, n)
    BY <1>2, <1>4 DEF Within
  <2>3. (a - Base(w)) - (dst - Base(w)) = a - dst BY <1>2, <1>4
  <2> QED BY <1>5, <2>1, <2>2, <2>3
<1>7. CASE m # w
  <2>1. Pointers[a].mem # w /\ AddrToPtr(dst).mem = w BY <1>2, <1>3, <1>7
  <2> QED BY <1>5, <1>7, <2>1
<1> QED BY <1>6, <1>7

\* What mem' looks like if it is a copy, or a store.
LEMMA SeenCopied ==
  ASSUME NEW m \in AllMemories, NEW w \in AllMemories, NEW src \in Nat, NEW dst \in Nat,
         NEW N \in Nat, Lies(m, src, N), Lies(w, dst, N), NEW n \in 0 .. N
  PROVE  Seen(Copied(AddrToPtr(src), AddrToPtr(dst), n))
            = Flat!Move(Seen(mem), src, dst, n)
<1> DEFINE new == Copied(AddrToPtr(src), AddrToPtr(dst), n)
<1>1. AddrToPtr(src) = [mem |-> m, off |-> src - Base(m)] BY RangeCells
<1>2. ASSUME NEW a \in Addresses
      PROVE  new[Pointers[a]] = IF Within(a, dst, n) THEN Seen(mem)[src + (a - dst)]
                                                     ELSE Seen(mem)[a]
  <2>1. Pointers[a] \in Buffers BY Cells
  <2>2. new[Pointers[a]] =
          IF Pointers[a].mem = AddrToPtr(dst).mem
                /\ Within(Pointers[a].off, AddrToPtr(dst).off, n)
          THEN mem[[mem |-> AddrToPtr(src).mem,
                    off |-> AddrToPtr(src).off + (Pointers[a].off - AddrToPtr(dst).off)]]
          ELSE mem[Pointers[a]]
    BY <2>1 DEF Copied
  <2>3. CASE Within(a, dst, n)
    <3>1. a - dst \in 0 .. N - 1
          /\ Pointers[a].off - AddrToPtr(dst).off = a - dst
          /\ Pointers[a].mem = AddrToPtr(dst).mem
          /\ Within(Pointers[a].off, AddrToPtr(dst).off, n)
      BY <2>3, InRange
    <3>2. new[Pointers[a]] = mem[[mem |-> m, off |-> src - Base(m) + (a - dst)]]
      BY <1>1, <2>2, <3>1
    <3>3. src + (a - dst) \in Span(m)
          /\ Pointers[src + (a - dst)] = [mem |-> m, off |-> src - Base(m) + (a - dst)]
      BY <3>1, RangeCells
    <3>4. src + (a - dst) \in Addresses BY <3>3, Cells
    <3> QED BY <2>3, <3>2, <3>3, <3>4 DEF Seen
  <2>4. CASE ~Within(a, dst, n)
    <3>1. ~(/\ Pointers[a].mem = AddrToPtr(dst).mem
            /\ Within(Pointers[a].off, AddrToPtr(dst).off, n))
      BY <2>4, InRange
    <3> QED BY <2>2, <2>4, <3>1 DEF Seen
  <2> QED BY <2>3, <2>4
<1> HIDE DEF new
<1>3. Seen(new) = [a \in Addresses |-> IF Within(a, dst, n) THEN Seen(mem)[src + (a - dst)]
                                                            ELSE Seen(mem)[a]]
  BY <1>2 DEF Seen
<1>4. DOMAIN Seen(mem) = Addresses BY DEF Seen
<1> QED BY <1>3, <1>4, SameMap DEF Flat!Move, new

LEMMA SeenStored ==
  ASSUME NEW w \in AllMemories, NEW dst \in Nat, NEW n \in Nat, Lies(w, dst, n), NEW x
  PROVE  Seen(Stored(AddrToPtr(dst), n, x)) = Flat!Store(Seen(mem), dst, n, x)
<1> DEFINE new == Stored(AddrToPtr(dst), n, x)
<1>1. ASSUME NEW a \in Addresses
      PROVE  new[Pointers[a]] = IF Within(a, dst, n) THEN x ELSE Seen(mem)[a]
  <2>1. Pointers[a] \in Buffers BY Cells
  <2>2. new[Pointers[a]] =
          IF Pointers[a].mem = AddrToPtr(dst).mem
                /\ Within(Pointers[a].off, AddrToPtr(dst).off, n)
          THEN x ELSE mem[Pointers[a]]
    BY <2>1 DEF Stored
  <2>3. Pointers[a].mem = AddrToPtr(dst).mem
          /\ Within(Pointers[a].off, AddrToPtr(dst).off, n)
            <=> Within(a, dst, n)
    <3>1. n \in 0 .. n OBVIOUS
    <3>2. AddrToPtr(dst).mem = w BY <3>1, InRange
    <3>3. Pointers[a].mem = w /\ Within(Pointers[a].off, AddrToPtr(dst).off, n)
             <=> Within(a, dst, n)
      BY <3>1, InRange
    <3> QED BY <3>2, <3>3
  <2> QED BY <2>2, <2>3 DEF Seen
<1> HIDE DEF new
<1>2. Seen(new) = [a \in Addresses |-> IF Within(a, dst, n) THEN x ELSE Seen(mem)[a]]
  BY <1>1 DEF Seen
<1>3. DOMAIN Seen(mem) = Addresses BY DEF Seen
<1> QED BY <1>2, <1>3, SameMap DEF Flat!Store, new

\* The registers of a DMA engine are a cell of its tile's DLM1_512.
LEMMA SeenRegisters ==
  ASSUME NEW t \in Tiles
  PROVE  Seen(Stored(Instance(t), 1, Registers)) = Flat!WithRegisters(Seen(mem), t)
<1> DEFINE a0 == TileBase(t) + DMA_REG_OFFSET
<1>1. a0 \in Nat /\ <<"dlm1", t>> \in AllMemories BY TilesInARow, MapFacts, KindOf
<1>2. Within(a0, Base(<<"dlm1", t>>), DLM1_512_SIZE)
  BY TilesInARow, Places, MapFacts DEF Within
<1>3. a0 \in Span(<<"dlm1", t>>) BY <1>1, <1>2, Spans, Places
<1> HIDE DEF a0
<1>4. Lies(<<"dlm1", t>>, a0, 1) /\ a0 \in Addresses
  <2>1. a0 + 1 - 1 = a0 BY <1>1
  <2>2. Lies(<<"dlm1", t>>, a0, 1) BY <1>3, <2>1 DEF Lies
  <2> QED BY <1>1, <1>3, <2>2, Cells
<1>5. Seen(Stored(AddrToPtr(a0), 1, Registers)) = Flat!Store(Seen(mem), a0, 1, Registers)
  BY <1>1, <1>4, SeenStored
<1>6. \A a \in Addresses : Within(a, a0, 1) <=> a = a0
  <2>1. \A a \in Addresses : a \in Nat BY Cells
  <2> QED BY <1>1, <2>1 DEF Within
<1>7. DOMAIN Seen(mem) = Addresses BY DEF Seen
<1>8. Flat!Store(Seen(mem), a0, 1, Registers) = [Seen(mem) EXCEPT ![a0] = Registers]
  BY <1>6, <1>7, SameMap DEF Flat!Store, Seen
<1> QED BY <1>5, <1>8, SameMap DEF Instance, Flat!WithRegisters, a0

-----------------------------------------------------------------------------
(***************************************************************************)
(* What the calls do and answer, one kind after the other.                 *)
(***************************************************************************)

LEMMA EffectIs ==
  ASSUME NEW m, NEW r
  PROVE  /\ r.op \in {"cpu_local_move", "dmem_to_dmem_transfer"} =>
                Flat!Effect(m, r) = Flat!Move(m, r.src, r.dst, r.size)
         /\ r.op = "dma_remote_transfer" =>
                Flat!Effect(m, r) = Flat!Move(m, r.src, r.dst, Length(r))
         /\ r.op = "dma_local_transfer" =>
                Flat!Effect(m, r) =
                    Flat!WithRegisters(Flat!Move(Flat!WithRegisters(m, r.tile),
                                                 r.src, r.dst, r.size), r.tile)
         /\ r.op = "memory_write" =>
                Flat!Effect(m, r) = Flat!Store(m, r.dst, r.size, r.data)
         /\ r.op \in {"memory_read", "get_dmem_status", "mesh_route_optimal", "node_sync"}
                => Flat!Effect(m, r) = m
<1>1. CASE r.op \in {"cpu_local_move", "dmem_to_dmem_transfer"}
  BY <1>1 DEF Flat!Effect
<1>2. CASE r.op = "dma_remote_transfer" BY <1>2 DEF Flat!Effect, Length
<1>3. CASE r.op = "dma_local_transfer" BY <1>3 DEF Flat!Effect
<1>4. CASE r.op = "memory_write" BY <1>4 DEF Flat!Effect
<1>5. CASE r.op \in {"memory_read", "get_dmem_status", "mesh_route_optimal", "node_sync"}
  BY <1>5 DEF Flat!Effect
<1> QED BY <1>1, <1>2, <1>3, <1>4, <1>5

LEMMA OutcomeIs ==
  ASSUME NEW m, NEW r
  PROVE  /\ r.op \in {"cpu_local_move", "dmem_to_dmem_transfer", "get_dmem_status",
                      "node_sync"} =>
                Flat!Outcome(m, r) = [code |-> 0, data |-> << >>]
         /\ r.op \in {"dma_local_transfer", "dma_remote_transfer", "memory_write"} =>
                Flat!Outcome(m, r) = [code |-> r.size, data |-> << >>]
         /\ r.op = "memory_read" =>
                Flat!Outcome(m, r) = [code |-> r.size,
                                      data |-> [i \in 1 .. r.size |-> m[r.src + i - 1]]]
         /\ r.op = "mesh_route_optimal" =>
                Flat!Outcome(m, r) =
                    [code |-> Hops(Flat!TileAt(r.src), Flat!TileAt(r.dst)), data |-> << >>]
<1>1. CASE r.op \in {"cpu_local_move", "dmem_to_dmem_transfer", "get_dmem_status",
                     "node_sync"}
  BY <1>1 DEF Flat!Outcome, Flat!Code
<1>2. CASE r.op \in {"dma_local_transfer", "dma_remote_transfer", "memory_write"}
  BY <1>2 DEF Flat!Outcome, Flat!Code
<1>3. CASE r.op = "memory_read" BY <1>3 DEF Flat!Outcome, Flat!Code
<1>4. CASE r.op = "mesh_route_optimal"
  <2>1. \A a, b : Flat!Hops(a, b) = Hops(a, b)
    BY DEF Flat!Hops, Hops, Flat!Abs, Abs
  <2>2. Flat!Code(r) = Hops(Flat!TileAt(r.src), Flat!TileAt(r.dst))
    BY <1>4, <2>1 DEF Flat!Code
  <2> QED BY <1>4, <2>2 DEF Flat!Outcome
<1> QED BY <1>1, <1>2, <1>3, <1>4

\* get_tile_id gives the one tile that an address is in.
LEMMA TileAtIs ==
  ASSUME NEW a \in Nat, GetTileId(a) >= 0 PROVE Flat!TileAt(a) = GetTileId(a)
<1>1. GetTileId(a) \in Tiles /\ Within(a, TileBase(GetTileId(a)), TILE_STRIDE)
  BY TileIdOf
<1>2. \A u \in Tiles : Flat!InTile(u, a) <=> u = GetTileId(a)
  BY <1>1, OneTile, SameMap DEF Flat!InTile
<1>3. Flat!TileAt(a) = CHOOSE u \in Tiles : Flat!InTile(u, a)
  BY SameMap DEF Flat!TileAt
<1> QED BY <1>1, <1>2, <1>3

\* Where the ranges of an accepted call lie.
LEMMA RangesOf ==
  ASSUME NEW r \in Requests, Accepted(r)
  PROVE  /\ r.op \in {"cpu_local_move", "dma_local_transfer", "dma_remote_transfer",
                      "dmem_to_dmem_transfer", "memory_read"} =>
                \E m \in AllMemories : Lies(m, r.src, r.size)
         /\ r.op \in {"cpu_local_move", "dma_local_transfer", "dma_remote_transfer",
                      "dmem_to_dmem_transfer", "memory_write"} =>
                \E m \in AllMemories : Lies(m, r.dst, r.size)
         /\ r.op = "dma_local_transfer" => r.tile \in Tiles
         /\ r.op = "mesh_route_optimal" =>
                GetTileId(r.src) >= 0 /\ GetTileId(r.dst) >= 0
<1>1. CASE r.op = "cpu_local_move" BY <1>1, RequestFits DEF Accepted, BothValid
<1>2. CASE r.op = "dma_local_transfer"
  BY <1>2, RequestFits DEF Accepted, LocalAccepted, BothValid
<1>3. CASE r.op = "dma_remote_transfer"
  BY <1>3, RequestFits DEF Accepted, RemoteAccepted, BothValid
<1>4. CASE r.op = "dmem_to_dmem_transfer"
  BY <1>4, RequestFits DEF Accepted, DmemAccepted, BothValid
<1>5. CASE r.op = "memory_read" BY <1>5, RequestFits DEF Accepted
<1>6. CASE r.op = "memory_write" BY <1>6, RequestFits DEF Accepted
<1>7. CASE r.op = "mesh_route_optimal" BY <1>7 DEF Accepted
<1> QED BY <1>1, <1>2, <1>3, <1>4, <1>5, <1>6, <1>7

\* The length of a packet is never more than the size it was made from.
LEMMA LengthIs ==
  ASSUME NEW r \in Requests PROVE Length(r) \in 0 .. r.size
<1>1. r.size \in Nat /\ LENGTH_LIMIT \in Nat \ {0}
  BY RequestFits, RequestAssumption DEF RequestAssumption
<1>2. ASSUME NEW n \in Nat, NEW l \in Nat \ {0} PROVE n % l \in 0 .. n
  <2>1. n % l \in 0 .. l - 1 OBVIOUS
  <2>2. CASE n < l
    <3>1. n % l = n BY <2>2
    <3> QED BY <3>1
  <2>3. CASE n >= l BY <2>1, <2>3
  <2> QED BY <2>2, <2>3
<1> QED BY <1>1, <1>2 DEF Length

-----------------------------------------------------------------------------
(***************************************************************************)
(* Types of the memory and of the answers.                                 *)
(***************************************************************************)

AnswerTypes == {NoAnswer} \cup [code : Int, data : Seq(Values)]

MemoryTypeOK ==
    /\ mem \in [Buffers -> Values] /\ before \in [Buffers -> Values]
    /\ ret \in [Threads -> AnswerTypes]

LEMMA CopiedType ==
  ASSUME MemoryTypeOK,
         NEW m \in AllMemories, NEW w \in AllMemories, NEW src \in Nat, NEW dst \in Nat,
         NEW N \in Nat, Lies(m, src, N), Lies(w, dst, N), NEW n \in 0 .. N
  PROVE  Copied(AddrToPtr(src), AddrToPtr(dst), n) \in [Buffers -> Values]
<1>1. AddrToPtr(src) = [mem |-> m, off |-> src - Base(m)]
      /\ AddrToPtr(dst) = [mem |-> w, off |-> dst - Base(w)]
  BY RangeCells
<1>2. ASSUME NEW p \in Buffers, p.mem = w, Within(p.off, dst - Base(w), n)
      PROVE  [mem |-> m, off |-> src - Base(m) + (p.off - (dst - Base(w)))] \in Buffers
  <2> DEFINE k == p.off - (dst - Base(w))
  <2>1. p.off \in Nat /\ Base(w) \in Nat BY Cells, Spans
  <2>2. k \in 0 .. N - 1 BY <1>2, <2>1 DEF Within
  <2> HIDE DEF k
  <2>3. src + k \in Span(m) /\ Pointers[src + k] = [mem |-> m, off |-> src - Base(m) + k]
    BY <2>2, RangeCells
  <2>4. [mem |-> m, off |-> src - Base(m) + k] \in Buffers BY <2>3, Cells
  <2> QED BY <2>4 DEF k
<1>3. mem \in [Buffers -> Values] BY DEF MemoryTypeOK
<1>4. \A p \in Buffers :
        (IF p.mem = w /\ Within(p.off, dst - Base(w), n)
         THEN mem[[mem |-> m, off |-> src - Base(m) + (p.off - (dst - Base(w)))]]
         ELSE mem[p]) \in Values
  BY <1>2, <1>3
<1> QED BY <1>1, <1>4 DEF Copied

LEMMA StoredType ==
  ASSUME MemoryTypeOK, NEW d, NEW n, NEW x \in Values
  PROVE  Stored(d, n, x) \in [Buffers -> Values]
BY DEF Stored, MemoryTypeOK

LEMMA MemoryTypeInit == Init => MemoryTypeOK
<1> SUFFICES ASSUME Init PROVE MemoryTypeOK OBVIOUS
<1>1. \A p \in Buffers : Base(p.mem) + p.off \in Values
  <2>1. \A p \in Buffers : Base(p.mem) + p.off \in Addresses BY Cells
  <2> QED BY <2>1 DEF Values
<1>2. mem \in [Buffers -> Values] BY <1>1 DEF Init
<1> QED BY <1>2 DEF Init, MemoryTypeOK, AnswerTypes

\* A step that answers with a code and no data.
LEMMA AnswerType ==
  ASSUME MemoryTypeOK, NEW t \in Threads, NEW c \in Int,
         ret' = [ret EXCEPT ![t] = [code |-> c, data |-> << >>]]
  PROVE  ret' \in [Threads -> AnswerTypes]
<1>1. << >> \in Seq(Values) OBVIOUS
<1>2. [code |-> c, data |-> << >>] \in AnswerTypes BY <1>1 DEF AnswerTypes
<1> QED BY <1>2 DEF MemoryTypeOK

LEMMA MemoryTypeStep ==
  ASSUME HalInv, MemoryTypeOK, [Next]_vars PROVE MemoryTypeOK'
<1> USE DEF Done, Goto
<1>0. mem \in [Buffers -> Values] /\ before \in [Buffers -> Values]
      /\ ret \in [Threads -> AnswerTypes] /\ Registers \in Values
  BY DEF MemoryTypeOK, Values
<1>1. ASSUME NEW t \in Threads, Call(t) \/ Acquire(t) \/ Release(t)
      PROVE  MemoryTypeOK'
  BY <1>0, <1>1 DEF Call, Acquire, Release, MemoryTypeOK
<1>2. ASSUME NEW t \in Threads,
             NocSend(t) \/ NocInitArbitration(t) \/ NocArrive(t) \/ NocArbitrate(t)
      PROVE  MemoryTypeOK'
  BY <1>0, <1>2 DEF NocSend, NocInitArbitration, NocArrive, NocArbitrate, MemoryTypeOK
<1>3. ASSUME NEW t \in Threads, Reject(t) PROVE MemoryTypeOK'
  <2>1. ret' = [ret EXCEPT ![t] = [code |-> -1, data |-> << >>]] /\ -1 \in Int
    BY <1>3 DEF Reject
  <2>2. ret' \in [Threads -> AnswerTypes] BY <2>1, AnswerType
  <2> QED BY <1>0, <1>3, <2>2 DEF Reject, MemoryTypeOK
<1>4. ASSUME NEW t \in Threads, pc[t] # "idle"
      PROVE  /\ req[t] \in Requests /\ req[t].size \in Int
             /\ req[t].src \in Nat /\ req[t].dst \in Nat /\ req[t].size \in Nat
  BY <1>4, RequestFits DEF HalInv, RequestInv
<1>5. ASSUME NEW r \in Requests, BothValid(r), NEW n \in 0 .. r.size
      PROVE  Copied(AddrToPtr(r.src), AddrToPtr(r.dst), n) \in [Buffers -> Values]
  <2>1. r.src \in Nat /\ r.dst \in Nat /\ r.size \in Nat BY RequestFits
  <2>2. PICK m \in AllMemories : Lies(m, r.src, r.size)
    BY <1>5, RequestFits DEF BothValid
  <2>3. PICK w \in AllMemories : Lies(w, r.dst, r.size)
    BY <1>5, RequestFits DEF BothValid
  <2> QED BY <2>1, <2>2, <2>3, CopiedType
<1>6. ASSUME NEW t \in Threads, CopyDirectly(t) PROVE MemoryTypeOK'
  <2>1. pc[t] # "idle" /\ Accepted(req[t]) /\ before' = before
        /\ req[t].op \in {"cpu_local_move", "dmem_to_dmem_transfer"}
        /\ mem' = Copied(AddrToPtr(req[t].src), AddrToPtr(req[t].dst), req[t].size)
    BY <1>6 DEF CopyDirectly, InBody
  <2>2. BothValid(req[t]) BY <2>1 DEF Accepted, DmemAccepted
  <2>3. req[t].size \in 0 .. req[t].size BY <1>4, <2>1
  <2>4. mem' \in [Buffers -> Values] BY <1>4, <1>5, <2>1, <2>2, <2>3
  <2>5. ret' = [ret EXCEPT ![t] = [code |-> 0, data |-> << >>]] /\ 0 \in Int
    BY <1>6 DEF CopyDirectly
  <2>6. ret' \in [Threads -> AnswerTypes] BY <2>5, AnswerType
  <2> QED BY <1>0, <2>1, <2>4, <2>6 DEF MemoryTypeOK
<1>7. ASSUME NEW t \in Threads, MemoryRead(t) PROVE MemoryTypeOK'
  <2> DEFINE r == req[t]
             data == [i \in 1 .. r.size |-> mem[[AddrToPtr(r.src) EXCEPT !.off = @ + i - 1]]]
  <2>1. pc[t] # "idle" /\ Accepted(r) /\ r.op = "memory_read"
        /\ ret' = [ret EXCEPT ![t] = [code |-> r.size, data |-> data]]
        /\ mem' = mem /\ before' = before
    BY <1>7 DEF MemoryRead, InBody
  <2>2. r \in Requests /\ r.src \in Nat /\ r.size \in Nat BY <1>4, <2>1
  <2>3. PICK m \in AllMemories : Lies(m, r.src, r.size) BY <2>1, <2>2, RangesOf
  <2>4. ASSUME NEW i \in 1 .. r.size
        PROVE  [AddrToPtr(r.src) EXCEPT !.off = @ + i - 1] \in Buffers
    <3>1. i - 1 \in 0 .. r.size - 1 BY <2>2
    <3>2. Pointers[r.src + (i - 1)] = [mem |-> m, off |-> r.src - Base(m) + (i - 1)]
          /\ r.src + (i - 1) \in Span(m)
          /\ AddrToPtr(r.src) = [mem |-> m, off |-> r.src - Base(m)]
      BY <2>2, <2>3, <3>1, RangeCells
    <3>3. Base(m) \in Nat BY Spans
    <3>4. [AddrToPtr(r.src) EXCEPT !.off = @ + i - 1]
             = [mem |-> m, off |-> (r.src - Base(m)) + i - 1]
      BY <3>2
    <3>5. (r.src - Base(m)) + i - 1 = r.src - Base(m) + (i - 1) BY <2>2, <3>3
    <3>6. Pointers[r.src + (i - 1)] \in Buffers BY <3>2, Cells
    <3> QED BY <3>2, <3>4, <3>5, <3>6
  <2>5. data \in [1 .. r.size -> Values] BY <1>0, <2>4
  <2> HIDE DEF data
  <2>6. data \in Seq(Values) BY <2>2, <2>5, SeqDef
  <2>7. [code |-> r.size, data |-> data] \in AnswerTypes
    BY <2>2, <2>6 DEF AnswerTypes
  <2> HIDE DEF r
  <2>8. ret' \in [Threads -> AnswerTypes] BY <1>0, <2>1, <2>7
  <2> QED BY <1>0, <2>1, <2>8 DEF MemoryTypeOK
<1>8. ASSUME NEW t \in Threads, MemoryWrite(t) PROVE MemoryTypeOK'
  <2>1. pc[t] # "idle" /\ before' = before
        /\ mem' = Stored(AddrToPtr(req[t].dst), req[t].size, req[t].data)
    BY <1>8 DEF MemoryWrite, InBody
  <2>2. req[t].data \in Values BY <1>4, <2>1 DEF Values
  <2>3. mem' \in [Buffers -> Values] BY <2>1, <2>2, StoredType
  <2>4. ret' \in [Threads -> AnswerTypes]
    BY <1>4, <1>8, <2>1, AnswerType DEF MemoryWrite
  <2> QED BY <1>0, <2>1, <2>3, <2>4 DEF MemoryTypeOK
<1>9. ASSUME NEW t \in Threads, Query(t) PROVE MemoryTypeOK'
  <2> DEFINE c == IF req[t].op = "mesh_route_optimal"
                  THEN Hops(GetTileId(req[t].src), GetTileId(req[t].dst)) ELSE 0
  <2>1. pc[t] # "idle" /\ Accepted(req[t]) /\ mem' = mem /\ before' = before
        /\ ret' = [ret EXCEPT ![t] = [code |-> c, data |-> << >>]]
    BY <1>9 DEF Query, InBody
  <2>2. c \in Int
    <3>1. CASE req[t].op = "mesh_route_optimal"
      <4>1. GetTileId(req[t].src) \in Nat /\ GetTileId(req[t].dst) \in Nat
        <5>1. /\ GetTileId(req[t].src) >= 0 /\ GetTileId(req[t].dst) >= 0
              /\ req[t].src \in Int /\ req[t].dst \in Int
          BY <1>4, <2>1, <3>1, RangesOf
        <5>2. \A a \in Int : GetTileId(a) \in Tiles \cup {-1} BY TileIdOf
        <5>3. Tiles \subseteq Nat BY MapFacts
        <5>4. \A a \in Int : GetTileId(a) >= 0 => GetTileId(a) \in Nat
          <6>1. ASSUME NEW a \in Int, GetTileId(a) >= 0 PROVE GetTileId(a) \in Tiles
            <7>1. CASE GetTileId(a) = -1 BY <6>1, <7>1
            <7>2. CASE GetTileId(a) # -1 BY <5>2, <7>2
            <7> QED BY <7>1, <7>2
          <6> QED BY <5>3, <6>1
        <5> QED BY <5>1, <5>4
      <4>2. \A a, b \in Nat : Hops(a, b) \in Int BY DEF Hops, Abs
      <4> QED BY <3>1, <4>1, <4>2
    <3> QED BY <3>1
  <2> HIDE DEF c
  <2>3. ret' \in [Threads -> AnswerTypes] BY <2>1, <2>2, AnswerType
  <2> QED BY <1>0, <2>1, <2>3 DEF MemoryTypeOK
<1>10. ASSUME NEW t \in Threads, DmacConfigure(t) PROVE MemoryTypeOK'
  BY <1>0, <1>10, StoredType DEF DmacConfigure, MemoryTypeOK
<1>11. ASSUME NEW t \in Threads, DmacCopy(t) PROVE MemoryTypeOK'
  <2>1. pc[t] = "start" /\ before' = before /\ ret' = ret BY <1>11 DEF DmacCopy
  <2>2. handle[req[t].tile] =
          [src |-> req[t].src, dst |-> req[t].dst, count |-> req[t].size]
    BY <2>1 DEF HalInv, EngineRunsItsRequest
  <2>3. BothValid(req[t]) BY <2>1 DEF HalInv, RequestInv, LocalAccepted
  <2>4. mem' = Copied(AddrToPtr(req[t].src), AddrToPtr(req[t].dst), req[t].size)
    BY <1>11, <2>2, <2>3 DEF DmacCopy, BothValid
  <2>5. req[t] \in Requests /\ req[t].size \in 0 .. req[t].size BY <1>4, <2>1
  <2>6. mem' \in [Buffers -> Values] BY <1>5, <2>3, <2>4, <2>5
  <2> QED BY <1>0, <2>1, <2>6 DEF MemoryTypeOK
<1>12. ASSUME NEW t \in Threads, DmacFinish(t) PROVE MemoryTypeOK'
  <2>1. pc[t] # "idle" /\ before' = before BY <1>12 DEF DmacFinish
  <2>2. mem' \in [Buffers -> Values] BY <1>0, <1>12, StoredType DEF DmacFinish
  <2>3. ret' \in [Threads -> AnswerTypes] BY <1>4, <1>12, <2>1, AnswerType DEF DmacFinish
  <2> QED BY <1>0, <2>1, <2>2, <2>3 DEF MemoryTypeOK
<1>13. ASSUME NEW t \in Threads, NocDrop(t) PROVE MemoryTypeOK'
  <2>1. pc[t] # "idle" /\ before' = before /\ mem' = mem BY <1>13 DEF NocDrop
  <2>2. ret' \in [Threads -> AnswerTypes] BY <1>4, <1>13, <2>1, AnswerType DEF NocDrop
  <2> QED BY <1>0, <2>1, <2>2 DEF MemoryTypeOK
<1>14. ASSUME NEW t \in Threads, NocTransfer(t) PROVE MemoryTypeOK'
  <2>1. pc[t] = "transfer" /\ before' = before
        /\ mem' = Copied(AddrToPtr(req[t].src), AddrToPtr(req[t].dst), Length(req[t]))
    BY <1>14 DEF NocTransfer
  <2>2. BothValid(req[t]) BY <2>1 DEF HalInv, RequestInv, RemoteAccepted
  <2>3. req[t] \in Requests BY <1>4, <2>1
  <2>4. mem' \in [Buffers -> Values] BY <1>5, <2>1, <2>2, <2>3, LengthIs
  <2>5. ret' \in [Threads -> AnswerTypes] BY <1>4, <1>14, <2>1, AnswerType DEF NocTransfer
  <2> QED BY <1>0, <2>1, <2>4, <2>5 DEF MemoryTypeOK
<1>15. CASE UNCHANGED vars BY <1>15 DEF vars, MemoryTypeOK
<1> QED BY <1>1, <1>2, <1>3, <1>6, <1>7, <1>8, <1>9, <1>10, <1>11, <1>12, <1>13,
           <1>14, <1>15 DEF Next, Step, Finished

-----------------------------------------------------------------------------
(***************************************************************************)
(* How far a call has come.                                                *)
(***************************************************************************)

\* A step of the owner of hal_mutex that stays in the call has to care for its
\* own progress only.
LEMMA OwnProgress ==
  ASSUME HalInv, MemoryTypeOK, EffectInv, NEW t \in Threads, pc[t] \notin Outside,
         NEW c, pc' = [pc EXCEPT ![t] = c], req' = req, Progress(t)'
  PROVE  EffectInv'
<1>1. ASSUME NEW u \in Threads, u # t PROVE Progress(u)'
  <2>1. pc'[u] = pc[u] /\ pc[u] \in Outside /\ req'[u] = req[u]
    BY <1>1, Alone DEF HalInv, ControlTypeOK
  <2>2. pc[u] = "idle" => req[u] = NoRequest BY DEF EffectInv, Progress
  <2> QED BY <2>1, <2>2 DEF Progress, Outside
<1> QED BY <1>1 DEF EffectInv

\* The last step of a call that was carried out: memory and answer are those of
\* the abstract specification.
LEMMA CallDone ==
  ASSUME HalInv, MemoryTypeOK, EffectInv, NEW t \in Threads, pc[t] \notin Outside,
         pc' = [pc EXCEPT ![t] = "unlock"], req' = req, before' = before,
         Flat!Legal(req[t]), NEW a, ret' = [ret EXCEPT ![t] = a],
         Seen(mem') = Flat!Effect(Seen(before), req[t]),
         a = Flat!Outcome(Seen(before), req[t])
  PROVE  EffectInv'
<1>1. pc'[t] = "unlock" /\ ret'[t] = a BY DEF HalInv, ControlTypeOK, MemoryTypeOK
<1>2. Flat!Legal(req'[t]) BY DEF Flat!Legal
<1>3. Seen(mem') = Flat!Effect(Seen(before'), req'[t]) OBVIOUS
<1>4. ret'[t] = Flat!Outcome(Seen(before'), req'[t]) BY <1>1
<1>5. Progress(t)' BY <1>1, <1>2, <1>3, <1>4 DEF Progress
<1> QED BY <1>5, OwnProgress

\* Every call by itself: what it leaves when it is done.
LEMMA CopyDone ==
  ASSUME HalInv, MemoryTypeOK, EffectInv, NEW t \in Threads, CopyDirectly(t)
  PROVE  EffectInv'
<1> DEFINE r == req[t]
<1>1. /\ pc[t] = "body" /\ pc' = [pc EXCEPT ![t] = "unlock"]
      /\ r.op \in {"cpu_local_move", "dmem_to_dmem_transfer"} /\ Accepted(r)
      /\ mem' = Copied(AddrToPtr(r.src), AddrToPtr(r.dst), r.size)
      /\ ret' = [ret EXCEPT ![t] = [code |-> 0, data |-> << >>]]
      /\ UNCHANGED <<req, before>>
  BY DEF CopyDirectly, InBody, Goto, Done
<1>2. r \in Requests /\ mem = before BY <1>1 DEF HalInv, RequestInv, EffectInv, Progress
<1> HIDE DEF r
<1>3. Flat!Legal(r) BY <1>1, <1>2, AcceptedIsLegal
<1>4. PICK m \in AllMemories : Lies(m, r.src, r.size) BY <1>1, <1>2, RangesOf
<1>5. PICK w \in AllMemories : Lies(w, r.dst, r.size) BY <1>1, <1>2, RangesOf
<1>6. r.src \in Nat /\ r.dst \in Nat /\ r.size \in Nat /\ r.size \in 0 .. r.size
  BY <1>2, RequestFits
<1>7. Seen(mem') = Flat!Move(Seen(mem), r.src, r.dst, r.size)
  BY <1>1, <1>4, <1>5, <1>6, SeenCopied
<1>8. Seen(mem') = Flat!Effect(Seen(before), r) BY <1>1, <1>2, <1>7, EffectIs
<1>9. Flat!Outcome(Seen(before), r) = [code |-> 0, data |-> << >>]
  BY <1>1, OutcomeIs
<1> QED BY <1>1, <1>3, <1>8, <1>9, CallDone DEF r, Outside

LEMMA ReadDone ==
  ASSUME HalInv, MemoryTypeOK, EffectInv, NEW t \in Threads, MemoryRead(t)
  PROVE  EffectInv'
<1> DEFINE r == req[t]
           cell(i) == [AddrToPtr(r.src) EXCEPT !.off = @ + i - 1]
           data == [i \in 1 .. r.size |-> mem[cell(i)]]
<1>1. /\ pc[t] = "body" /\ pc' = [pc EXCEPT ![t] = "unlock"]
      /\ r.op = "memory_read" /\ Accepted(r)
      /\ ret' = [ret EXCEPT ![t] = [code |-> r.size, data |-> data]]
      /\ UNCHANGED <<mem, req, before>>
  BY DEF MemoryRead, InBody, Goto, Done
<1>2. r \in Requests /\ mem = before BY <1>1 DEF HalInv, RequestInv, EffectInv, Progress
<1>3. Flat!Legal(r) BY <1>1, <1>2, AcceptedIsLegal
<1>4. PICK m \in AllMemories : Lies(m, r.src, r.size) BY <1>1, <1>2, RangesOf
<1>5. r.src \in Nat /\ r.size \in Nat BY <1>2, RequestFits
<1>6. ASSUME NEW i \in 1 .. r.size
      PROVE  mem[cell(i)] = Seen(before)[r.src + i - 1]
  <2>1. i - 1 \in 0 .. r.size - 1 BY <1>5
  <2>2. /\ r.src + (i - 1) \in Span(m)
        /\ AddrToPtr(r.src) = [mem |-> m, off |-> r.src - Base(m)]
        /\ Pointers[r.src + (i - 1)] = [mem |-> m, off |-> r.src - Base(m) + (i - 1)]
    BY <1>4, <1>5, <2>1, RangeCells
  <2>3. Base(m) \in Nat /\ r.src + i - 1 = r.src + (i - 1) BY <1>5, Spans
  <2>4. cell(i) = [mem |-> m, off |-> (r.src - Base(m)) + i - 1] BY <2>2
  <2>5. (r.src - Base(m)) + i - 1 = r.src - Base(m) + (i - 1) BY <1>5, <2>3
  <2>6. cell(i) = Pointers[r.src + i - 1] BY <2>2, <2>3, <2>4, <2>5
  <2>7. r.src + i - 1 \in Addresses BY <2>2, <2>3, Cells
  <2> QED BY <1>2, <2>6, <2>7 DEF Seen
<1> HIDE DEF cell
<1>7. data = [i \in 1 .. r.size |-> Seen(before)[r.src + i - 1]] BY <1>6
<1> HIDE DEF data, r
<1>8. [code |-> r.size, data |-> data] = Flat!Outcome(Seen(before), r)
  BY <1>1, <1>7, OutcomeIs
<1>9. Seen(mem') = Flat!Effect(Seen(before), r) BY <1>1, <1>2, EffectIs
<1> QED BY <1>1, <1>3, <1>8, <1>9, CallDone DEF r, Outside

LEMMA WriteDone ==
  ASSUME HalInv, MemoryTypeOK, EffectInv, NEW t \in Threads, MemoryWrite(t)
  PROVE  EffectInv'
<1> DEFINE r == req[t]
<1>1. /\ pc[t] = "body" /\ pc' = [pc EXCEPT ![t] = "unlock"]
      /\ r.op = "memory_write" /\ Accepted(r)
      /\ mem' = Stored(AddrToPtr(r.dst), r.size, r.data)
      /\ ret' = [ret EXCEPT ![t] = [code |-> r.size, data |-> << >>]]
      /\ UNCHANGED <<req, before>>
  BY DEF MemoryWrite, InBody, Goto, Done
<1>2. r \in Requests /\ mem = before BY <1>1 DEF HalInv, RequestInv, EffectInv, Progress
<1> HIDE DEF r
<1>3. Flat!Legal(r) BY <1>1, <1>2, AcceptedIsLegal
<1>4. PICK w \in AllMemories : Lies(w, r.dst, r.size) BY <1>1, <1>2, RangesOf
<1>5. r.dst \in Nat /\ r.size \in Nat BY <1>2, RequestFits
<1>6. Seen(mem') = Flat!Store(Seen(mem), r.dst, r.size, r.data)
  BY <1>1, <1>4, <1>5, SeenStored
<1>7. Seen(mem') = Flat!Effect(Seen(before), r) BY <1>1, <1>2, <1>6, EffectIs
<1>8. Flat!Outcome(Seen(before), r) = [code |-> r.size, data |-> << >>]
  BY <1>1, OutcomeIs
<1> QED BY <1>1, <1>3, <1>7, <1>8, CallDone DEF r, Outside

LEMMA QueryDone ==
  ASSUME HalInv, MemoryTypeOK, EffectInv, NEW t \in Threads, Query(t)
  PROVE  EffectInv'
<1> DEFINE r == req[t]
           c == IF r.op = "mesh_route_optimal"
                THEN Hops(GetTileId(r.src), GetTileId(r.dst)) ELSE 0
<1>1. /\ pc[t] = "body" /\ pc' = [pc EXCEPT ![t] = "unlock"]
      /\ r.op \in {"get_dmem_status", "mesh_route_optimal", "node_sync"} /\ Accepted(r)
      /\ ret' = [ret EXCEPT ![t] = [code |-> c, data |-> << >>]]
      /\ UNCHANGED <<mem, req, before>>
  BY DEF Query, InBody, Goto, Done
<1>2. r \in Requests /\ mem = before BY <1>1 DEF HalInv, RequestInv, EffectInv, Progress
<1> HIDE DEF r
<1>3. Flat!Legal(r) BY <1>1, <1>2, AcceptedIsLegal
<1>4. [code |-> c, data |-> << >>] = Flat!Outcome(Seen(before), r)
  <2>1. CASE r.op = "mesh_route_optimal"
    <3>1. GetTileId(r.src) >= 0 /\ GetTileId(r.dst) >= 0
          /\ r.src \in Nat /\ r.dst \in Nat
      BY <1>1, <1>2, <2>1, RangesOf, RequestFits
    <3>2. Flat!TileAt(r.src) = GetTileId(r.src) /\ Flat!TileAt(r.dst) = GetTileId(r.dst)
      BY <3>1, TileAtIs
    <3> QED BY <2>1, <3>2, OutcomeIs
  <2>2. CASE r.op \in {"get_dmem_status", "node_sync"} BY <2>2, OutcomeIs
  <2> QED BY <1>1, <2>1, <2>2
<1> HIDE DEF c
<1>5. Seen(mem') = Flat!Effect(Seen(before), r) BY <1>1, <1>2, EffectIs
<1> QED BY <1>1, <1>3, <1>4, <1>5, CallDone DEF r, Outside

\* A transfer inside a tile: the registers, the data, the registers again.
LEMMA ConfigureProgress ==
  ASSUME HalInv, MemoryTypeOK, EffectInv, NEW t \in Threads, DmacConfigure(t)
  PROVE  EffectInv'
<1> DEFINE r == req[t]
<1>1. /\ pc[t] = "body" /\ pc' = [pc EXCEPT ![t] = "start"]
      /\ r.op = "dma_local_transfer" /\ Accepted(r)
      /\ mem' = Stored(Instance(r.tile), 1, Registers)
      /\ UNCHANGED <<req, before>>
  BY DEF DmacConfigure, InBody, Goto
<1>2. r \in Requests /\ mem = before BY <1>1 DEF HalInv, RequestInv, EffectInv, Progress
<1>3. r.tile \in Tiles BY <1>1, <1>2, RangesOf
<1>4. Seen(mem') = Flat!WithRegisters(Seen(before), r.tile)
  BY <1>1, <1>2, <1>3, SeenRegisters
<1>5. pc'[t] = "start" /\ req'[t] = r BY <1>1 DEF HalInv, ControlTypeOK
<1>6. Progress(t)' BY <1>1, <1>4, <1>5 DEF Progress
<1> QED BY <1>1, <1>6, OwnProgress DEF Outside

LEMMA EngineProgress ==
  ASSUME HalInv, MemoryTypeOK, EffectInv, NEW t \in Threads, DmacCopy(t)
  PROVE  EffectInv'
<1> DEFINE r == req[t]
<1>1. /\ pc[t] = "start" /\ pc' = [pc EXCEPT ![t] = "finish"]
      /\ UNCHANGED <<req, before>>
  BY DEF DmacCopy, Goto
<1>2. /\ r \in Requests /\ LocalAccepted(r) /\ r.op = "dma_local_transfer"
      /\ Seen(mem) = Flat!WithRegisters(Seen(before), r.tile)
      /\ handle[r.tile] = [src |-> r.src, dst |-> r.dst, count |-> r.size]
  BY <1>1 DEF HalInv, RequestInv, EffectInv, Progress, EngineRunsItsRequest
<1>3. mem' = Copied(AddrToPtr(r.src), AddrToPtr(r.dst), r.size)
  BY <1>2 DEF DmacCopy, LocalAccepted, BothValid
<1>4. pc'[t] = "finish" /\ req'[t] = r BY <1>1 DEF HalInv, ControlTypeOK
<1>5. Accepted(r) BY <1>2 DEF Accepted
<1> HIDE DEF r
<1>6. PICK m \in AllMemories : Lies(m, r.src, r.size) BY <1>2, <1>5, RangesOf
<1>7. PICK w \in AllMemories : Lies(w, r.dst, r.size) BY <1>2, <1>5, RangesOf
<1>8. r.src \in Nat /\ r.dst \in Nat /\ r.size \in Nat /\ r.size \in 0 .. r.size
  BY <1>2, RequestFits
<1>9. Seen(mem') = Flat!Move(Seen(mem), r.src, r.dst, r.size)
  BY <1>3, <1>6, <1>7, <1>8, SeenCopied
<1>10. Progress(t)' BY <1>1, <1>2, <1>4, <1>9 DEF Progress
<1> QED BY <1>1, <1>10, OwnProgress DEF Outside

LEMMA EngineDone ==
  ASSUME HalInv, MemoryTypeOK, EffectInv, NEW t \in Threads, DmacFinish(t)
  PROVE  EffectInv'
<1> DEFINE r == req[t]
<1>1. /\ pc[t] = "finish" /\ pc' = [pc EXCEPT ![t] = "unlock"]
      /\ mem' = Stored(Instance(r.tile), 1, Registers)
      /\ ret' = [ret EXCEPT ![t] = [code |-> r.size, data |-> << >>]]
      /\ UNCHANGED <<req, before>>
  BY DEF DmacFinish, Goto, Done
<1>2. /\ r \in Requests /\ LocalAccepted(r) /\ r.op = "dma_local_transfer"
      /\ Seen(mem) = Flat!Move(Flat!WithRegisters(Seen(before), r.tile),
                               r.src, r.dst, r.size)
  BY <1>1 DEF HalInv, RequestInv, EffectInv, Progress
<1>3. Accepted(r) /\ r.tile \in Tiles BY <1>2 DEF Accepted, LocalAccepted
<1> HIDE DEF r
<1>4. Flat!Legal(r) BY <1>2, <1>3, AcceptedIsLegal
<1>5. Seen(mem') = Flat!WithRegisters(Seen(mem), r.tile) BY <1>1, <1>3, SeenRegisters
<1>6. Seen(mem') = Flat!Effect(Seen(before), r) BY <1>2, <1>5, EffectIs
<1>7. Flat!Outcome(Seen(before), r) = [code |-> r.size, data |-> << >>]
  BY <1>2, OutcomeIs
<1> QED BY <1>1, <1>4, <1>6, <1>7, CallDone DEF r, Outside

\* A transfer over the mesh: nothing moves before the destination is taken.
LEMMA MeshProgress ==
  ASSUME HalInv, MemoryTypeOK, EffectInv, NEW t \in Threads,
         NocSend(t) \/ NocInitArbitration(t) \/ NocArrive(t) \/ NocArbitrate(t)
  PROVE  EffectInv'
<1>1. /\ pc[t] \in {"body", "init", "send", "arbitrate"}
      /\ \E c \in {"init", "send", "arbitrate", "transfer"} : pc' = [pc EXCEPT ![t] = c]
      /\ pc[t] = "body" => req[t].op = "dma_remote_transfer"
      /\ UNCHANGED <<mem, req, before, ret>>
  BY DEF NocSend, NocInitArbitration, NocArrive, NocArbitrate, InBody, Goto
<1>2. mem = before /\ req[t].op = "dma_remote_transfer"
  BY <1>1 DEF EffectInv, Progress
<1>3. PICK c \in {"init", "send", "arbitrate", "transfer"} : pc' = [pc EXCEPT ![t] = c]
  BY <1>1
<1>4. pc'[t] = c BY <1>3 DEF HalInv, ControlTypeOK
<1>5. Progress(t)' BY <1>1, <1>2, <1>4 DEF Progress
<1> QED BY <1>1, <1>3, <1>5, OwnProgress DEF Outside

LEMMA MeshDone ==
  ASSUME HalInv, MemoryTypeOK, EffectInv, NEW t \in Threads,
         NocDrop(t) \/ NocTransfer(t)
  PROVE  EffectInv'
<1> DEFINE r == req[t]
<1>1. /\ pc[t] \in {"send", "transfer"} /\ pc' = [pc EXCEPT ![t] = "unlock"]
      /\ ret' = [ret EXCEPT ![t] = [code |-> r.size, data |-> << >>]]
      /\ UNCHANGED <<req, before>>
      /\ \/ Length(r) = 0 /\ mem' = mem
         \/ mem' = Copied(AddrToPtr(r.src), AddrToPtr(r.dst), Length(r))
  BY DEF NocDrop, NocTransfer, Goto, Done
<1>2. /\ r \in Requests /\ RemoteAccepted(r) /\ r.op = "dma_remote_transfer"
      /\ mem = before
  BY <1>1 DEF HalInv, RequestInv, EffectInv, Progress
<1>3. Accepted(r) BY <1>2 DEF Accepted
<1> HIDE DEF r
<1>4. Flat!Legal(r) BY <1>2, <1>3, AcceptedIsLegal
<1>5. PICK m \in AllMemories : Lies(m, r.src, r.size) BY <1>2, <1>3, RangesOf
<1>6. PICK w \in AllMemories : Lies(w, r.dst, r.size) BY <1>2, <1>3, RangesOf
<1>7. r.src \in Nat /\ r.dst \in Nat /\ r.size \in Nat /\ Length(r) \in 0 .. r.size
  BY <1>2, RequestFits, LengthIs
<1>8. Seen(mem') = Flat!Move(Seen(mem), r.src, r.dst, Length(r))
  <2>1. CASE Length(r) = 0 /\ mem' = mem
    <3>1. \A a \in Addresses : ~Within(a, r.dst, 0)
      <4>1. \A a \in Addresses : a \in Nat BY Cells
      <4> QED BY <1>7, <4>1 DEF Within
    <3>2. Flat!Move(Seen(mem), r.src, r.dst, 0) = [a \in Addresses |-> Seen(mem)[a]]
      BY <3>1, SameMap DEF Flat!Move, Seen
    <3>3. Seen(mem) = [a \in Addresses |-> Seen(mem)[a]] BY DEF Seen
    <3> QED BY <2>1, <3>2, <3>3
  <2>2. CASE mem' = Copied(AddrToPtr(r.src), AddrToPtr(r.dst), Length(r))
    BY <1>5, <1>6, <1>7, <2>2, SeenCopied
  <2> QED BY <1>1, <2>1, <2>2
<1>9. Seen(mem') = Flat!Effect(Seen(before), r) BY <1>2, <1>8, EffectIs
<1>10. Flat!Outcome(Seen(before), r) = [code |-> r.size, data |-> << >>]
  BY <1>2, OutcomeIs
<1> QED BY <1>1, <1>4, <1>9, <1>10, CallDone DEF r, Outside

LEMMA RejectDone ==
  ASSUME HalInv, MemoryTypeOK, EffectInv, NEW t \in Threads, Reject(t)
  PROVE  EffectInv'
<1>1. /\ pc[t] = "body" /\ pc' = [pc EXCEPT ![t] = "unlock"] /\ ~Accepted(req[t])
      /\ ret' = [ret EXCEPT ![t] = [code |-> -1, data |-> << >>]]
      /\ UNCHANGED <<mem, req, before>>
  BY DEF Reject, Goto, Done
<1>2. req[t] \in Requests /\ mem = before
  BY <1>1 DEF HalInv, RequestInv, EffectInv, Progress
<1>3. ~Flat!Legal(req[t]) BY <1>1, <1>2, AcceptedIsLegal
<1>4. pc'[t] = "unlock" /\ ret'[t] = Flat!Refused
  BY <1>1 DEF HalInv, ControlTypeOK, MemoryTypeOK, Flat!Refused
<1>5. ~Flat!Legal(req'[t]) BY <1>1, <1>3 DEF Flat!Legal
<1>6. mem' = before' BY <1>1, <1>2
<1>7. Progress(t)' BY <1>4, <1>5, <1>6 DEF Progress
<1> QED BY <1>1, <1>7, OwnProgress DEF Outside

LEMMA EffectInit == Init => EffectInv
<1> SUFFICES ASSUME Init, NEW t \in Threads PROVE Progress(t) BY DEF EffectInv
<1>1. pc[t] = "idle" /\ req[t] = NoRequest BY DEF Init
<1> QED BY <1>1 DEF Progress

LEMMA EffectStep ==
  ASSUME HalInv, MemoryTypeOK, EffectInv, [Next]_vars PROVE EffectInv'
<1>0. pc \in [Threads -> PCs] /\ req \in [Threads -> Requests \cup {NoRequest}]
  BY DEF HalInv, ControlTypeOK
<1>1. ASSUME NEW t \in Threads, Call(t) PROVE EffectInv'
  <2>1. pc' = [pc EXCEPT ![t] = "lock"] /\ UNCHANGED <<mem, before, ret>>
        /\ \E r \in Requests : req' = [req EXCEPT ![t] = r]
    BY <1>1 DEF Call, Goto
  <2>2. Progress(t)'
    <3>1. pc'[t] = "lock" BY <1>0, <2>1
    <3> QED BY <3>1 DEF Progress
  <2>3. ASSUME NEW u \in Threads, u # t PROVE Progress(u)'
    <3>1. pc'[u] = pc[u] /\ req'[u] = req[u] BY <1>0, <2>1, <2>3
    <3>2. Flat!Legal(req[u])' <=> Flat!Legal(req[u]) BY <3>1 DEF Flat!Legal
    <3>3. Progress(u) BY DEF EffectInv
    <3> QED BY <2>1, <3>1, <3>2, <3>3 DEF Progress, Seen
  <2> QED BY <2>2, <2>3 DEF EffectInv
<1>2. ASSUME NEW t \in Threads, Acquire(t) PROVE EffectInv'
  <2>1. pc' = [pc EXCEPT ![t] = "body"] /\ UNCHANGED <<mem, req>> /\ before' = mem
        /\ hal = NoThread
    BY <1>2 DEF Acquire, Goto
  <2>2. Progress(t)'
    <3>1. pc'[t] = "body" /\ mem' = before' BY <1>0, <2>1
    <3> QED BY <3>1 DEF Progress
  <2>3. ASSUME NEW u \in Threads, u # t PROVE Progress(u)'
    <3>1. pc[u] \in Outside
      BY <2>1, RequestAssumption DEF RequestAssumption, HalInv, MutexInv, Outside
    <3>2. pc'[u] \in Outside /\ pc'[u] = pc[u] /\ req'[u] = req[u]
      BY <1>0, <2>1, <2>3, <3>1
    <3>3. pc[u] = "idle" => req[u] = NoRequest BY DEF EffectInv, Progress
    <3> QED BY <3>2, <3>3 DEF Progress, Outside
  <2> QED BY <2>2, <2>3 DEF EffectInv
<1>3. ASSUME NEW t \in Threads, Release(t) PROVE EffectInv'
  <2>1. pc[t] = "unlock" /\ pc' = [pc EXCEPT ![t] = "idle"]
        /\ req' = [req EXCEPT ![t] = NoRequest]
    BY <1>3 DEF Release, Goto
  <2>2. Progress(t)'
    <3>1. pc'[t] = "idle" /\ req'[t] = NoRequest BY <1>0, <2>1
    <3> QED BY <3>1 DEF Progress
  <2>3. ASSUME NEW u \in Threads, u # t PROVE Progress(u)'
    <3>1. pc[u] \in Outside BY <2>1, <2>3, Alone DEF Outside
    <3>2. pc'[u] = pc[u] /\ req'[u] = req[u] BY <1>0, <2>1, <2>3
    <3>3. pc[u] = "idle" => req[u] = NoRequest BY DEF EffectInv, Progress
    <3> QED BY <3>1, <3>2, <3>3 DEF Progress, Outside
  <2> QED BY <2>2, <2>3 DEF EffectInv
<1>4. CASE UNCHANGED vars
  <2>1. UNCHANGED <<mem, pc, req, ret, before>> BY <1>4 DEF vars
  <2>2. ASSUME NEW u \in Threads PROVE Progress(u)'
    <3>1. Flat!Legal(req[u])' <=> Flat!Legal(req[u]) BY <2>1 DEF Flat!Legal
    <3>2. Progress(u) BY DEF EffectInv
    <3> QED BY <2>1, <3>1, <3>2 DEF Progress, Seen
  <2> QED BY <2>2 DEF EffectInv
<1> QED BY <1>1, <1>2, <1>3, <1>4, RejectDone, CopyDone, ReadDone, WriteDone, QueryDone,
           ConfigureProgress, EngineProgress, EngineDone, MeshProgress, MeshDone
        DEF Next, Step, Finished

-----------------------------------------------------------------------------
(***************************************************************************)
(* The theorems.                                                           *)
(***************************************************************************)

FullInv == HalInv /\ MemoryTypeOK /\ EffectInv

LEMMA FullInvariant == Spec => []FullInv
<1>1. Init => FullInv BY InitHal, MemoryTypeInit, EffectInit DEF FullInv
<1>2. FullInv /\ [Next]_vars => FullInv'
  <2> SUFFICES ASSUME FullInv, [Next]_vars PROVE FullInv' OBVIOUS
  <2>1. HalInv /\ MemoryTypeOK /\ EffectInv BY DEF FullInv
  <2> QED BY <2>1, HalStep, MemoryTypeStep, EffectStep DEF FullInv
<1> QED BY <1>1, <1>2, PTL DEF Spec

\* Every variable of the HAL keeps its type, the contents of the memory and
\* the answers included: no driver writes or reads outside the buffers that
\* platform_setup allocated (TypeOK).
THEOREM HalTypes == Spec => []TypeOK
<1>1. FullInv => TypeOK
  BY DEF FullInv, HalInv, ControlTypeOK, MemoryTypeOK, AnswerTypes, PCs, TypeOK
<1> QED BY <1>1, FullInvariant, PTL

\* At every point of a call of the HAL the memory is what the thread saw when
\* it took hal_mutex, plus what its driver has done so far (CallInv).
THEOREM CallProgress == Spec => []CallInv
<1>1. FullInv => CallInv BY DEF FullInv, CallInv
<1> QED BY <1>1, FullInvariant, PTL

-----------------------------------------------------------------------------
\* A step that keeps what is visible, the calls and the answers.
LEMMA OwnerStutters ==
  ASSUME HalInv, MemoryTypeOK, NEW t \in Threads, pc[t] \notin Outside,
         UNCHANGED <<hal, req, before>>,
         ret' = ret \/ \E a : ret' = [ret EXCEPT ![t] = a]
  PROVE  UNCHANGED <<Visible, req, Answers>>
<1>1. hal = t /\ hal # NoThread BY Alone, RequestAssumption DEF RequestAssumption
<1>2. Visible' = Visible BY <1>1 DEF Visible, Seen
<1>3. req[t] # NoRequest
  BY RequestAssumption DEF RequestAssumption, HalInv, RequestInv, Outside
<1>4. ASSUME NEW u \in Threads, u # t PROVE ret'[u] = ret[u]
  BY <1>4 DEF MemoryTypeOK
<1>5. Answers' = Answers BY <1>3, <1>4 DEF Answers
<1> QED BY <1>2, <1>5

\* A call becomes known to the abstract specification when it is made.
LEMMA CallInvokes ==
  ASSUME HalInv, EffectInv, NEW t \in Threads, Call(t)
  PROVE  Flat!Invoke(t)
<1>1. pc[t] = "idle" /\ UNCHANGED <<mem, hal, before, ret>>
      /\ \E r \in Requests : req' = [req EXCEPT ![t] = r]
  BY DEF Call
<1>2. req[t] = NoRequest BY <1>1 DEF EffectInv, Progress
<1>3. PICK r \in Requests : req' = [req EXCEPT ![t] = r] BY <1>1
<1>4. Visible' = Visible BY <1>1 DEF Visible, Seen
<1>5. Answers' = [Answers EXCEPT ![t] = NoAnswer]
  <2>1. req'[t] # NoRequest
    BY <1>3, RequestAssumption DEF RequestAssumption, HalInv, ControlTypeOK
  <2>2. \A u \in Threads : u # t => req'[u] = req[u]
    BY <1>3 DEF HalInv, ControlTypeOK
  <2> QED BY <1>1, <2>1, <2>2 DEF Answers
<1> QED BY <1>2, <1>3, <1>4, <1>5 DEF Flat!Invoke

\* It takes effect, in one step, when hal_mutex is released.
LEMMA ReleaseReturns ==
  ASSUME HalInv, EffectInv, NEW t \in Threads, Release(t)
  PROVE  Flat!Return(t)
<1>1. pc[t] = "unlock" /\ hal' = NoThread /\ UNCHANGED <<mem, before, ret>>
      /\ req' = [req EXCEPT ![t] = NoRequest]
  BY DEF Release
<1>2. req[t] # NoRequest
  BY <1>1, RequestAssumption DEF RequestAssumption, HalInv, RequestInv
<1>3. hal = t /\ hal # NoThread
  BY <1>1, Alone, RequestAssumption DEF RequestAssumption, Outside
<1>4. Visible = Seen(before) BY <1>3 DEF Visible
<1>5. Visible' = Seen(mem) BY <1>1 DEF Visible, Seen
<1>6. Answers' = [Answers EXCEPT ![t] = ret[t]]
  <2>1. req'[t] = NoRequest BY <1>1 DEF HalInv, ControlTypeOK
  <2>2. \A u \in Threads : u # t => req'[u] = req[u]
    BY <1>1 DEF HalInv, ControlTypeOK
  <2> QED BY <1>1, <2>1, <2>2 DEF Answers
<1>7. IF Flat!Legal(req[t])
      THEN Seen(mem) = Flat!Effect(Seen(before), req[t])
           /\ ret[t] = Flat!Outcome(Seen(before), req[t])
      ELSE mem = before /\ ret[t] = Flat!Refused
  BY <1>1 DEF EffectInv, Progress
<1>8. CASE Flat!Legal(req[t])
  BY <1>1, <1>2, <1>4, <1>5, <1>6, <1>7, <1>8 DEF Flat!Return
<1>9. CASE ~Flat!Legal(req[t])
  BY <1>1, <1>2, <1>4, <1>5, <1>6, <1>7, <1>9 DEF Flat!Return
<1> QED BY <1>8, <1>9

LEMMA InitIsFlat == Init => Flat!FlatInit
<1> SUFFICES ASSUME Init PROVE Flat!FlatInit OBVIOUS
<1>1. Visible = Seen(mem) BY DEF Init, Visible
<1>2. ASSUME NEW a \in Addresses PROVE mem[Pointers[a]] = a
  <2>1. PICK m \in AllMemories : a \in Span(m) BY Cells
  <2>2. /\ Pointers[a] = [mem |-> m, off |-> a - Base(m)]
        /\ Pointers[a] \in Buffers /\ a \in Nat /\ Base(m) \in Nat
    BY <2>1, Cells, Spans
  <2>3. mem[Pointers[a]] = Base(m) + (a - Base(m)) BY <2>2 DEF Init
  <2> QED BY <2>2, <2>3
<1>3. Visible = [a \in Addresses |-> a] BY <1>1, <1>2 DEF Seen
<1>4. Answers = [t \in Threads |-> NoAnswer] BY DEF Init, Answers
<1> QED BY <1>3, <1>4, SameMap DEF Flat!FlatInit, Init

LEMMA StepIsFlat ==
  ASSUME FullInv, [Next]_vars PROVE [Flat!FlatNext]_(Flat!flatVars)
<1>0. HalInv /\ MemoryTypeOK /\ EffectInv BY DEF FullInv
<1>1. ASSUME NEW t \in Threads, Call(t) PROVE Flat!FlatNext
  BY <1>0, <1>1, CallInvokes DEF Flat!FlatNext
<1>2. ASSUME NEW t \in Threads, Release(t) PROVE Flat!FlatNext
  BY <1>0, <1>2, ReleaseReturns DEF Flat!FlatNext
<1>3. ASSUME NEW t \in Threads, Acquire(t) PROVE UNCHANGED <<Visible, req, Answers>>
  <2>1. hal = NoThread /\ hal' = t /\ before' = mem /\ UNCHANGED <<mem, req, ret>>
    BY <1>3 DEF Acquire
  <2>2. t # NoThread BY RequestAssumption DEF RequestAssumption
  <2>3. Visible' = Visible BY <2>1, <2>2 DEF Visible, Seen
  <2> QED BY <2>1, <2>3 DEF Answers
<1>4. ASSUME NEW t \in Threads,
             \/ Reject(t) \/ CopyDirectly(t) \/ MemoryRead(t) \/ MemoryWrite(t) \/ Query(t)
             \/ DmacConfigure(t) \/ DmacCopy(t) \/ DmacFinish(t)
             \/ NocSend(t) \/ NocInitArbitration(t) \/ NocDrop(t) \/ NocArrive(t)
             \/ NocArbitrate(t) \/ NocTransfer(t)
      PROVE  UNCHANGED <<Visible, req, Answers>>
  <2>1. pc[t] \notin Outside /\ UNCHANGED <<hal, req, before>>
    BY <1>4 DEF Reject, CopyDirectly, MemoryRead, MemoryWrite, Query, DmacConfigure,
                DmacCopy, DmacFinish, NocSend, NocInitArbitration, NocDrop, NocArrive,
                NocArbitrate, NocTransfer, InBody, Outside
  <2>2. ret' = ret \/ \E a : ret' = [ret EXCEPT ![t] = a]
    BY <1>4 DEF Reject, CopyDirectly, MemoryRead, MemoryWrite, Query, DmacConfigure,
                DmacCopy, DmacFinish, NocSend, NocInitArbitration, NocDrop, NocArrive,
                NocArbitrate, NocTransfer, Done
  <2> QED BY <1>0, <2>1, <2>2, OwnerStutters
<1>5. ASSUME UNCHANGED vars PROVE UNCHANGED <<Visible, req, Answers>>
  <2>1. UNCHANGED <<mem, hal, req, ret, before>> BY <1>5 DEF vars
  <2> QED BY <2>1 DEF Visible, Answers, Seen
<1>6. Flat!FlatNext \/ UNCHANGED <<Visible, req, Answers>>
  BY <1>1, <1>2, <1>3, <1>4, <1>5 DEF Next, Step, Finished
<1> QED BY <1>6 DEF Flat!flatVars

\* The refinement: hal_reference.c with its drivers, on the buffers of
\* platform_setup, behaves like one flat memory on which each call takes effect
\* at one moment or is refused (ImplementsFlatMemory).
THEOREM ImplementsFlat == Spec => ImplementsFlatMemory
<1>1. Init => Flat!FlatInit BY InitIsFlat
<1>2. FullInv /\ [Next]_vars => [Flat!FlatNext]_(Flat!flatVars) BY StepIsFlat
<1> QED BY <1>1, <1>2, FullInvariant, PTL DEF Spec, ImplementsFlatMemory, Flat!FlatSpec
=============================================================================
