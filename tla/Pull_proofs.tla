----------------------------- MODULE Pull_proofs -----------------------------
(***************************************************************************)
(* A pull for any versions, workers and window, killed and started again   *)
(* at will: the partial file is a prefix of its version, the window is     *)
(* bounded, a failure has the cause that is reported, and publication      *)
(* keeps the promise of module Destination.                                *)
(***************************************************************************)
EXTENDS Pull, FiniteSetTheorems, WellFoundedInduction, TLAPS

\* The parts of the assumption the proofs use.
LEMMA Assumed ==
    /\ Main \notin Workers /\ IsFiniteSet(Workers)
    /\ \A v \in Versions : Chunks[v] \in Nat \ {0}
    /\ Window \in Nat \ {0}
    /\ NoFile \notin Files
  BY PullAssumption

-----------------------------------------------------------------------------
(* The bytes of a version and its prefixes.                                *)

Block == (Versions \cup {"zero"}) \X Nat

Prefix(d, v) == Len(d) <= 2 * Chunks[v] /\ \A b \in 1..Len(d) : d[b] = <<v, b>>
Whole(d, v) == Prefix(d, v) /\ Len(d) = 2 * Chunks[v]

LEMMA SeqFrom ==
    ASSUME NEW S, NEW n \in Nat, NEW f \in [1..n -> S]
    PROVE  f \in Seq(S) /\ Len(f) = n /\ DOMAIN f = 1..n
  OBVIOUS

LEMMA SameSeq ==
    ASSUME NEW S, NEW T, NEW s \in Seq(S), NEW t \in Seq(T), Len(s) = Len(t),
           \A i \in 1..Len(s) : s[i] = t[i]
    PROVE  s = t
  OBVIOUS

LEMMA BlocksOf ==
    ASSUME NEW v \in Versions
    PROVE  /\ Blocks(v) \in Seq(Block) /\ Len(Blocks(v)) = 2 * Chunks[v]
           /\ \A b \in 1..Len(Blocks(v)) : Blocks(v)[b] = <<v, b>>
           /\ Blocks(v) # <<>> /\ Blocks(v)[1] = <<v, 1>>
<1>1. 2 * Chunks[v] \in Nat /\ 2 * Chunks[v] >= 2
  BY Assumed
<1>2. Blocks(v) \in [1..(2 * Chunks[v]) -> Block]
  BY <1>1 DEF Blocks, Block
<1>3. Blocks(v) \in Seq(Block) /\ Len(Blocks(v)) = 2 * Chunks[v]
  <2> DEFINE n == 2 * Chunks[v]
  <2>1. Blocks(v) \in [1..n -> Block] /\ n \in Nat
    BY <1>1, <1>2
  <2> HIDE DEF n
  <2>2. Blocks(v) \in Seq(Block) /\ Len(Blocks(v)) = n
    BY <2>1, SeqFrom
  <2> QED  BY <2>2 DEF n
<1>4. \A b \in 1..(2 * Chunks[v]) : Blocks(v)[b] = <<v, b>>
  BY DEF Blocks
<1>5. 1 \in 1..(2 * Chunks[v]) /\ Len(Blocks(v)) # 0
  BY <1>1, <1>3
<1> QED  BY <1>3, <1>4, <1>5

LEMMA BlocksInjective ==
    ASSUME NEW v \in Versions, NEW w \in Versions, Blocks(v) = Blocks(w)
    PROVE  v = w
<1>1. Blocks(v)[1] = <<v, 1>> /\ Blocks(w)[1] = <<w, 1>>
  BY BlocksOf
<1> QED  BY <1>1

LEMMA WholeIsBlocks ==
    ASSUME NEW v \in Versions, NEW d \in Seq(Block)
    PROVE  Whole(d, v) <=> d = Blocks(v)
<1>1. ASSUME Whole(d, v) PROVE d = Blocks(v)
  <2>1. Len(d) = Len(Blocks(v)) /\ \A b \in 1..Len(d) : d[b] = <<v, b>>
    BY <1>1, BlocksOf DEF Whole, Prefix
  <2>2. \A b \in 1..Len(d) : d[b] = Blocks(v)[b]
    BY <2>1, BlocksOf
  <2> QED  BY <2>1, <2>2, BlocksOf, SameSeq
<1>2. Whole(Blocks(v), v)
  <2>1. 2 * Chunks[v] \in Nat
    BY Assumed
  <2> QED  BY <2>1, BlocksOf DEF Whole, Prefix
<1> QED  BY <1>1, <1>2

\* A whole file that is also a prefix of version w is all of w.
LEMMA WholePrefix ==
    ASSUME NEW v \in Versions, NEW w \in Versions, Prefix(Blocks(v), w)
    PROVE  v = w
<1>1. 1 \in 1..Len(Blocks(v))
  BY BlocksOf, Assumed
<1> QED  BY <1>1, BlocksOf DEF Prefix

LEMMA PrefixIsSubSeq ==
    ASSUME NEW v \in Versions, NEW d \in Seq(Block), Prefix(d, v)
    PROVE  d = SubSeq(Blocks(v), 1, Len(d))
<1>1. Len(d) \in Nat /\ Len(d) <= Len(Blocks(v))
  BY BlocksOf DEF Prefix
<1>2. /\ SubSeq(Blocks(v), 1, Len(d)) \in Seq(Block)
      /\ Len(SubSeq(Blocks(v), 1, Len(d))) = Len(d)
      /\ \A i \in 1..Len(d) : SubSeq(Blocks(v), 1, Len(d))[i] = Blocks(v)[i]
  BY <1>1, BlocksOf
<1>3. \A i \in 1..Len(d) : d[i] = SubSeq(Blocks(v), 1, Len(d))[i]
  <2>1. \A i \in 1..Len(d) : i \in 1..Len(Blocks(v))
    BY <1>1, BlocksOf, Assumed
  <2>2. \A i \in 1..Len(d) : Blocks(v)[i] = <<v, i>>
    BY <2>1, BlocksOf
  <2> QED  BY <1>2, <2>2 DEF Prefix
<1> QED  BY <1>2, <1>3, SameSeq

LEMMA PrefixCut ==
    ASSUME NEW v \in Versions, NEW d \in Seq(Block), Prefix(d, v), NEW n \in 0..Len(d)
    PROVE  /\ SubSeq(d, 1, n) \in Seq(Block) /\ Len(SubSeq(d, 1, n)) = n
           /\ Prefix(SubSeq(d, 1, n), v)
<1>1. /\ SubSeq(d, 1, n) \in Seq(Block) /\ Len(SubSeq(d, 1, n)) = n
      /\ \A i \in 1..n : SubSeq(d, 1, n)[i] = d[i]
  OBVIOUS
<1>2. Len(d) \in Nat /\ Len(d) <= 2 * Chunks[v] /\ \A b \in 1..Len(d) : d[b] = <<v, b>>
  BY DEF Prefix
<1>3. n <= 2 * Chunks[v] /\ \A b \in 1..n : d[b] = <<v, b>>
  <2>1. 2 * Chunks[v] \in Nat
    BY Assumed
  <2> QED  BY <1>2, <2>1
<1> QED  BY <1>1, <1>3 DEF Prefix
-----------------------------------------------------------------------------
(* Types.  The files and the memory of the process apart: Exit resets the  *)
(* second.                                                                 *)

Inodes == Files \cup {NoFile}
WorkerPlaces == {"unborn", "claim", "fetch", "deliver", "cancel", "gone"}

FilesType ==
    /\ partial \in [Versions -> Inodes] /\ dest \in Inodes
    /\ data \in [Files -> Seq(Block)]

TaskType(t) == DOMAIN t = {"chunk", "left"} /\ t.chunk \in Int

MemoryType ==
    /\ version \in Versions /\ overwrite \in BOOLEAN
    /\ file \in Inodes /\ size \in Nat
    /\ write \in Nat /\ claim \in Nat /\ ready \subseteq Nat /\ taken \in Int
    /\ DOMAIN task = Workers /\ \A w \in Workers : TaskType(task[w])
    /\ pc \in MainPlaces /\ wpc \in [Workers -> WorkerPlaces]
    /\ parked \subseteq Workers \cup {Main}

Typed == FilesType /\ MemoryType

LEMMA NoTaskType == TaskType(NoTask)
  BY DEF TaskType, NoTask

LEMMA TypedInit == Init => Typed
<1> SUFFICES ASSUME Init PROVE Typed
  OBVIOUS
<1>1. FilesType
  BY DEF Init, FilesType, Inodes
<1>2. DOMAIN task = Workers /\ \A w \in Workers : TaskType(task[w])
  BY NoTaskType DEF Init
<1> QED  BY <1>1, <1>2 DEF Init, Typed, MemoryType, Inodes, MainPlaces, WorkerPlaces

\* What Exit leaves.
LEMMA ExitType ==
    ASSUME MemoryType, Exit
    PROVE  MemoryType'
<1>1. DOMAIN task' = Workers /\ \A w \in Workers : TaskType(task'[w])
  BY NoTaskType DEF Exit
<1> QED  BY <1>1 DEF Exit, MemoryType, requestVars, Inodes, MainPlaces, WorkerPlaces

LEMMA WorkerGotoType ==
    ASSUME MemoryType, NEW w \in Workers, NEW p \in WorkerPlaces, WorkerGoto(w, p)
    PROVE  /\ wpc' \in [Workers -> WorkerPlaces] /\ wpc'[w] = p
           /\ \A v \in Workers \ {w} : wpc'[v] = wpc[v]
  BY DEF MemoryType, WorkerGoto

\* Writing n blocks of chunk i at the end of a prefix that ends with the chunk before it.
LEMMA WriteExtends ==
    ASSUME FilesType, file \in Files, version \in Versions, Prefix(data[file], version),
           NEW i \in Nat, i < Chunks[version], Len(data[file]) = 2 * i,
           NEW n \in 0..2, pwrite(i, n)
    PROVE  /\ data' \in [Files -> Seq(Block)]
           /\ Prefix(data'[file], version) /\ Len(data'[file]) = 2 * i + n
           /\ \A f \in Files \ {file} : data'[f] = data[f]
<1> DEFINE k == 2 * i + n
           new == [b \in 1..k |-> IF b \in (2 * i + 1)..k THEN <<version, b>>
                                  ELSE IF b <= Len(data[file]) THEN data[file][b] ELSE Zero]
<1>1. k \in Nat /\ k >= Len(data[file]) /\ k <= 2 * Chunks[version] /\ data[file] \in Seq(Block)
  BY Assumed DEF FilesType
<1>2. \A b \in 1..k : new[b] = <<version, b>>
  <2> SUFFICES ASSUME NEW b \in 1..k PROVE new[b] = <<version, b>>
    OBVIOUS
  <2>1. CASE b \in (2 * i + 1)..k
    BY <2>1
  <2>2. CASE b \notin (2 * i + 1)..k
    <3>1. b \in 1..Len(data[file])
      BY <1>1, <2>2
    <3> QED  BY <2>2, <3>1 DEF Prefix
  <2> QED  BY <2>1, <2>2
<1>3. new \in [1..k -> Block]
  BY <1>1, <1>2 DEF Block
<1>4. new \in Seq(Block) /\ Len(new) = k
  <2> HIDE DEF k, new
  <2> QED  BY <1>1, <1>3, SeqFrom
<1>5. data' = [data EXCEPT ![file] = new]
  <2>1. (IF 2 * i + n > Len(data[file]) THEN 2 * i + n ELSE Len(data[file])) = k
    BY <1>1
  <2> QED  BY <2>1 DEF pwrite
<1> HIDE DEF new
<1>6. data'[file] = new /\ \A f \in Files \ {file} : data'[f] = data[f]
  BY <1>5 DEF FilesType
<1>7. data' \in [Files -> Seq(Block)]
  BY <1>4, <1>5 DEF FilesType
<1> QED  BY <1>1, <1>2, <1>4, <1>6, <1>7 DEF Prefix
-----------------------------------------------------------------------------
(* The file that open_partial_file opens.                                  *)

Opened == IF partial[version] # NoFile THEN partial[version]
          ELSE CHOOSE g \in Files : g \notin in_use
Kept == IF partial[version] # NoFile /\ Len(data[Opened]) <= 2 * Chunks[version]
        THEN data[Opened] ELSE <<>>

LEMMA OpenedFile ==
    ASSUME FilesType, version \in Versions, file = NoFile
    PROVE  /\ Opened \in Files
           /\ partial[version] = NoFile => Opened \notin in_use
           /\ Kept \in Seq(Block) /\ Len(Kept) \in Nat
<1>1. ASSUME partial[version] = NoFile
      PROVE  \E g \in Files : g \notin in_use
  <2>1. NoFile \in {partial[v] : v \in Versions}
    BY <1>1
  <2>2. Files \ ({partial[v] : v \in Versions} \cup {dest}) # {}
    BY <2>1, PullAssumption DEF FilesType, Inodes
  <2> QED  BY <2>2, Assumed DEF in_use
<1>2. Opened \in Files /\ (partial[version] = NoFile => Opened \notin in_use)
  BY <1>1 DEF Opened, FilesType, Inodes
<1>3. data[Opened] \in Seq(Block) /\ <<>> \in Seq(Block)
  BY <1>2 DEF FilesType
<1> QED  BY <1>2, <1>3 DEF Kept

LEMMA OpenAs ==
    ASSUME open_partial_file
    PROVE  /\ pc = "plan"
           /\ \/ Exit /\ UNCHANGED fileVars
              \/ /\ partial' = [partial EXCEPT ![version] = Opened]
                 /\ data' = [data EXCEPT ![Opened] = Kept]
                 /\ file' = Opened /\ size' = Len(Kept)
                 /\ Goto("resume")
                 /\ UNCHANGED <<requestVars, dest, pool, windowVars, failVars, wpc, parked>>
  BY DEF open_partial_file, Opened, Kept

LEMMA MemoryStep ==
    ASSUME Typed, [Next]_vars, pc = "plan" => file = NoFile,
           \A w \in Workers : wpc[w] = "deliver" => task[w].chunk \in Nat
    PROVE  MemoryType'
<1>0. /\ MainPlaces = {"idle", "validate", "plan", "resume", "spawn", "take", "write", "cancel",
                       "join", "publish", "unlink"}
      /\ WorkerPlaces = {"unborn", "claim", "fetch", "deliver", "cancel", "gone"}
  BY DEF MainPlaces, WorkerPlaces
<1>e. ASSUME Exit PROVE MemoryType'
  BY <1>e, ExitType DEF Typed
<1>m. MemoryType
  BY DEF Typed
<1>1. CASE MakePool
  BY <1>1, <1>0, <1>m DEF MemoryType, MakePool, Goto, windowVars
<1>2. CASE validate_destination
  <2>1. CASE Goto("plan") /\ UNCHANGED <<requestVars, memory, wpc, parked>>
    BY <2>1, <1>0, <1>m DEF MemoryType, Goto, requestVars, memory, planVars, windowVars
  <2> QED  BY <1>2, <1>e, <2>1 DEF validate_destination
<1>3. CASE open_partial_file
  <2>1. CASE /\ file' = Opened /\ size' = Len(Kept) /\ Goto("resume")
             /\ UNCHANGED <<requestVars, dest, pool, windowVars, failVars, wpc, parked>>
    <3>1. Opened \in Files /\ Len(Kept) \in Nat
      BY <1>3, OpenAs, OpenedFile DEF Typed, MemoryType
    <3> QED  BY <2>1, <3>1, <1>0, <1>m DEF MemoryType, Inodes, Goto, requestVars, windowVars
  <2> QED  BY <1>3, <1>e, <2>1, OpenAs
<1>4. CASE resume_from_partial
  BY <1>4, <1>0, <1>m DEF MemoryType, resume_from_partial, Goto, requestVars, planVars
<1>5. CASE Spawn
  <2>1. wpc' \in [Workers -> WorkerPlaces] /\ pc' \in MainPlaces /\ UNCHANGED parked
    BY <1>5, <1>0 DEF Spawn, Goto, Throws
  <2> QED  BY <1>5, <2>1, <1>m DEF MemoryType, Spawn, requestVars, planVars, windowVars
<1>6. CASE Take
  <2>1. /\ pc' \in MainPlaces /\ ready' \subseteq ready /\ parked' \subseteq Workers \cup {Main}
        /\ taken' \in Int
    BY <1>6, <1>0, <1>m DEF MemoryType, Take, Goto, Throws, next_ready, park
  <2> QED  BY <1>6, <2>1, <1>m DEF MemoryType, Take, requestVars, planVars
<1>7. CASE write_all
  <2>1. /\ pc' \in MainPlaces /\ parked' \subseteq Workers \cup {Main}
        /\ taken' \in Int /\ write' \in Nat
    BY <1>7, <1>0, <1>m DEF MemoryType, write_all, Goto, Throws, notify_all
  <2> QED  BY <1>7, <2>1, <1>m DEF MemoryType, write_all, requestVars, planVars
<1>8. CASE Cancel
  BY <1>8, <1>0, <1>m DEF MemoryType, Cancel, cancel_download, notify_all, Goto, requestVars,
                          planVars, windowVars
<1>9. CASE Join
  <2>1. CASE Goto("publish") /\ UNCHANGED <<requestVars, memory, wpc, parked>>
    BY <2>1, <1>0, <1>m DEF MemoryType, Goto, requestVars, memory, planVars, windowVars
  <2> QED  BY <1>9, <1>e, <2>1 DEF Join
<1>10. CASE publish_partial
  <2>1. CASE Goto("unlink") /\ UNCHANGED <<requestVars, partial, memory, wpc, parked>>
    BY <2>1, <1>0, <1>m DEF MemoryType, Goto, requestVars, memory, planVars, windowVars
  <2> QED  BY <1>10, <1>e, <2>1 DEF publish_partial
<1>11. CASE unlink
  BY <1>11, <1>e DEF unlink
<1>12. ASSUME NEW w \in Workers, Claim(w) PROVE MemoryType'
  <2>1. CASE WorkerGoto(w, "gone") /\ UNCHANGED <<claim, task, parked>>
    BY <1>12, <2>1, <1>0, <1>m, WorkerGotoType DEF MemoryType, Claim, requestVars, planVars
  <2>2. CASE /\ claim' = claim + 1
             /\ task' = [task EXCEPT ![w] = [chunk |-> claim, left |-> sources[claim]]]
             /\ WorkerGoto(w, "fetch") /\ UNCHANGED parked
    <3>1. DOMAIN task' = Workers /\ \A v \in Workers : TaskType(task'[v])
      BY <2>2, <1>m DEF MemoryType, TaskType
    <3> QED  BY <1>12, <2>2, <3>1, <1>0, <1>m, WorkerGotoType
                DEF MemoryType, Claim, requestVars, planVars
  <2>3. CASE park(w) /\ UNCHANGED <<claim, task, wpc>>
    BY <1>12, <2>3, <1>m DEF MemoryType, Claim, park, requestVars, planVars
  <2> QED  BY <1>12, <2>1, <2>2, <2>3 DEF Claim
<1>13. ASSUME NEW w \in Workers, Fetch(w) PROVE MemoryType'
  <2>1. wpc' \in [Workers -> WorkerPlaces]
    BY <1>13, <1>0, <1>m, WorkerGotoType DEF MemoryType, Fetch, WorkerThrows
  <2>2. DOMAIN task' = Workers /\ \A v \in Workers : TaskType(task'[v])
    BY <1>13, <1>m DEF MemoryType, Fetch, WorkerThrows, TaskType
  <2> QED  BY <1>13, <2>1, <2>2, <1>m DEF MemoryType, Fetch, requestVars, planVars
<1>14. ASSUME NEW w \in Workers, Deliver(w) PROVE MemoryType'
  <2>1. task[w].chunk \in Nat
    BY <1>14 DEF Deliver
  <2> QED  BY <1>14, <2>1, <1>0, <1>m, NoTaskType, WorkerGotoType
              DEF MemoryType, Deliver, notify_all, requestVars, planVars
<1>15. ASSUME NEW w \in Workers, WorkerCancels(w) PROVE MemoryType'
  BY <1>15, <1>0, <1>m, WorkerGotoType DEF MemoryType, WorkerCancels, cancel_download, notify_all,
                                           requestVars, planVars, windowVars
<1>16. CASE Kill
  BY <1>16, <1>e DEF Kill
<1>17. CASE PublishOther
  BY <1>17, <1>m DEF MemoryType, PublishOther, requestVars, memory, planVars, windowVars, threadVars
<1>18. CASE UNCHANGED vars
  BY <1>18, <1>m DEF MemoryType, vars, requestVars, memory, planVars, windowVars, threadVars
<1> QED
  BY <1>1, <1>2, <1>3, <1>4, <1>5, <1>6, <1>7, <1>8, <1>9, <1>10, <1>11, <1>12, <1>13, <1>14,
     <1>15, <1>16, <1>17, <1>18 DEF Next, MainStep, WorkerStep
-----------------------------------------------------------------------------
(* The window.  The chunks that are fetched, ready or being written are    *)
(* different, and all between what is written and what is claimed.         *)

Opening == {"idle", "validate", "plan"}
Early == Opening \cup {"resume", "spawn"}

TasksInv ==
    \A w \in Workers :
        /\ task[w] # NoTask =>
               /\ task[w].chunk \in write..(claim - 1)
               /\ task[w].chunk \notin ready /\ task[w].chunk # taken
        /\ \A v \in Workers \ {w} :
               task[v] # NoTask /\ task[w] # NoTask => task[v].chunk # task[w].chunk
        /\ wpc[w] \in {"unborn", "claim"} => task[w] = NoTask
        /\ wpc[w] \in {"fetch", "deliver"} => task[w] # NoTask

RangeInv ==
    /\ write <= claim /\ claim <= Chunks[version] /\ claim <= write + Window
    /\ ready \subseteq write..(claim - 1)
    /\ taken # -1 => taken = write /\ write < claim /\ taken \notin ready
    /\ pc = "take" => taken = -1
    /\ pc = "write" => taken = write

EarlyInv ==
    /\ pc \in Opening => write = 0 /\ file = NoFile
    /\ pc \in Early => /\ write = claim /\ ready = {} /\ taken = -1
                       /\ \A w \in Workers : wpc[w] = "unborn"
    /\ pc = "resume" => write < Chunks[version]

WindowInv == TasksInv /\ RangeInv /\ EarlyInv

LEMMA WindowInit == Init => WindowInv
  BY Assumed DEF Init, WindowInv, TasksInv, RangeInv, EarlyInv, Opening, Early

LEMMA ExitWindow ==
    ASSUME MemoryType, Exit
    PROVE  WindowInv'
<1>1. \A w \in Workers : task'[w] = NoTask /\ wpc'[w] = "unborn"
  BY DEF Exit
<1> QED
  BY <1>1, Assumed DEF Exit, MemoryType, requestVars, WindowInv, TasksInv, RangeInv, EarlyInv, Opening

LEMMA WindowStep ==
    ASSUME Typed, WindowInv, [Next]_vars
    PROVE  WindowInv'
<1>0. /\ Opening = {"idle", "validate", "plan"}
      /\ Early = {"idle", "validate", "plan", "resume", "spawn"}
  BY DEF Opening, Early
<1>m. MemoryType
  BY DEF Typed
<1>v. \A v \in Versions : Chunks[v] \in Nat \ {0}
  BY Assumed
<1>e. ASSUME Exit PROVE WindowInv'
  BY <1>e, <1>m, ExitWindow
\* A step that moves the main thread on and leaves the window alone.
<1>g. ASSUME UNCHANGED <<version, file, windowVars, wpc>>, pc \notin Early, pc' \notin Early,
             pc' = "take" => taken = -1, pc' = "write" => taken = write
      PROVE  WindowInv'
  BY <1>g, <1>0 DEF WindowInv, TasksInv, RangeInv, EarlyInv, windowVars
<1>1. CASE MakePool
  <2>1. /\ version' \in Versions /\ pc' = "validate" /\ pc = "idle"
        /\ UNCHANGED <<windowVars, file, wpc>>
    BY <1>1 DEF MakePool, Goto
  <2> QED  BY <2>1, <1>0, <1>v DEF WindowInv, TasksInv, RangeInv, EarlyInv, windowVars
<1>2. CASE validate_destination
  <2>1. CASE pc = "validate" /\ Goto("plan") /\ UNCHANGED <<requestVars, memory, wpc, parked>>
    BY <2>1, <1>0 DEF WindowInv, TasksInv, RangeInv, EarlyInv, requestVars, memory, planVars,
                      windowVars, Goto
  <2> QED  BY <1>2, <1>e, <2>1 DEF validate_destination
<1>3. CASE open_partial_file
  <2>1. CASE /\ pc = "plan" /\ Goto("resume")
             /\ UNCHANGED <<requestVars, windowVars, wpc>>
    BY <2>1, <1>0, <1>m, <1>v DEF WindowInv, TasksInv, RangeInv, EarlyInv, MemoryType, requestVars,
                      windowVars, Goto
  <2> QED  BY <1>3, <1>e, <2>1, OpenAs
<1>4. CASE resume_from_partial
  <2>1. CASE /\ write' = write + 1 /\ claim' = write + 1
             /\ Goto(IF write + 1 = Chunks[version] THEN "publish" ELSE "resume")
    <3>1. UNCHANGED <<version, file, ready, taken, task, wpc>> /\ pc = "resume"
      BY <1>4 DEF resume_from_partial, requestVars, planVars
    <3>2. \A w \in Workers : task[w] = NoTask
      BY <3>1, <1>0 DEF WindowInv, TasksInv, EarlyInv
    <3>3. write + 1 <= Chunks[version] /\ write \in Nat /\ Window >= 1 /\ Window \in Nat
          /\ Chunks[version] \in Nat
      BY <3>1, <1>m, <1>v, Assumed DEF WindowInv, EarlyInv, MemoryType
    <3>4. TasksInv'
      BY <3>1, <3>2, <1>0 DEF WindowInv, EarlyInv, TasksInv
    <3>5. RangeInv' /\ EarlyInv'
      BY <2>1, <3>1, <3>3, <1>0 DEF WindowInv, EarlyInv, RangeInv, Goto
    <3> QED  BY <3>4, <3>5 DEF WindowInv
  <2>2. CASE Goto("spawn") /\ UNCHANGED <<write, claim>>
    <3>1. UNCHANGED <<version, file, ready, taken, task, wpc>> /\ pc = "resume"
      BY <1>4 DEF resume_from_partial, requestVars, planVars
    <3> QED  BY <2>2, <3>1, <1>0 DEF WindowInv, TasksInv, RangeInv, EarlyInv, Goto
  <2> QED  BY <1>4, <2>1, <2>2 DEF resume_from_partial
<1>5. CASE Spawn
  <2>1. /\ UNCHANGED <<version, file, write, claim, ready, taken, task>> /\ pc = "spawn"
        /\ pc' \in {"take", "cancel"} /\ \A w \in Workers : wpc'[w] \in {"claim", "unborn"}
    BY <1>5 DEF Spawn, Goto, Throws, requestVars, planVars, windowVars
  <2>2. \A w \in Workers : task[w] = NoTask
    BY <2>1, <1>0 DEF WindowInv, TasksInv, EarlyInv
  <2>3. TasksInv'
    BY <2>1, <2>2, <1>0 DEF WindowInv, TasksInv
  <2> QED  BY <2>1, <2>3, <1>0 DEF WindowInv, RangeInv, EarlyInv
<1>6. CASE Take
  <2>1. /\ UNCHANGED <<version, file, write, claim, task, wpc>> /\ pc = "take"
        /\ pc' \in {"take", "write", "cancel"}
    BY <1>6 DEF Take, At, Goto, Throws, park, requestVars, planVars
  <2>2. CASE pc' # "write" /\ UNCHANGED <<ready, taken>>
    BY <2>1, <2>2, <1>g, <1>0 DEF WindowInv, RangeInv, windowVars
  <2>3. CASE taken' = write /\ write \in ready /\ ready' = ready \ {write} /\ pc' = "write"
    <3>1. write \in Nat /\ claim \in Nat /\ write < claim
      BY <2>3, <1>m DEF MemoryType, WindowInv, RangeInv
    <3>2. TasksInv'
      BY <2>1, <2>3 DEF WindowInv, TasksInv
    <3>3. RangeInv' /\ EarlyInv'
      BY <2>1, <2>3, <3>1, <1>0 DEF WindowInv, RangeInv, EarlyInv
    <3> QED  BY <3>2, <3>3 DEF WindowInv
  <2> QED  BY <1>6, <2>1, <2>2, <2>3 DEF Take, next_ready, Goto, Throws, park
<1>7. CASE write_all
  <2>1. /\ UNCHANGED <<version, file, claim, ready, task, wpc>> /\ pc = "write"
    BY <1>7 DEF write_all, requestVars, planVars
  <2>2. CASE write' = write + 1 /\ taken' = -1 /\ pc' = "take"
    <3>1. /\ taken = write /\ write < claim /\ write \notin ready /\ write \in Nat /\ claim \in Nat
          /\ write # -1
      BY <2>1, <1>m DEF MemoryType, WindowInv, RangeInv
    <3>2. \A i \in write..(claim - 1) : i # write => i \in (write + 1)..(claim - 1) /\ i # -1
      BY <3>1
    <3>3. TasksInv'
      BY <2>1, <2>2, <3>1, <3>2 DEF WindowInv, TasksInv
    <3>4. ready' \subseteq write'..(claim' - 1)
      BY <2>1, <2>2, <3>1, <3>2 DEF WindowInv, RangeInv
    <3>5. claim <= (write + 1) + Window
      BY <3>1, Assumed DEF WindowInv, RangeInv
    <3> QED  BY <2>1, <2>2, <3>1, <3>3, <3>4, <3>5, <1>0 DEF WindowInv, RangeInv, EarlyInv
  <2>3. CASE pc' = "cancel" /\ UNCHANGED <<write, taken>>
    BY <2>1, <2>3, <1>g, <1>0 DEF windowVars
  <2> QED  BY <1>7, <2>2, <2>3 DEF write_all, Goto, Throws
<1>8. CASE Cancel
  BY <1>8, <1>g, <1>0 DEF Cancel, Goto, requestVars, planVars
<1>9. CASE Join
  <2>1. CASE pc = "join" /\ Goto("publish") /\ UNCHANGED <<requestVars, memory, wpc, parked>>
    BY <2>1, <1>g, <1>0 DEF Goto, requestVars, memory, planVars
  <2> QED  BY <1>9, <1>e, <2>1 DEF Join
<1>10. CASE publish_partial
  <2>1. CASE pc = "publish" /\ Goto("unlink") /\ UNCHANGED <<requestVars, partial, memory, wpc, parked>>
    BY <2>1, <1>g, <1>0 DEF Goto, requestVars, memory, planVars
  <2> QED  BY <1>10, <1>e, <2>1 DEF publish_partial
<1>11. CASE unlink
  BY <1>11, <1>e DEF unlink
\* What a worker does leaves the main thread where it is, and that is not early.
<1>w. ASSUME NEW w \in Workers, wpc[w] # "unborn", UNCHANGED <<version, file, write, taken, pc>>,
             TasksInv', RangeInv'
      PROVE  WindowInv'
  BY <1>w, <1>0 DEF WindowInv, EarlyInv
<1>12. ASSUME NEW w \in Workers, Claim(w) PROVE WindowInv'
  <2>1. UNCHANGED <<version, file, write, ready, taken, pc>> /\ wpc[w] = "claim"
    BY <1>12 DEF Claim, WorkerAt, requestVars, planVars
  <2>2. CASE WorkerGoto(w, "gone") /\ UNCHANGED <<claim, task, parked>>
    <3>1. wpc'[w] = "gone" /\ \A v \in Workers \ {w} : wpc'[v] = wpc[v]
      BY <2>2, <1>m, WorkerGotoType DEF WorkerPlaces
    <3>2. TasksInv' /\ RangeInv'
      BY <2>1, <2>2, <3>1 DEF WindowInv, TasksInv, RangeInv
    <3> QED  BY <2>1, <3>2, <1>w
  <2>3. CASE /\ claim < Chunks[version] /\ may_claim
             /\ claim' = claim + 1
             /\ task' = [task EXCEPT ![w] = [chunk |-> claim, left |-> sources[claim]]]
             /\ WorkerGoto(w, "fetch") /\ UNCHANGED parked
    <3>1. wpc'[w] = "fetch" /\ \A v \in Workers \ {w} : wpc'[v] = wpc[v]
      BY <2>3, <1>m, WorkerGotoType DEF WorkerPlaces
    <3>2. /\ task'[w].chunk = claim /\ \A v \in Workers \ {w} : task'[v] = task[v]
          /\ claim \in Nat /\ write \in Nat
      BY <2>3, <1>m DEF MemoryType
    <3>3. task'[w] # NoTask
      BY <3>2 DEF NoTask
    <3>4. \A i \in write..(claim - 1) : i \in write..claim /\ i # claim
      BY <3>2
    <3>5. claim \in write..claim /\ claim \notin ready /\ claim # taken
      BY <3>2, <3>4, <1>m DEF WindowInv, RangeInv, MemoryType
    <3>6. TasksInv'
      <4>1. claim' - 1 = claim
        BY <2>3, <3>2
      <4>2. \A v \in Workers \ {w} : task[v] # NoTask => task[v].chunk # claim
        BY <3>4 DEF WindowInv, TasksInv
      <4>3. ASSUME NEW v \in Workers
            PROVE  task'[v] # NoTask =>
                       /\ task'[v].chunk \in write'..(claim' - 1)
                       /\ task'[v].chunk \notin ready' /\ task'[v].chunk # taken'
        BY <2>1, <3>2, <3>4, <3>5, <4>1 DEF WindowInv, TasksInv
      <4> QED  BY <3>1, <3>2, <3>3, <4>2, <4>3 DEF WindowInv, TasksInv
    <3>7. RangeInv'
      <4>1. claim + 1 <= Chunks[version] /\ claim + 1 <= write + Window /\ write <= claim + 1
        BY <2>3, <3>2, <1>m, <1>v, Assumed DEF may_claim, MemoryType, WindowInv, RangeInv
      <4>2. ready \subseteq write..((claim + 1) - 1)
        BY <3>2 DEF WindowInv, RangeInv
      <4> QED  BY <2>1, <2>3, <3>2, <4>1, <4>2 DEF WindowInv, RangeInv
    <3> QED  BY <2>1, <3>6, <3>7, <1>w
  <2>4. CASE park(w) /\ UNCHANGED <<claim, task, wpc>>
    <3>1. TasksInv' /\ RangeInv'
      BY <2>1, <2>4 DEF WindowInv, TasksInv, RangeInv
    <3> QED  BY <2>1, <3>1, <1>w
  <2>5. claim \in Nat /\ Chunks[version] \in Nat
    BY <1>m, <1>v DEF MemoryType
  <2> QED  BY <1>12, <2>2, <2>3, <2>4, <2>5 DEF Claim
<1>13. ASSUME NEW w \in Workers, Fetch(w) PROVE WindowInv'
  <2>1. UNCHANGED <<version, file, write, claim, ready, taken, pc>> /\ wpc[w] = "fetch"
    BY <1>13 DEF Fetch, requestVars, planVars
  <2>2. /\ wpc'[w] \in {"fetch", "deliver", "cancel"}
        /\ \A v \in Workers \ {w} : wpc'[v] = wpc[v]
    BY <1>13, <2>1, <1>m, WorkerGotoType DEF Fetch, WorkerThrows, WorkerPlaces
  <2>3. task[w] # NoTask /\ TaskType(task[w]) /\ task[w].chunk \in Nat
    BY <2>1, <1>m DEF WindowInv, TasksInv, MemoryType
  <2>4. /\ task'[w].chunk = task[w].chunk /\ \A v \in Workers \ {w} : task'[v] = task[v]
    BY <1>13, <2>3, <1>m DEF Fetch, WorkerThrows, MemoryType, TaskType
  <2>5. task'[w] # NoTask
    BY <2>3, <2>4 DEF NoTask
  <2>6. TasksInv'
    BY <2>1, <2>2, <2>3, <2>4, <2>5 DEF WindowInv, TasksInv
  <2>7. RangeInv'
    BY <2>1 DEF WindowInv, RangeInv
  <2> QED  BY <2>1, <2>6, <2>7, <1>w
<1>14. ASSUME NEW w \in Workers, Deliver(w) PROVE WindowInv'
  <2>1. /\ UNCHANGED <<version, file, write, claim, taken, pc>> /\ wpc[w] = "deliver"
        /\ ready' = ready \cup {task[w].chunk}
    BY <1>14 DEF Deliver, requestVars, planVars
  <2>2. wpc'[w] = "claim" /\ \A v \in Workers \ {w} : wpc'[v] = wpc[v]
    BY <1>14, <1>m, WorkerGotoType DEF Deliver, WorkerPlaces
  <2>3. task'[w] = NoTask /\ \A v \in Workers \ {w} : task'[v] = task[v]
    BY <1>14, <1>m DEF Deliver, MemoryType
  <2>4. /\ task[w] # NoTask /\ task[w].chunk \in write..(claim - 1) /\ task[w].chunk # taken
    BY <2>1 DEF WindowInv, TasksInv
  <2>5. TasksInv'
    BY <2>1, <2>2, <2>3, <2>4 DEF WindowInv, TasksInv
  <2>6. RangeInv'
    BY <2>1, <2>4 DEF WindowInv, RangeInv
  <2> QED  BY <2>1, <2>5, <2>6, <1>w
<1>15. ASSUME NEW w \in Workers, WorkerCancels(w) PROVE WindowInv'
  <2>1. UNCHANGED <<version, file, write, claim, ready, taken, task, pc>> /\ wpc[w] = "cancel"
    BY <1>15 DEF WorkerCancels, requestVars, planVars, windowVars
  <2>2. wpc'[w] = "gone" /\ \A v \in Workers \ {w} : wpc'[v] = wpc[v]
    BY <1>15, <1>m, WorkerGotoType DEF WorkerCancels, WorkerPlaces
  <2>3. TasksInv' /\ RangeInv'
    BY <2>1, <2>2 DEF WindowInv, TasksInv, RangeInv
  <2> QED  BY <2>1, <2>3, <1>w
<1>16. CASE Kill
  BY <1>16, <1>e DEF Kill
<1>17. CASE PublishOther \/ UNCHANGED vars
  <2>1. UNCHANGED <<version, file, write, claim, ready, taken, task, pc, wpc>>
    BY <1>17 DEF PublishOther, vars, requestVars, memory, planVars, windowVars, threadVars
  <2> QED  BY <2>1 DEF WindowInv, TasksInv, RangeInv, EarlyInv
<1> QED
  BY <1>1, <1>2, <1>3, <1>4, <1>5, <1>6, <1>7, <1>8, <1>9, <1>10, <1>11, <1>12, <1>13, <1>14,
     <1>15, <1>16, <1>17 DEF Next, MainStep, WorkerStep
-----------------------------------------------------------------------------
(* The files.  A partial file is a prefix of its version, the destination  *)
(* is all of some version, and the file that is written has no other name. *)

PartialInv ==
    /\ \A v, w \in Versions : partial[v] = partial[w] /\ partial[v] # NoFile => v = w
    /\ \A v \in Versions : partial[v] # NoFile => Prefix(data[partial[v]], v)

DestInv == dest # NoFile => \E v \in Versions : data[dest] = Blocks(v)
UnusedInv == \A f \in Files \ in_use : data[f] = <<>>

DiskInv == FilesType /\ PartialInv /\ DestInv /\ UnusedInv

OpenInv ==
    /\ file = NoFile <=> pc \in Opening
    /\ file # NoFile => file = partial[version]
    /\ pc = "resume" => size = Len(data[file]) /\ 2 * write <= size
    /\ pc \in {"spawn", "take", "write"} => Len(data[file]) = 2 * write
    /\ pc = "write" => write < Chunks[version]
    /\ pc \in {"publish", "unlink"} \/ (pc \in {"cancel", "join"} /\ failure = "none")
          => Len(data[file]) = 2 * Chunks[version]

LEMMA DiskInit == Init => DiskInv /\ OpenInv
<1> SUFFICES ASSUME Init PROVE DiskInv /\ OpenInv
  OBVIOUS
<1>1. FilesType
  BY DEF Init, FilesType, Inodes
<1> QED  BY <1>1 DEF Init, DiskInv, PartialInv, DestInv, UnusedInv, OpenInv, Opening

LEMMA OpenFile ==
    ASSUME FilesType, PartialInv, OpenInv, MemoryType, file # NoFile
    PROVE  /\ file \in Files /\ data[file] \in Seq(Block) /\ Len(data[file]) \in Nat
           /\ Prefix(data[file], version)
<1>1. file \in Files /\ data[file] \in Seq(Block)
  BY DEF FilesType, OpenInv, MemoryType, Inodes
<1> QED  BY <1>1 DEF PartialInv, OpenInv, MemoryType

\* A file that is not whole is not the destination.
LEMMA NotPublished ==
    ASSUME DiskInv, OpenInv, MemoryType, file # NoFile, Len(data[file]) # 2 * Chunks[version]
    PROVE  dest # file
<1> SUFFICES ASSUME dest = file PROVE FALSE
  OBVIOUS
<1>1. PICK v \in Versions : data[file] = Blocks(v)
  BY DEF DiskInv, DestInv
<1>2. Prefix(Blocks(v), version) /\ version \in Versions
  BY <1>1, OpenFile DEF DiskInv, MemoryType
<1>3. v = version
  BY <1>2, WholePrefix
<1> QED  BY <1>1, <1>3, BlocksOf

LEMMA WholeFile ==
    ASSUME DiskInv, OpenInv, MemoryType, file # NoFile, Len(data[file]) = 2 * Chunks[version]
    PROVE  partial[version] = file /\ data[file] = Blocks(version)
<1>1. /\ Whole(data[file], version) /\ data[file] \in Seq(Block) /\ version \in Versions
  BY OpenFile DEF DiskInv, Whole, MemoryType
<1> QED  BY <1>1, WholeIsBlocks DEF OpenInv

\* The process ends and leaves the files as they are.
LEMMA ExitOpen ==
    ASSUME Exit
    PROVE  OpenInv'
  BY DEF Exit, OpenInv, Opening

LEMMA ExitDisk ==
    ASSUME DiskInv, OpenInv, MemoryType, Exit, UNCHANGED fileVars
    PROVE  DiskInv'
<1>1. UNCHANGED <<partial, dest, data>> /\ file' = NoFile
  BY DEF Exit, fileVars
<1>2. in_use \subseteq in_use' \cup {NoFile}
  BY <1>1 DEF in_use, OpenInv, MemoryType
<1>3. UnusedInv'
  BY <1>1, <1>2, Assumed DEF DiskInv, UnusedInv
<1> QED  BY <1>1, <1>3 DEF DiskInv, FilesType, PartialInv, DestInv

\* The open file is changed, and stays a prefix.
LEMMA DiskWrite ==
    ASSUME DiskInv, OpenInv, MemoryType, file # NoFile, dest # file,
           UNCHANGED <<partial, dest, version>>, file' = file \/ file' = NoFile,
           data' \in [Files -> Seq(Block)], Prefix(data'[file], version),
           \A f \in Files \ {file} : data'[f] = data[f]
    PROVE  DiskInv'
<1>1. file = partial[version] /\ file \in Files /\ version \in Versions
  BY OpenFile DEF OpenInv, DiskInv, MemoryType
<1>2. PartialInv'
  <2>1. ASSUME NEW v \in Versions, partial[v] # NoFile PROVE Prefix(data'[partial[v]], v)
    <3>1. CASE v = version
      BY <1>1, <3>1
    <3>2. CASE v # version
      <4>1. partial[v] \in Files \ {file}
        BY <1>1, <2>1, <3>2 DEF DiskInv, PartialInv, FilesType, Inodes
      <4> QED  BY <2>1, <4>1 DEF DiskInv, PartialInv
    <3> QED  BY <3>1, <3>2
  <2> QED  BY <2>1 DEF DiskInv, PartialInv
<1>3. DestInv'
  BY DEF DiskInv, DestInv, FilesType, Inodes
<1>4. UnusedInv'
  <2>1. \A f \in Files : f \notin in_use' => f \notin in_use /\ f # file
    BY <1>1, Assumed DEF in_use
  <2> QED  BY <2>1 DEF DiskInv, UnusedInv
<1> QED  BY <1>2, <1>3, <1>4 DEF DiskInv, FilesType

\* Names change, and the files that have none any more are gone.
LEMMA Reclaimed ==
    ASSUME DiskInv, reclaim, partial' \in [Versions -> Inodes], dest' \in Inodes,
           \A v \in Versions : partial'[v] # NoFile => partial'[v] = partial[v],
           dest' # NoFile => \E v \in Versions : data[dest'] = Blocks(v)
    PROVE  DiskInv'
<1>1. \A f \in Files : data'[f] = IF f \in in_use' THEN data[f] ELSE <<>>
  BY DEF reclaim
<1>2. data' \in [Files -> Seq(Block)]
  BY DEF reclaim, DiskInv, FilesType
<1>3. PartialInv'
  <2>1. ASSUME NEW v \in Versions, partial'[v] # NoFile
        PROVE  data'[partial'[v]] = data[partial[v]] /\ partial[v] # NoFile
    <3>1. partial'[v] = partial[v] /\ partial'[v] \in Files /\ partial'[v] \in in_use'
      BY <2>1 DEF in_use, Inodes
    <3> QED  BY <1>1, <2>1, <3>1
  <2> QED  BY <2>1 DEF DiskInv, PartialInv
<1>4. DestInv'
  <2>1. dest' # NoFile => dest' \in Files /\ dest' \in in_use'
    BY DEF in_use, Inodes
  <2> QED  BY <1>1, <2>1 DEF DestInv
<1> QED  BY <1>1, <1>2, <1>3, <1>4 DEF DiskInv, FilesType, UnusedInv
\* What open_partial_file keeps is what was there.
LEMMA OpenKeeps ==
    ASSUME DiskInv, MemoryType, file = NoFile
    PROVE  Kept = data[Opened]
<1>0. FilesType /\ PartialInv /\ version \in Versions
  BY DEF DiskInv, MemoryType
<1>1. CASE partial[version] # NoFile
  BY <1>0, <1>1 DEF Kept, Opened, PartialInv, Prefix
<1>2. CASE partial[version] = NoFile
  BY <1>0, <1>2, OpenedFile DEF Kept, DiskInv, UnusedInv
<1> QED  BY <1>1, <1>2

\* A chunk that is not kept is not there in full, so the file is not whole.
LEMMA NotKept ==
    ASSUME DiskInv, OpenInv, MemoryType, pc = "resume", write < Chunks[version],
           ~(size >= 2 * write + 2 /\ chunk_bytes_match_id(write))
    PROVE  size < 2 * write + 2 /\ dest # file
<1>n. version \in Versions /\ write \in Nat /\ Chunks[version] \in Nat \ {0}
  BY Assumed DEF MemoryType
<1>1. /\ file # NoFile /\ size = Len(data[file]) /\ size \in Nat
      /\ Prefix(data[file], version)
  BY OpenFile DEF OpenInv, Opening, DiskInv, MemoryType
<1>2. ASSUME size >= 2 * write + 2 PROVE chunk_bytes_match_id(write)
  <2>1. 2 * write + 1 \in 1..Len(data[file]) /\ 2 * write + 2 \in 1..Len(data[file])
    BY <1>1, <1>2, <1>n
  <2> QED  BY <1>1, <2>1 DEF chunk_bytes_match_id, Prefix
<1>3. size < 2 * write + 2
  BY <1>1, <1>2, <1>n
<1>4. Len(data[file]) # 2 * Chunks[version]
  BY <1>1, <1>3, <1>n
<1> QED  BY <1>1, <1>3, <1>4, NotPublished

LEMMA DiskStep ==
    ASSUME DiskInv, OpenInv, MemoryType, WindowInv, [Next]_vars
    PROVE  DiskInv' /\ OpenInv'
<1> DEFINE Goal == DiskInv' /\ OpenInv'
<1>0. Opening = {"idle", "validate", "plan"} /\ FilesType /\ PartialInv
  BY DEF Opening, DiskInv
<1>n. version \in Versions /\ write \in Nat /\ Chunks[version] \in Nat \ {0}
  BY Assumed DEF MemoryType
<1>x. ASSUME Exit, UNCHANGED fileVars PROVE Goal
  BY <1>x, ExitDisk, ExitOpen
\* The files stay as they are.
<1>g. ASSUME UNCHANGED <<partial, dest, data, file>> PROVE DiskInv'
  <2>1. UnusedInv'
    BY <1>g DEF DiskInv, UnusedInv, in_use
  <2> QED  BY <1>g, <2>1 DEF DiskInv, FilesType, PartialInv, DestInv
<1>1. CASE MakePool
  <2>1. /\ UNCHANGED <<partial, dest, data, file, write>> /\ pc = "idle" /\ pc' = "validate"
    BY <1>1 DEF MakePool, Goto, fileVars, windowVars
  <2> QED  BY <2>1, <1>g, <1>0 DEF OpenInv
<1>2. CASE validate_destination
  <2>1. CASE pc = "validate" /\ Goto("plan") /\ UNCHANGED <<fileVars, requestVars, memory, wpc, parked>>
    <3>1. UNCHANGED <<partial, dest, data, file>> /\ pc = "validate" /\ pc' = "plan"
      BY <2>1 DEF Goto, fileVars, memory, planVars
    <3> QED  BY <3>1, <1>g, <1>0 DEF OpenInv
  <2> QED  BY <1>2, <1>x, <2>1 DEF validate_destination
<1>3. CASE open_partial_file
  <2>1. CASE /\ pc = "plan"
             /\ partial' = [partial EXCEPT ![version] = Opened]
             /\ data' = [data EXCEPT ![Opened] = Kept]
             /\ file' = Opened /\ size' = Len(Kept)
             /\ Goto("resume")
             /\ UNCHANGED <<requestVars, dest, pool, windowVars, failVars, wpc, parked>>
    <3>1. file = NoFile /\ write = 0
      BY <2>1, <1>0 DEF WindowInv, EarlyInv
    <3>2. Opened \in Files /\ (partial[version] = NoFile => Opened \notin in_use)
      BY <3>1, <1>0, <1>n, OpenedFile
    <3>3. Kept = data[Opened]
      BY <3>1, OpenKeeps
    <3>4. data' = data
      BY <2>1, <3>2, <3>3, <1>0 DEF FilesType
    <3>5. /\ partial' \in [Versions -> Inodes] /\ partial'[version] = Opened
          /\ \A v \in Versions \ {version} : partial'[v] = partial[v] /\ partial[v] # Opened
      <4>1. \A v \in Versions \ {version} : partial[v] # Opened
        BY <3>2, <1>0, <1>n DEF PartialInv, Opened, in_use, FilesType, Inodes
      <4> QED  BY <2>1, <3>2, <4>1, <1>0, <1>n DEF FilesType, Inodes
    <3>6. Prefix(data[Opened], version)
      <4>1. CASE partial[version] # NoFile
        BY <4>1, <1>0, <1>n DEF Opened, PartialInv
      <4>2. CASE partial[version] = NoFile
        <5>1. data[Opened] = <<>> /\ Len(<<>>) = 0 /\ 0 <= 2 * Chunks[version]
          BY <3>2, <4>2, <1>n DEF DiskInv, UnusedInv
        <5> QED  BY <5>1 DEF Prefix
      <4> QED  BY <4>1, <4>2
    <3>7. PartialInv'
      BY <3>4, <3>5, <3>6, <1>0 DEF PartialInv
    <3>8. in_use \subseteq in_use' \cup {NoFile}
      <4>1. {partial[v] : v \in Versions} \subseteq {partial'[v] : v \in Versions} \cup {NoFile}
        <5>1. partial[version] \in {NoFile, Opened}
          BY DEF Opened
        <5>2. ASSUME NEW v \in Versions PROVE partial[v] \in {partial'[w] : w \in Versions} \cup {NoFile}
          BY <3>5, <5>1, <1>n
        <5> QED  BY <5>2
      <4> QED  BY <2>1, <3>1, <4>1 DEF in_use
    <3>9. UnusedInv' /\ DestInv'
      BY <2>1, <3>4, <3>8, Assumed DEF DiskInv, UnusedInv, DestInv
    <3>10. OpenInv'
      BY <2>1, <3>1, <3>2, <3>3, <3>4, <3>5, <1>0, <1>n, Assumed
         DEF OpenInv, Goto, FilesType, requestVars, windowVars
    <3> QED  BY <2>1, <3>4, <3>5, <3>7, <3>9, <3>10, <1>0 DEF DiskInv, FilesType
  <2> QED  BY <1>3, <1>x, <2>1, OpenAs
<1>4. CASE resume_from_partial
  <2> DEFINE kept == size >= 2 * write + 2 /\ chunk_bytes_match_id(write)
  <2>1. /\ pc = "resume" /\ UNCHANGED <<version, partial, dest, file, size>>
        /\ file # NoFile /\ size = Len(data[file]) /\ 2 * write <= size
        /\ write < Chunks[version]
    BY <1>4, <1>0 DEF resume_from_partial, requestVars, planVars, OpenInv, WindowInv, EarlyInv
  <2>2. file \in Files /\ data[file] \in Seq(Block) /\ size \in Nat /\ Prefix(data[file], version)
    BY <2>1, <1>0, OpenFile
  <2>3. CASE kept
    <3>1. /\ write' = write + 1 /\ UNCHANGED data
          /\ pc' = IF write + 1 = Chunks[version] THEN "publish" ELSE "resume"
      BY <1>4, <2>3 DEF resume_from_partial, Goto
    <3>2. 2 * (write + 1) <= size /\ size <= 2 * Chunks[version]
      BY <2>1, <2>2, <2>3, <1>n DEF Prefix
    <3>3. write + 1 = Chunks[version] => size = 2 * Chunks[version]
      BY <2>2, <3>2, <1>n
    <3>4. OpenInv'
      BY <2>1, <3>1, <3>2, <3>3, <1>0 DEF OpenInv
    <3> QED  BY <2>1, <3>1, <3>4, <1>g
  <2>4. CASE ~kept
    <3>1. /\ pc' = "spawn" /\ write' = write
          /\ IF size > 2 * write THEN truncate_file(2 * write) ELSE UNCHANGED data
      BY <1>4, <2>4 DEF resume_from_partial, Goto
    <3>2. dest # file
      BY <2>1, <2>4, NotKept
    <3>3. CASE size > 2 * write
      <4>1. /\ SubSeq(data[file], 1, 2 * write) \in Seq(Block)
            /\ Len(SubSeq(data[file], 1, 2 * write)) = 2 * write
            /\ Prefix(SubSeq(data[file], 1, 2 * write), version)
        <5>1. 2 * write \in 0..Len(data[file])
          BY <2>1, <2>2, <1>n
        <5> QED  BY <2>2, <5>1, <1>n, PrefixCut
      <4>2. /\ data' \in [Files -> Seq(Block)] /\ data'[file] = SubSeq(data[file], 1, 2 * write)
            /\ \A f \in Files \ {file} : data'[f] = data[f]
        BY <2>2, <3>1, <3>3, <4>1, <1>0 DEF truncate_file, FilesType
      <4>3. DiskInv'
        BY <2>1, <3>2, <4>1, <4>2, DiskWrite
      <4>4. OpenInv'
        BY <2>1, <3>1, <4>1, <4>2, <1>0 DEF OpenInv
      <4> QED  BY <4>3, <4>4
    <3>4. CASE ~(size > 2 * write)
      <4>1. size = 2 * write /\ UNCHANGED data
        BY <2>1, <2>2, <3>1, <3>4, <1>n
      <4>2. OpenInv'
        BY <2>1, <3>1, <4>1, <1>0 DEF OpenInv
      <4> QED  BY <2>1, <4>1, <4>2, <1>g
    <3> QED  BY <3>3, <3>4
  <2> QED  BY <2>3, <2>4
<1>5. CASE Spawn
  <2>1. /\ UNCHANGED <<partial, dest, data, file, version, write>> /\ pc = "spawn"
        /\ pc' = "take" \/ (pc' = "cancel" /\ failure' # "none")
    BY <1>5 DEF Spawn, Goto, Throws, record_failure, fileVars, requestVars, planVars, windowVars
  <2> QED  BY <2>1, <1>g, <1>0 DEF OpenInv
<1>6. CASE Take
  <2>1. /\ UNCHANGED <<partial, dest, data, file, version, write>> /\ pc = "take"
        /\ \/ pc' = "take"
           \/ pc' = "write" /\ write < Chunks[version]
           \/ pc' = "cancel" /\ (write = Chunks[version] \/ failure' # "none")
    BY <1>6 DEF Take, At, Goto, Throws, record_failure, park, fileVars, requestVars, planVars
  <2> QED  BY <2>1, <1>g, <1>0 DEF OpenInv
<1>7. CASE write_all
  <2>1. /\ UNCHANGED <<version, partial, dest, file>> /\ pc = "write"
        /\ file # NoFile /\ Len(data[file]) = 2 * write /\ write < Chunks[version]
        /\ taken = write
    BY <1>7, <1>0 DEF write_all, requestVars, planVars, OpenInv, WindowInv, RangeInv
  <2>2. file \in Files /\ Prefix(data[file], version)
    BY <2>1, <1>0, OpenFile
  <2>3. dest # file
    BY <2>1, <1>n, NotPublished
  <2>4. PICK n \in 0..2 :
            /\ pwrite(write, n)
            /\ \/ n = 2 /\ write' = write + 1 /\ pc' = "take"
               \/ pc' = "cancel" /\ failure' # "none"
    BY <1>7, <2>1 DEF write_all, Goto, Throws, record_failure
  <2>5. /\ data' \in [Files -> Seq(Block)] /\ Prefix(data'[file], version)
        /\ Len(data'[file]) = 2 * write + n
        /\ \A f \in Files \ {file} : data'[f] = data[f]
    BY <2>1, <2>2, <2>4, <1>0, <1>n, WriteExtends
  <2>6. DiskInv'
    BY <2>1, <2>3, <2>5, DiskWrite
  <2>7. OpenInv'
    BY <2>1, <2>4, <2>5, <1>0, <1>n DEF OpenInv
  <2> QED  BY <2>6, <2>7
<1>8. CASE Cancel
  <2>1. /\ UNCHANGED <<partial, dest, data, file, version, failure>>
        /\ pc = "cancel" /\ pc' = "join"
    BY <1>8 DEF Cancel, Goto, fileVars, requestVars, planVars
  <2> QED  BY <2>1, <1>g, <1>0 DEF OpenInv
<1>9. CASE Join
  <2>1. CASE /\ pc = "join" /\ failure = "none" /\ Goto("publish")
             /\ UNCHANGED <<fileVars, requestVars, memory, wpc, parked>>
    <3>1. UNCHANGED <<partial, dest, data, file, version>> /\ pc' = "publish"
      BY <2>1 DEF Goto, fileVars, requestVars, memory, planVars
    <3> QED  BY <2>1, <3>1, <1>g, <1>0 DEF OpenInv
  <2> QED  BY <1>9, <1>x, <2>1 DEF Join
<1>10. CASE publish_partial
  <2>1. /\ pc = "publish" /\ file # NoFile /\ Len(data[file]) = 2 * Chunks[version]
    BY <1>10, <1>0 DEF publish_partial, OpenInv
  <2>2. partial[version] = file /\ data[file] = Blocks(version) /\ file \in Files
    BY <2>1, <1>0, WholeFile, OpenFile
  <2>3. /\ reclaim
        /\ dest' = dest \/ dest' = partial[version]
        /\ partial' = partial \/ partial' = [partial EXCEPT ![version] = NoFile]
    BY <1>10 DEF publish_partial
  <2>4. /\ partial' \in [Versions -> Inodes] /\ dest' \in Inodes
        /\ \A v \in Versions : partial'[v] # NoFile => partial'[v] = partial[v]
    BY <2>3, <1>0, <1>n DEF FilesType, Inodes
  <2>5. dest' # NoFile => \E v \in Versions : data[dest'] = Blocks(v)
    BY <2>2, <2>3, <1>n DEF DiskInv, DestInv
  <2>6. DiskInv'
    BY <2>3, <2>4, <2>5, Reclaimed
  <2>7. CASE Exit
    BY <2>6, <2>7, ExitOpen
  <2>8. CASE /\ dest' = partial[version] /\ Goto("unlink")
             /\ UNCHANGED <<requestVars, partial, memory, wpc, parked>>
    <3>1. UNCHANGED <<partial, file, version>> /\ pc' = "unlink"
      BY <2>8 DEF Goto, requestVars, memory, planVars
    <3>2. data'[file] = data[file]
      BY <2>2, <2>3, <2>8 DEF reclaim, in_use
    <3>3. OpenInv'
      BY <2>1, <3>1, <3>2, <1>0 DEF OpenInv
    <3> QED  BY <2>6, <3>3
  <2> QED  BY <1>10, <2>7, <2>8 DEF publish_partial
<1>11. CASE unlink
  <2>1. partial' = [partial EXCEPT ![version] = NoFile] /\ Exit /\ dest' = dest /\ reclaim
    BY <1>11 DEF unlink
  <2>2. /\ partial' \in [Versions -> Inodes] /\ dest' \in Inodes
        /\ \A v \in Versions : partial'[v] # NoFile => partial'[v] = partial[v]
    BY <2>1, <1>0, <1>n DEF FilesType, Inodes
  <2>3. dest' # NoFile => \E v \in Versions : data[dest'] = Blocks(v)
    BY <2>1 DEF DiskInv, DestInv
  <2> QED  BY <2>1, <2>2, <2>3, Reclaimed, ExitOpen
<1>12. ASSUME NEW w \in Workers, WorkerStep(w) PROVE Goal
  <2>1. /\ UNCHANGED <<partial, dest, data, file, size, version, write, pc>>
        /\ failure' = "none" => failure = "none"
    BY <1>12 DEF WorkerStep, Claim, Fetch, Deliver, WorkerCancels, WorkerThrows, record_failure,
                 fileVars, requestVars, planVars, windowVars, failVars
  <2> QED  BY <2>1, <1>g, <1>0 DEF OpenInv
<1>13. CASE Kill
  <2>1. Exit /\ UNCHANGED <<partial, dest, version>> /\ file' = NoFile
    BY <1>13 DEF Kill, Exit, requestVars
  <2>2. CASE UNCHANGED data
    BY <2>1, <2>2, <1>x DEF fileVars
  <2>3. CASE pc = "write" /\ \E n \in 1..2 : pwrite(taken, n)
    <3>1. /\ file # NoFile /\ Len(data[file]) = 2 * write /\ write < Chunks[version]
          /\ taken = write
      BY <2>3, <1>0 DEF OpenInv, WindowInv, RangeInv
    <3>2. file \in Files /\ Prefix(data[file], version) /\ dest # file
      BY <3>1, <1>0, <1>n, OpenFile, NotPublished
    <3>3. PICK n \in 0..2 : pwrite(write, n)
      BY <2>3, <3>1
    <3>4. /\ data' \in [Files -> Seq(Block)] /\ Prefix(data'[file], version)
          /\ \A f \in Files \ {file} : data'[f] = data[f]
      BY <3>1, <3>2, <3>3, <1>0, <1>n, WriteExtends
    <3>5. DiskInv'
      BY <2>1, <3>1, <3>2, <3>4, DiskWrite
    <3> QED  BY <2>1, <3>5, ExitOpen
  <2> QED  BY <1>13, <2>2, <2>3 DEF Kill
<1>14. CASE PublishOther
  <2>1. PICK v \in Versions, f \in Files \ in_use :
            /\ dest' = f
            /\ data' = [g \in Files |-> IF g = f THEN Blocks(v)
                                        ELSE IF g \in in_use' THEN data[g] ELSE <<>>]
    BY <1>14 DEF PublishOther
  <2>2. UNCHANGED <<version, partial, file, size, write, pc, failure>>
    BY <1>14 DEF PublishOther, requestVars, memory, planVars, windowVars, failVars, threadVars
  <2>3. /\ \A u \in Versions : partial[u] # NoFile =>
               partial[u] \in Files /\ partial[u] # f /\ partial[u] \in in_use'
        /\ file # NoFile => file \in Files /\ file # f /\ file \in in_use'
    BY <2>2, <1>0 DEF in_use, FilesType, Inodes, MemoryType
  <2>4. /\ \A u \in Versions : partial[u] # NoFile => data'[partial[u]] = data[partial[u]]
        /\ file # NoFile => data'[file] = data[file]
    BY <2>1, <2>3
  <2>5. data' \in [Files -> Seq(Block)]
    BY <2>1, <1>0, BlocksOf DEF FilesType
  <2>6. PartialInv' /\ FilesType'
    BY <2>1, <2>2, <2>4, <2>5, <1>0 DEF PartialInv, FilesType, Inodes
  <2>7. DestInv' /\ UnusedInv'
    BY <2>1 DEF DestInv, UnusedInv, in_use
  <2>8. OpenInv'
    BY <2>2, <2>4, <1>0 DEF OpenInv
  <2> QED  BY <2>6, <2>7, <2>8 DEF DiskInv
<1>15. CASE UNCHANGED vars
  <2>1. UNCHANGED <<partial, dest, data, version, file, size, write, pc, failure>>
    BY <1>15 DEF vars, requestVars, fileVars, memory, planVars, windowVars, failVars, threadVars
  <2> QED  BY <2>1, <1>g DEF OpenInv
<1> QED
  BY <1>1, <1>2, <1>3, <1>4, <1>5, <1>6, <1>7, <1>8, <1>9, <1>10, <1>11, <1>12, <1>13, <1>14,
     <1>15 DEF Next, MainStep
-----------------------------------------------------------------------------
(* The theorems.                                                           *)

PullInv == MemoryType /\ WindowInv /\ DiskInv /\ OpenInv

LEMMA PullInvInit == Init => PullInv
  BY TypedInit, WindowInit, DiskInit DEF PullInv, Typed

LEMMA PullInvStep == PullInv /\ [Next]_vars => PullInv'
<1> SUFFICES ASSUME PullInv, [Next]_vars PROVE PullInv'
  OBVIOUS
<1>1. Typed /\ WindowInv /\ DiskInv /\ OpenInv /\ MemoryType
  BY DEF PullInv, Typed, DiskInv
<1>2. MemoryType'
  <2>1. pc = "plan" => file = NoFile
    BY <1>1 DEF WindowInv, EarlyInv, Opening
  <2>2. \A w \in Workers : wpc[w] = "deliver" => task[w].chunk \in Nat
    BY <1>1 DEF WindowInv, TasksInv, MemoryType
  <2> QED  BY <1>1, <2>1, <2>2, MemoryStep
<1> QED  BY <1>1, <1>2, WindowStep, DiskStep DEF PullInv

LEMMA PullInvHolds == Spec => []PullInv
  BY PullInvInit, PullInvStep, PTL DEF Spec

\* Types, and that a file without a name that nobody has open takes no space.
THEOREM PullTypeHolds == Spec => []PullTypeOK
<1>1. PullInv => PullTypeOK
  <2> SUFFICES ASSUME PullInv PROVE PullTypeOK
    OBVIOUS
  <2>1. write \in 0..Chunks[version] /\ claim \in write..Chunks[version]
    BY Assumed DEF PullInv, MemoryType, WindowInv, RangeInv
  <2>2. taken \in {-1, write} /\ ready \subseteq write..(claim - 1)
    BY DEF PullInv, WindowInv, RangeInv
  <2>3. file = NoFile <=> pc \in {"idle", "validate", "plan"}
    BY DEF PullInv, OpenInv, Opening
  <2> QED  BY <2>1, <2>2, <2>3
              DEF PullInv, MemoryType, DiskInv, FilesType, UnusedInv, PullTypeOK, Inodes
<1> QED  BY <1>1, PullInvHolds, PTL

\* Wherever a pull is killed, the partial file it leaves is a prefix of its version, and the
\* pull that resumes starts to download exactly at the end of what is verified.
THEOREM PartialIsPrefixHolds == Spec => []PartialIsPrefix
<1>1. PullInv => PartialIsPrefix
  <2> SUFFICES ASSUME PullInv PROVE PartialIsPrefix
    OBVIOUS
  <2>1. ASSUME NEW v \in Versions, partial[v] # NoFile
        PROVE  data[partial[v]] = SubSeq(Blocks(v), 1, Len(data[partial[v]]))
    <3>1. data[partial[v]] \in Seq(Block) /\ Prefix(data[partial[v]], v)
      BY <2>1 DEF PullInv, DiskInv, FilesType, PartialInv, Inodes
    <3> QED  BY <3>1, PrefixIsSubSeq
  <2>2. pc \in {"spawn", "take"} => Len(data[file]) = 2 * write
    BY DEF PullInv, OpenInv
  <2> QED  BY <2>1, <2>2 DEF PartialIsPrefix
<1> QED  BY <1>1, PullInvHolds, PTL

LEMMA InjectionCount ==
    ASSUME NEW S, NEW T, IsFiniteSet(S), IsFiniteSet(T), NEW g \in [S -> T],
           \A x, y \in S : g[x] = g[y] => x = y
    PROVE  Cardinality(S) <= Cardinality(T)
<1>1. Cardinality(S) \in Nat /\ Cardinality(T) \in Nat
  BY FS_CardinalityType
<1>2. ~(Cardinality(T) < Cardinality(S))
  BY FS_PigeonHole
<1> QED  BY <1>1, <1>2

\* The chunks in memory are different chunks of one window.
LEMMA WindowCount ==
    ASSUME PullInv
    PROVE  Cardinality(ready) + Cardinality(busy) + (IF taken # -1 THEN 1 ELSE 0) <= Window
<1> DEFINE W == write..(claim - 1)
           T == IF taken # -1 THEN {taken} ELSE {}
           D == W \ (ready \cup T)
           f == [w \in busy |-> task[w].chunk]
<1>1. /\ write \in Nat /\ claim \in Nat /\ write <= claim /\ claim <= write + Window
      /\ Window \in Nat /\ taken \in Int
  BY Assumed DEF PullInv, MemoryType, WindowInv, RangeInv
<1>2. ready \subseteq W /\ T \subseteq W /\ ready \cap T = {}
  BY <1>1 DEF PullInv, WindowInv, RangeInv
<1>3. IsFiniteSet(W) /\ Cardinality(W) <= Window /\ Cardinality(W) \in Nat
  <2>1. /\ IsFiniteSet(W)
        /\ Cardinality(W) = IF write > claim - 1 THEN 0 ELSE (claim - 1) - write + 1
    BY <1>1, FS_Interval
  <2> QED  BY <1>1, <2>1
<1>4. IsFiniteSet(busy)
  BY FS_Subset, Assumed DEF busy
<1>5. f \in [busy -> D] /\ \A v, w \in busy : f[v] = f[w] => v = w
  <2>1. ASSUME NEW w \in busy PROVE task[w].chunk \in D
    BY <2>1 DEF PullInv, WindowInv, TasksInv, busy
  <2>2. ASSUME NEW v \in busy, NEW w \in busy, task[v].chunk = task[w].chunk PROVE v = w
    BY <2>2 DEF PullInv, WindowInv, TasksInv, busy
  <2> QED  BY <2>1, <2>2
<1> HIDE DEF W, T, D, f
<1>6. /\ IsFiniteSet(ready) /\ IsFiniteSet(T) /\ IsFiniteSet(D)
  <2>1. ready \in SUBSET W /\ T \in SUBSET W /\ D \in SUBSET W
    BY <1>2 DEF D
  <2> QED  BY <1>3, <2>1, FS_Subset
<1>7. Cardinality(busy) <= Cardinality(D) /\ Cardinality(busy) \in Nat
  <2>1. Cardinality(busy) <= Cardinality(D)
    BY <1>4, <1>5, <1>6, InjectionCount
  <2>2. Cardinality(busy) \in Nat
    BY <1>4, FS_CardinalityType
  <2> QED  BY <2>1, <2>2
<1>8. Cardinality(T) = IF taken # -1 THEN 1 ELSE 0
  BY FS_Singleton, FS_EmptySet DEF T
<1>9. Cardinality(W) = Cardinality(ready) + Cardinality(T) + Cardinality(D)
  <2>1. Cardinality(ready \cap T) = 0 /\ Cardinality((ready \cup T) \cap D) = 0
    <3>1. ready \cap T = {} /\ (ready \cup T) \cap D = {}
      BY <1>2 DEF D
    <3> QED  BY <3>1, FS_EmptySet
  <2>2. /\ IsFiniteSet(ready \cup T)
        /\ Cardinality(ready \cup T) = Cardinality(ready) + Cardinality(T) - 0
    BY <1>6, <2>1, FS_Union
  <2>3. Cardinality((ready \cup T) \cup D) = Cardinality(ready \cup T) + Cardinality(D) - 0
    BY <1>6, <2>1, <2>2, FS_Union
  <2>4. (ready \cup T) \cup D = W
    BY <1>2 DEF D
  <2>5. Cardinality(ready) \in Nat /\ Cardinality(T) \in Nat /\ Cardinality(D) \in Nat
    BY <1>6, FS_CardinalityType
  <2> QED  BY <2>2, <2>3, <2>4, <2>5
<1>10. Cardinality(ready) \in Nat /\ Cardinality(T) \in Nat /\ Cardinality(D) \in Nat
  BY <1>6, FS_CardinalityType
<1> QED  BY <1>1, <1>3, <1>7, <1>8, <1>9, <1>10

\* Memory is bounded by the window, and no chunk is in memory twice.
THEOREM WindowBoundedHolds == Spec => []WindowBounded
<1>1. PullInv => WindowBounded
  <2> SUFFICES ASSUME PullInv PROVE WindowBounded
    OBVIOUS
  <2>1. \A w \in busy : task[w].chunk \notin ready \cup {taken}
    BY DEF PullInv, WindowInv, TasksInv, busy
  <2>2. \A v, w \in busy : v # w => task[v].chunk # task[w].chunk
    BY DEF PullInv, WindowInv, TasksInv, busy
  <2> QED  BY <2>1, <2>2, WindowCount DEF WindowBounded
<1> QED  BY <1>1, PullInvHolds, PTL
-----------------------------------------------------------------------------
(* The causes of failure.                                                  *)

\* The pool has a client for every node that had a chunk all the time, and the sources of a
\* chunk are the nodes that had it when the engine asked.
PlanInv ==
    /\ pc # "idle" => \A i \in ChunkIndexes(version), n \in Nodes :
                          <<version, i, n>> \in Located => n \in pool
    /\ pc \notin Opening =>
        /\ DOMAIN sources = ChunkIndexes(version)
        /\ \A i \in ChunkIndexes(version) :
            /\ sources[i] \in Seq(Nodes)
            /\ \A n \in nodes_of(sources[i]) : <<version, i, n>> \in Located \cup LateReplicas

\* The sources that a worker has passed over do not serve the chunk.
TriesInv ==
    \A w \in Workers : wpc[w] = "fetch" =>
        LET i == task[w].chunk IN
        /\ task[w].left \in Seq(Nodes)
        /\ nodes_of(task[w].left) \subseteq nodes_of(sources[i])
        /\ \A n \in nodes_of(sources[i]) \ nodes_of(task[w].left) : <<version, i, n>> \notin Healthy

\* Nobody cancels without a cause but the main thread at its end.
CancelInv ==
    /\ pc \in Early => failure = "none" /\ ~cancelled
    /\ \A w \in Workers : wpc[w] = "cancel" => failure # "none"
    /\ cancelled => failure # "none" \/ pc \in {"join", "publish", "unlink"}

CauseInv == PlanInv /\ TriesInv /\ CancelInv /\ FailureExplained

LEMMA LeastOf ==
    ASSUME NEW S \in SUBSET Nat, S # {}
    PROVE  \E m \in S : \A n \in S : m <= n
<1> DEFINE R == OpToRel(<, Nat)
<1>1. PICK m \in S : \A n \in S : ~(<<n, m>> \in R)
  BY NatLessThanWellFounded, WFMin
<1>2. ASSUME NEW n \in S PROVE m <= n
  <2>1. ~(n < m)
    BY <1>1 DEF OpToRel
  <2> QED  BY <2>1
<1> QED  BY <1>2

\* Every finite set of numbers can be listed in order: a smallest set that could not would have
\* its least element put before the list of the others.
LEMMA Listing ==
    ASSUME NEW S \in SUBSET Nat, IsFiniteSet(S)
    PROVE  \E s \in [1..Cardinality(S) -> S] : \A i, j \in DOMAIN s : i < j => s[i] < s[j]
<1> DEFINE Listed(T) ==
        \E s \in [1..Cardinality(T) -> T] : \A i, j \in DOMAIN s : i < j => s[i] < s[j]
      Sizes == {k \in Nat : \E T \in SUBSET Nat : IsFiniteSet(T) /\ Cardinality(T) = k /\ ~Listed(T)}
<1>1. ASSUME Sizes # {} PROVE FALSE
  <2>1. PICK k \in Sizes : \A l \in Sizes : k <= l
    BY <1>1, LeastOf
  <2>2. PICK T \in SUBSET Nat : IsFiniteSet(T) /\ Cardinality(T) = k /\ ~Listed(T)
    BY <2>1
  <2>3. T # {}
    <3>1. ASSUME T = {} PROVE Listed(T)
      <4>1. Cardinality(T) = 0
        BY <3>1, FS_EmptySet
      <4> DEFINE s == [i \in 1..0 |-> 0]
      <4>2. s \in [1..0 -> T] /\ DOMAIN s = {}
        OBVIOUS
      <4> QED  BY <4>1, <4>2
    <3> QED  BY <2>2, <3>1
  <2>4. PICK m \in T : \A n \in T : m <= n
    BY <2>3, LeastOf
  <2> DEFINE U == T \ {m}
  <2>5. IsFiniteSet(U) /\ Cardinality(U) = k - 1 /\ k \in Nat /\ k # 0
    BY <2>2, <2>3, FS_RemoveElement, FS_EmptySet
  <2>6. k - 1 \in Nat /\ k - 1 \notin Sizes
    BY <2>1, <2>5
  <2>7. Listed(U)
    <3> HIDE DEF Listed
    <3> QED  BY <2>5, <2>6
  <2>8. PICK u \in [1..(k - 1) -> U] : \A i, j \in 1..(k - 1) : i < j => u[i] < u[j]
    BY <2>5, <2>7
  <2> DEFINE s == [i \in 1..k |-> IF i = 1 THEN m ELSE u[i - 1]]
  <2>9. \A i \in 1..k : i # 1 => i - 1 \in 1..(k - 1)
    BY <2>5
  <2>10. s \in [1..k -> T]
    BY <2>8, <2>9
  <2>11. ASSUME NEW i \in 1..k, NEW j \in 1..k, i < j PROVE s[i] < s[j]
    <3>1. j # 1 /\ j - 1 \in 1..(k - 1) /\ s[j] = u[j - 1]
      BY <2>5, <2>9, <2>11
    <3>2. CASE i = 1
      <4>1. s[i] = m /\ u[j - 1] \in U
        BY <2>8, <3>1, <3>2
      <4>2. m <= u[j - 1] /\ m # u[j - 1] /\ m \in Nat /\ u[j - 1] \in Nat
        BY <2>2, <2>4, <4>1
      <4> HIDE DEF s
      <4> QED  BY <3>1, <4>1, <4>2
    <3>3. CASE i # 1
      <4>1. i - 1 \in 1..(k - 1) /\ s[i] = u[i - 1] /\ i - 1 < j - 1
        BY <2>5, <2>9, <2>11, <3>3
      <4> HIDE DEF s
      <4> QED  BY <2>8, <3>1, <4>1
    <3> QED  BY <3>2, <3>3
  <2>12. Listed(T)
    <3> HIDE DEF s
    <3> QED  BY <2>2, <2>10, <2>11
  <2> QED  BY <2>2, <2>12
<1>2. Cardinality(S) \in Nat
  BY FS_CardinalityType
<1>3. Listed(S)
  <2> HIDE DEF Listed
  <2> QED  BY <1>1, <1>2
<1> QED  BY <1>3

\* Nodes are listed once each.
LEMMA ByNodeId ==
    ASSUME NEW S \in SUBSET Nodes
    PROVE  by_node_id(S) \in Seq(Nodes) /\ nodes_of(by_node_id(S)) = S
<1> DEFINE s == by_node_id(S)
           n == Cardinality(S)
<1>1. IsFiniteSet(S) /\ S \in SUBSET Nat /\ n \in Nat
  BY PullAssumption, FS_Subset, FS_CardinalityType
<1>2. s \in [1..n -> S] /\ \A i, j \in DOMAIN s : i < j => s[i] < s[j]
  BY <1>1, Listing DEF by_node_id
<1> HIDE DEF s, n
<1>3. s \in Seq(Nodes) /\ DOMAIN s = 1..n
  <2>1. s \in [1..n -> Nodes]
    BY <1>2
  <2> QED  BY <1>1, <2>1, SeqFrom
<1>4. ASSUME NEW x \in S, \A i \in 1..n : s[i] # x PROVE FALSE
  <2> DEFINE T == S \ {x}
  <2>1. IsFiniteSet(T) /\ Cardinality(T) = n - 1
    BY <1>1, FS_RemoveElement DEF n
  <2>2. s \in [1..n -> T]
    BY <1>2, <1>4
  <2>3. IsFiniteSet(1..n) /\ Cardinality(1..n) = n
    BY <1>1, FS_Interval
  <2> HIDE DEF T
  <2>4. PICK i \in 1..n, j \in 1..n : i # j /\ s[i] = s[j]
    <3>1. Cardinality(T) < Cardinality(1..n)
      BY <1>1, <2>1, <2>3
    <3> QED  BY <2>1, <2>2, <2>3, <3>1, FS_PigeonHole
  <2>5. s[i] \in Nat /\ (i < j \/ j < i)
    <3>1. s[i] \in S /\ i \in Int /\ j \in Int /\ i # j
      BY <1>1, <1>2, <2>4
    <3>2. i < j \/ j < i
      BY <3>1
    <3> QED  BY <1>1, <3>1, <3>2
  <2>6. s[i] < s[j] \/ s[j] < s[i]
    BY <1>2, <1>3, <2>4, <2>5
  <2> QED  BY <2>4, <2>5, <2>6
<1>5. nodes_of(s) \subseteq S
  BY <1>2, <1>3 DEF nodes_of
<1>6. S \subseteq nodes_of(s)
  BY <1>3, <1>4 DEF nodes_of
<1> QED  BY <1>3, <1>5, <1>6 DEF s

LEMMA PlanOf ==
    ASSUME NEW v \in Versions, NEW plan \in Plans(v)
    PROVE  /\ DOMAIN plan = ChunkIndexes(v)
           /\ \A i \in ChunkIndexes(v) :
                /\ plan[i] \in Seq(Nodes)
                /\ \A n \in Nodes : <<v, i, n>> \in Located => n \in nodes_of(plan[i])
                /\ \A n \in nodes_of(plan[i]) : <<v, i, n>> \in Located \cup LateReplicas
<1>1. PICK L \in SUBSET LateReplicas :
        plan = [i \in ChunkIndexes(v) |-> by_node_id({n \in Nodes : <<v, i, n>> \in Located \cup L})]
  BY DEF Plans
<1>2. ASSUME NEW i \in ChunkIndexes(v)
      PROVE  /\ plan[i] \in Seq(Nodes)
             /\ nodes_of(plan[i]) = {n \in Nodes : <<v, i, n>> \in Located \cup L}
  BY <1>1, ByNodeId
<1> QED  BY <1>1, <1>2

\* What the head of a list leaves.
LEMMA TailNodes ==
    ASSUME NEW s \in Seq(Nodes), s # <<>>
    PROVE  /\ Head(s) \in nodes_of(s) /\ Tail(s) \in Seq(Nodes)
           /\ nodes_of(Tail(s)) \subseteq nodes_of(s)
           /\ nodes_of(s) \ nodes_of(Tail(s)) \subseteq {Head(s)}
<1>1. 1 \in DOMAIN s /\ Head(s) = s[1] /\ Len(s) \in Nat /\ Len(s) >= 1
  OBVIOUS
<1>2. Tail(s) \in Seq(Nodes) /\ Len(Tail(s)) = Len(s) - 1
  OBVIOUS
<1>3. \A i \in 1..(Len(s) - 1) : Tail(s)[i] = s[i + 1]
  OBVIOUS
<1>4. nodes_of(Tail(s)) \subseteq nodes_of(s)
  BY <1>1, <1>2, <1>3 DEF nodes_of
<1>5. ASSUME NEW i \in 1..Len(s), i # 1 PROVE s[i] \in nodes_of(Tail(s))
  <2>1. i - 1 \in 1..(Len(s) - 1) /\ (i - 1) + 1 = i
    BY <1>1, <1>5
  <2>2. Tail(s)[i - 1] = s[i]
    BY <1>3, <2>1
  <2>3. i - 1 \in DOMAIN Tail(s)
    BY <1>1, <1>2, <2>1
  <2> QED  BY <2>2, <2>3 DEF nodes_of
<1> QED  BY <1>1, <1>2, <1>4, <1>5 DEF nodes_of

LEMMA CauseInit == Init => CauseInv
  BY DEF Init, CauseInv, PlanInv, TriesInv, CancelInv, FailureExplained, Opening, Early

\* The next process starts from nothing.
LEMMA ExitCause == Exit => CauseInv'
<1> SUFFICES ASSUME Exit PROVE CauseInv'
  OBVIOUS
<1>1. pc' = "idle" /\ failure' = "none" /\ cancelled' = FALSE /\ \A w \in Workers : wpc'[w] = "unborn"
  BY DEF Exit
<1> QED  BY <1>1 DEF CauseInv, PlanInv, TriesInv, CancelInv, FailureExplained, Opening, Early

\* A step that leaves the plan and the tasks alone.
LEMMA PlanKept ==
    ASSUME CauseInv, UNCHANGED <<version, pool, sources>>, pc # "idle" \/ pc' = "idle",
           pc \notin Opening \/ pc' \in Opening
    PROVE  PlanInv'
  BY DEF CauseInv, PlanInv

LEMMA TriesKept ==
    ASSUME CauseInv, UNCHANGED <<version, sources, task>>,
           \A w \in Workers : wpc'[w] = "fetch" => wpc[w] = "fetch"
    PROVE  TriesInv'
  BY DEF CauseInv, TriesInv

LEMMA ExplanationKept ==
    ASSUME CauseInv, UNCHANGED <<version, pool, sources>>,
           failure' \in {failure, "none", "thread", "disk"}
    PROVE  FailureExplained'
<1>1. FailureExplained
  BY DEF CauseInv
<1>2. CASE failure' = failure
  BY <1>1, <1>2 DEF FailureExplained
<1>3. CASE failure' \in {"none", "thread", "disk"}
  BY <1>3 DEF FailureExplained
<1> QED  BY <1>2, <1>3

\* What a worker has to do is a chunk of the plan.
LEMMA ClaimedChunk ==
    ASSUME MemoryType, WindowInv, NEW w \in Workers, wpc[w] = "fetch"
    PROVE  task[w].chunk \in ChunkIndexes(version) /\ pc \notin Early
<1>1. /\ write \in Nat /\ claim \in Nat /\ claim <= Chunks[version] /\ Chunks[version] \in Nat
      /\ task[w].chunk \in write..(claim - 1)
  BY Assumed DEF MemoryType, WindowInv, TasksInv, RangeInv
<1> QED  BY <1>1 DEF ChunkIndexes, WindowInv, EarlyInv

LEMMA MainCause ==
    ASSUME MemoryType, WindowInv, CauseInv, MakePool \/ MainStep
    PROVE  CauseInv'
<1>0. /\ Opening = {"idle", "validate", "plan"}
      /\ Early = {"idle", "validate", "plan", "resume", "spawn"}
      /\ CancelInv /\ version \in Versions /\ DOMAIN wpc = Workers
  BY DEF Opening, Early, CauseInv, MemoryType
<1>e. ASSUME Exit PROVE CauseInv'
  BY <1>e, ExitCause
<1>u. pc \in Early => failure = "none" /\ ~cancelled /\ \A w \in Workers : wpc[w] = "unborn"
  BY DEF CauseInv, CancelInv, WindowInv, EarlyInv
\* A step of the main thread that leaves the failure alone.
<1>g. ASSUME UNCHANGED <<version, pool, sources, task, failure, wpc>>, pc # "idle",
             pc \notin Opening \/ pc' \in Opening, CancelInv'
      PROVE  CauseInv'
  BY <1>g, PlanKept, TriesKept, ExplanationKept DEF CauseInv
<1>1. CASE MakePool
  <2>1. /\ version' \in Versions /\ pc = "idle" /\ pc' = "validate"
        /\ UNCHANGED <<failure, cancelled, wpc>>
        /\ \E plan \in Plans(version') : pool' = UNION {nodes_of(plan[i]) : i \in DOMAIN plan}
    BY <1>1 DEF MakePool, Goto, failVars
  <2>2. PICK plan \in Plans(version') : pool' = UNION {nodes_of(plan[i]) : i \in DOMAIN plan}
    BY <2>1
  <2>3. \A i \in ChunkIndexes(version'), n \in Nodes : <<version', i, n>> \in Located => n \in pool'
    BY <2>1, <2>2, PlanOf
  <2>4. PlanInv'
    BY <1>0, <2>1, <2>3 DEF PlanInv
  <2>5. TriesInv' /\ CancelInv' /\ FailureExplained'
    BY <1>0, <1>u, <2>1 DEF TriesInv, CancelInv, FailureExplained
  <2> QED  BY <2>4, <2>5 DEF CauseInv
<1>2. CASE validate_destination
  <2>1. CASE Goto("plan") /\ UNCHANGED <<requestVars, memory, wpc, parked>>
    <3>1. /\ pc = "validate" /\ pc' = "plan"
          /\ UNCHANGED <<version, pool, sources, task, failure, cancelled, wpc>>
      BY <1>2, <2>1 DEF validate_destination, Goto, requestVars, memory, planVars, windowVars,
                        failVars
    <3>2. CancelInv'
      BY <1>0, <3>1 DEF CancelInv
    <3> QED  BY <1>0, <1>g, <3>1, <3>2
  <2> QED  BY <1>2, <1>e, <2>1 DEF validate_destination
<1>3. CASE open_partial_file
  <2>1. ASSUME NEW plan \in Plans(version), sources' = plan, Goto("resume"),
               UNCHANGED <<requestVars, pool, windowVars, failVars, wpc>>, pc = "plan"
        PROVE  CauseInv'
    <3>1. /\ UNCHANGED <<version, pool, failure, cancelled, wpc>> /\ pc' = "resume"
      BY <2>1 DEF Goto, requestVars, failVars
    <3>2. /\ DOMAIN sources' = ChunkIndexes(version)
          /\ \A i \in ChunkIndexes(version) :
                /\ sources'[i] \in Seq(Nodes)
                /\ \A n \in nodes_of(sources'[i]) : <<version, i, n>> \in Located \cup LateReplicas
      BY <1>0, <2>1, PlanOf
    <3>3. \A i \in ChunkIndexes(version), n \in Nodes : <<version, i, n>> \in Located => n \in pool
      BY <2>1 DEF CauseInv, PlanInv
    <3>4. PlanInv'
      BY <3>1, <3>2, <3>3 DEF PlanInv
    <3>5. TriesInv' /\ CancelInv' /\ FailureExplained'
      BY <1>0, <1>u, <2>1, <3>1 DEF TriesInv, CancelInv, FailureExplained
    <3> QED  BY <3>4, <3>5 DEF CauseInv
  <2> QED  BY <1>3, <1>e, <2>1 DEF open_partial_file
<1>4. CASE resume_from_partial
  <2>1. /\ pc = "resume" /\ pc' \in {"publish", "resume", "spawn"}
        /\ UNCHANGED <<version, pool, sources, task, failure, cancelled, wpc>>
    BY <1>4 DEF resume_from_partial, Goto, requestVars, planVars, failVars
  <2>2. CancelInv'
    BY <1>0, <1>u, <2>1 DEF CancelInv
  <2> QED  BY <1>0, <1>g, <2>1, <2>2
<1>5. CASE Spawn
  <2>1. /\ pc = "spawn" /\ pc' \in {"take", "cancel"} /\ cancelled' = cancelled
        /\ UNCHANGED <<version, pool, sources, task>>
        /\ failure' \in {failure, "thread"} /\ (pc' = "take" => failure' = failure)
        /\ \A w \in Workers : wpc'[w] \in {"claim", "unborn"}
    BY <1>5 DEF Spawn, Goto, Throws, record_failure, requestVars, planVars, windowVars, failVars
  <2>2. CancelInv'
    BY <1>0, <1>u, <2>1 DEF CancelInv
  <2>3. PlanInv' /\ TriesInv' /\ FailureExplained'
    BY <1>0, <2>1, PlanKept, TriesKept, ExplanationKept
  <2> QED  BY <2>2, <2>3 DEF CauseInv
<1>6. CASE Take
  <2>1. /\ pc = "take" /\ pc' \in {"take", "write", "cancel"} /\ cancelled' = cancelled
        /\ UNCHANGED <<version, pool, sources, task, wpc>>
    BY <1>6 DEF Take, At, Goto, Throws, park, requestVars, planVars, failVars
  <2>2. cancelled => failure # "none"
    BY <1>0, <2>1 DEF CancelInv
  <2>3. failure' = failure
    BY <1>6, <2>2 DEF Take, Throws, record_failure, failVars
  <2>4. CancelInv'
    BY <1>0, <2>1, <2>2, <2>3 DEF CancelInv
  <2> QED  BY <1>0, <1>g, <2>1, <2>3, <2>4
<1>7. CASE write_all
  <2>1. /\ pc = "write" /\ pc' \in {"take", "cancel"} /\ cancelled' = cancelled
        /\ UNCHANGED <<version, pool, sources, task, wpc>>
        /\ failure' \in {failure, "disk"} /\ (failure # "none" => failure' = failure)
    BY <1>7 DEF write_all, Goto, Throws, record_failure, requestVars, planVars, failVars
  <2>2. CancelInv'
    BY <1>0, <2>1 DEF CancelInv
  <2>3. PlanInv' /\ TriesInv' /\ FailureExplained'
    BY <1>0, <2>1, PlanKept, TriesKept, ExplanationKept
  <2> QED  BY <2>2, <2>3 DEF CauseInv
<1>8. CASE Cancel
  <2>1. /\ pc = "cancel" /\ pc' = "join"
        /\ UNCHANGED <<version, pool, sources, task, failure, wpc>>
    BY <1>8 DEF Cancel, Goto, requestVars, planVars, windowVars
  <2>2. CancelInv'
    BY <1>0, <2>1 DEF CancelInv
  <2> QED  BY <1>0, <1>g, <2>1, <2>2
<1>9. CASE Join
  <2>1. CASE Goto("publish") /\ UNCHANGED <<requestVars, memory, wpc, parked>>
    <3>1. /\ pc = "join" /\ pc' = "publish"
          /\ UNCHANGED <<version, pool, sources, task, failure, cancelled, wpc>>
      BY <1>9, <2>1 DEF Join, Goto, requestVars, memory, planVars, windowVars, failVars
    <3>2. CancelInv'
      BY <1>0, <3>1 DEF CancelInv
    <3> QED  BY <1>0, <1>g, <3>1, <3>2
  <2> QED  BY <1>9, <1>e, <2>1 DEF Join
<1>10. CASE publish_partial
  <2>1. CASE Goto("unlink") /\ UNCHANGED <<requestVars, partial, memory, wpc, parked>>
    <3>1. /\ pc = "publish" /\ pc' = "unlink"
          /\ UNCHANGED <<version, pool, sources, task, failure, cancelled, wpc>>
      BY <1>10, <2>1 DEF publish_partial, Goto, requestVars, memory, planVars, windowVars, failVars
    <3>2. CancelInv'
      BY <1>0, <3>1 DEF CancelInv
    <3> QED  BY <1>0, <1>g, <3>1, <3>2
  <2> QED  BY <1>10, <1>e, <2>1 DEF publish_partial
<1>11. CASE unlink
  BY <1>11, <1>e DEF unlink
<1> QED
  BY <1>1, <1>2, <1>3, <1>4, <1>5, <1>6, <1>7, <1>8, <1>9, <1>10, <1>11 DEF MainStep

LEMMA WorkerCause ==
    ASSUME MemoryType, WindowInv, CauseInv, NEW w \in Workers, WorkerStep(w)
    PROVE  CauseInv'
<1>0. /\ CancelInv /\ TriesInv /\ PlanInv /\ DOMAIN wpc = Workers /\ DOMAIN task = Workers
      /\ wpc \in [Workers -> WorkerPlaces]
  BY DEF CauseInv, MemoryType
<1>1. /\ UNCHANGED <<version, pool, sources, pc>> /\ wpc[w] # "unborn"
  BY DEF WorkerStep, Claim, Fetch, Deliver, WorkerCancels, WorkerAt, requestVars, planVars
<1>2. pc \notin Early /\ pc \notin Opening
  BY <1>1 DEF WindowInv, EarlyInv, Early
<1>3. PlanInv'
  BY <1>1, <1>2, PlanKept DEF Opening
<1>4. CASE Claim(w)
  <2>1. UNCHANGED <<failure, cancelled>>
    BY <1>4 DEF Claim, failVars
  <2>2. FailureExplained'
    BY <1>1, <2>1, ExplanationKept
  <2>3. CASE WorkerGoto(w, "gone") /\ UNCHANGED task
    BY <1>0, <1>1, <1>3, <2>1, <2>2, <2>3, TriesKept DEF CauseInv, CancelInv, WorkerGoto
  <2>4. CASE UNCHANGED <<task, wpc>>
    BY <1>0, <1>1, <1>3, <2>1, <2>2, <2>4, TriesKept DEF CauseInv, CancelInv
  <2>5. CASE /\ claim < Chunks[version]
             /\ task' = [task EXCEPT ![w] = [chunk |-> claim, left |-> sources[claim]]]
             /\ WorkerGoto(w, "fetch")
    <3>1. claim \in ChunkIndexes(version)
      BY <2>5, Assumed DEF ChunkIndexes, MemoryType
    <3>2. sources[claim] \in Seq(Nodes)
      BY <1>0, <1>2, <3>1 DEF PlanInv
    <3>3. TriesInv'
      BY <1>0, <1>1, <2>5, <3>2 DEF TriesInv, WorkerGoto
    <3>4. CancelInv'
      BY <1>0, <1>1, <2>1, <2>5 DEF CancelInv, WorkerGoto
    <3> QED  BY <1>3, <2>2, <3>3, <3>4 DEF CauseInv
  <2>6. claim < Chunks[version] \/ claim >= Chunks[version]
    BY Assumed DEF MemoryType
  <2> QED  BY <1>4, <2>3, <2>4, <2>5, <2>6 DEF Claim
<1>5. CASE Fetch(w)
  <2> DEFINE t == task[w]
             i == t.chunk
  <2>1. /\ cancelled' = cancelled /\ wpc[w] = "fetch"
        /\ \A v \in Workers \ {w} : wpc'[v] = wpc[v] /\ task'[v] = task[v]
    BY <1>0, <1>5 DEF Fetch, WorkerGoto, WorkerThrows
  <2>2. /\ i \in ChunkIndexes(version) /\ i \in DOMAIN sources /\ sources[i] \in Seq(Nodes)
        /\ \A n \in nodes_of(sources[i]) : <<version, i, n>> \in Located \cup LateReplicas
    BY <1>0, <1>2, <2>1, ClaimedChunk DEF PlanInv
  <2>3. /\ t.left \in Seq(Nodes) /\ nodes_of(t.left) \subseteq nodes_of(sources[i])
        /\ \A n \in nodes_of(sources[i]) \ nodes_of(t.left) : <<version, i, n>> \notin Healthy
    BY <1>0, <2>1 DEF TriesInv
  \* The worker has failed: the failure that counts is this one or an earlier one.
  <2>4. ASSUME NEW what, what # "none", WorkerThrows(w, what), failure = "none" => FailureExplained'
        PROVE  CauseInv'
    <3>1. /\ failure' # "none" /\ (failure # "none" => failure' = failure)
      BY <2>4 DEF WorkerThrows, record_failure
    <3>2. wpc'[w] = "cancel" /\ UNCHANGED task
      BY <1>0, <2>4 DEF WorkerThrows, WorkerGoto
    <3>3. FailureExplained'
      BY <1>1, <2>4, <3>1, ExplanationKept
    <3>4. TriesInv'
      BY <1>1, <2>1, <3>2, TriesKept
    <3>5. CancelInv'
      BY <1>0, <1>1, <1>2, <2>1, <3>1 DEF CancelInv
    <3> QED  BY <1>3, <3>3, <3>4, <3>5 DEF CauseInv
  <2>5. CASE t.left = <<>> /\ WorkerThrows(w, "missing")
    <3>1. nodes_of(t.left) = {}
      BY <2>5 DEF nodes_of
    <3>2. ~\E n \in nodes_of(sources[i]) : <<version, i, n>> \in Healthy
      BY <2>3, <3>1
    <3>3. failure = "none" => failure' = "missing"
      BY <2>5 DEF WorkerThrows, record_failure
    <3>4. failure = "none" => FailureExplained'
      BY <1>1, <2>2, <3>2, <3>3 DEF FailureExplained
    <3> QED  BY <2>4, <2>5, <3>4
  <2>6. CASE t.left # <<>> /\ Head(t.left) \notin pool /\ WorkerThrows(w, "no_client")
    <3> DEFINE n == Head(t.left)
    <3>1. n \in nodes_of(sources[i]) /\ n \in Nodes
      BY <2>3, <2>6, TailNodes
    <3>2. <<version, i, n>> \notin Located
      BY <1>0, <1>2, <2>2, <2>6, <3>1 DEF PlanInv, Opening
    <3>3. <<version, i, n>> \in LateReplicas
      BY <2>2, <3>1, <3>2
    <3>4. n \in nodes_of(sources[i]) \ pool
      BY <2>6, <3>1
    <3>5. failure = "none" => failure' = "no_client"
      BY <2>6 DEF WorkerThrows, record_failure
    <3> HIDE DEF n
    <3>6. failure = "none" => FailureExplained'
      BY <1>1, <2>2, <3>3, <3>4, <3>5 DEF FailureExplained
    <3> QED  BY <2>4, <2>6, <3>6
  <2>7. ASSUME UNCHANGED failure, wpc'[w] # "cancel", TriesInv' PROVE CauseInv'
    <3>1. CancelInv'
      BY <1>0, <1>1, <2>1, <2>7 DEF CancelInv
    <3>2. FailureExplained'
      BY <1>1, <2>7, ExplanationKept
    <3> QED  BY <1>3, <2>7, <3>1, <3>2 DEF CauseInv
  <2>8. CASE UNCHANGED <<failure, task>> /\ WorkerGoto(w, "deliver")
    <3>1. wpc'[w] = "deliver"
      BY <1>0, <2>8 DEF WorkerGoto
    <3>2. TriesInv'
      BY <1>1, <2>1, <2>8, <3>1, TriesKept
    <3> QED  BY <2>7, <2>8, <3>1, <3>2
  <2>9. CASE /\ t.left # <<>> /\ <<version, t.chunk, Head(t.left)>> \notin Healthy
             /\ task' = [task EXCEPT ![w].left = other_sources(t)] /\ UNCHANGED <<wpc, failure>>
    <3>1. /\ Tail(t.left) \in Seq(Nodes) /\ nodes_of(Tail(t.left)) \subseteq nodes_of(t.left)
          /\ nodes_of(t.left) \ nodes_of(Tail(t.left)) \subseteq {Head(t.left)}
      BY <2>3, <2>9, TailNodes
    <3>2. task'[w].chunk = i /\ task'[w].left = Tail(t.left)
      <4>1. TaskType(t)
        BY DEF MemoryType
      <4> QED  BY <1>0, <2>9, <4>1 DEF other_sources, TaskType
    <3>3. \A n \in nodes_of(sources[i]) \ nodes_of(Tail(t.left)) : <<version, i, n>> \notin Healthy
      BY <2>3, <2>9, <3>1
    <3>4. TriesInv'
      BY <1>0, <1>1, <2>1, <2>3, <3>1, <3>2, <3>3 DEF TriesInv
    <3> QED  BY <2>1, <2>7, <2>9, <3>4
  <2> QED  BY <1>5, <2>5, <2>6, <2>8, <2>9 DEF Fetch
<1>6. CASE Deliver(w) \/ WorkerCancels(w)
  <2>1. /\ failure' = failure /\ \A v \in Workers \ {w} : wpc'[v] = wpc[v] /\ task'[v] = task[v]
        /\ wpc'[w] \in {"claim", "gone"}
        /\ (cancelled' => cancelled \/ wpc[w] = "cancel")
    BY <1>0, <1>6 DEF Deliver, WorkerCancels, WorkerGoto, failVars, windowVars, notify_all,
                      cancel_download
  <2>2. FailureExplained'
    BY <1>1, <2>1, ExplanationKept
  <2>3. TriesInv'
    BY <1>0, <1>1, <2>1 DEF TriesInv
  <2>4. CancelInv'
    BY <1>0, <1>1, <1>2, <2>1 DEF CancelInv
  <2> QED  BY <1>3, <2>2, <2>3, <2>4 DEF CauseInv
<1> QED  BY <1>4, <1>5, <1>6 DEF WorkerStep

LEMMA CauseStep == PullInv /\ CauseInv /\ [Next]_vars => CauseInv'
<1> SUFFICES ASSUME PullInv, CauseInv, [Next]_vars PROVE CauseInv'
  OBVIOUS
<1>0. MemoryType /\ WindowInv
  BY DEF PullInv
<1>1. CASE MakePool \/ MainStep
  BY <1>0, <1>1, MainCause
<1>2. ASSUME NEW w \in Workers, WorkerStep(w) PROVE CauseInv'
  BY <1>0, <1>2, WorkerCause
<1>3. CASE Kill
  BY <1>3, ExitCause DEF Kill
<1>4. CASE PublishOther \/ UNCHANGED vars
  <2>1. UNCHANGED <<version, pool, sources, task, failure, cancelled, pc, wpc>>
    BY <1>4 DEF PublishOther, vars, requestVars, memory, planVars, windowVars, failVars, threadVars
  <2> QED  BY <2>1 DEF CauseInv, PlanInv, TriesInv, CancelInv, FailureExplained
<1> QED  BY <1>1, <1>2, <1>3, <1>4 DEF Next

\* A pull that reports a missing chunk has tried every source of its plan, one without a client
\* had a source that came between the two plans, and nobody reports the cancelling of others.
THEOREM FailureExplainedHolds == Spec => []FailureExplained
<1>1. CauseInv => FailureExplained
  BY DEF CauseInv
<1> QED  BY <1>1, CauseInit, CauseStep, PullInvHolds, PTL DEF Spec
-----------------------------------------------------------------------------
(* The promise of Destination.                                             *)

Published == <<contents, version, overwrite>>

\* The destination and its bytes.
LEMMA SameContents ==
    ASSUME dest' = dest, dest # NoFile => data'[dest] = data[dest]
    PROVE  contents' = contents
  BY DEF contents

LEMMA ContentsOf ==
    ASSUME NEW v \in Versions, dest # NoFile, data[dest] = Blocks(v)
    PROVE  contents = v
  BY BlocksInjective DEF contents

LEMMA ContentsOfNext ==
    ASSUME NEW v \in Versions, dest' # NoFile, data'[dest'] = Blocks(v)
    PROVE  contents' = v
<1>1. \A w \in Versions : data'[dest'] = Blocks(w) => w = v
  BY BlocksInjective
<1> QED  BY <1>1 DEF contents

\* Only a publication changes the bytes at the destination.
LEMMA DestinationKept ==
    ASSUME PullInv, [Next]_vars, ~publish_partial, ~PublishOther
    PROVE  contents' = contents
<1>0. /\ DiskInv /\ OpenInv /\ MemoryType /\ FilesType /\ dest \in Inodes
      /\ write < Chunks[version] => 2 * write # 2 * Chunks[version]
  BY Assumed DEF PullInv, DiskInv, FilesType, MemoryType
<1>s. ASSUME UNCHANGED <<dest, data>> PROVE contents' = contents
  BY <1>s, SameContents
\* The open file is written, and it is not whole.
<1>w. ASSUME file # NoFile, dest # file, dest' = dest,
             \A f \in Files \ {file} : data'[f] = data[f]
      PROVE  contents' = contents
  BY <1>w, <1>0, SameContents DEF Inodes
<1>p. ASSUME pc = "write", NEW n, pwrite(taken, n), dest' = dest
      PROVE  contents' = contents
  <2>1. file # NoFile /\ dest # file
    BY <1>p, <1>0, NotPublished DEF OpenInv, Opening
  <2>2. \A f \in Files \ {file} : data'[f] = data[f]
    BY <1>p, <1>0 DEF pwrite, FilesType
  <2> QED  BY <1>p, <2>1, <2>2, <1>w
<1>1. CASE MakePool \/ validate_destination \/ Spawn \/ Take \/ Cancel \/ Join
  BY <1>1, <1>s DEF MakePool, validate_destination, Spawn, Take, Cancel, Join, fileVars
<1>2. CASE open_partial_file
  <2>1. pc = "plan" /\ file = NoFile
    BY <1>2 DEF open_partial_file, PullInv, WindowInv, EarlyInv, Opening
  <2>2. Kept = data[Opened] /\ Opened \in Files
    BY <2>1, <1>0, OpenKeeps, OpenedFile DEF MemoryType
  <2>3. UNCHANGED <<dest, data>>
    BY <1>2, <2>2, <1>0, OpenAs DEF FilesType, fileVars
  <2> QED  BY <2>3, <1>s
<1>3. CASE resume_from_partial
  <2>1. pc = "resume" /\ dest' = dest /\ write < Chunks[version] /\ file # NoFile
    BY <1>3 DEF resume_from_partial, PullInv, WindowInv, EarlyInv, OpenInv, Opening
  <2>2. CASE UNCHANGED data
    BY <2>1, <2>2, <1>s
  <2>3. CASE ~(size >= 2 * write + 2 /\ chunk_bytes_match_id(write)) /\ truncate_file(2 * write)
    <3>1. dest # file
      BY <2>1, <2>3, <1>0, NotKept
    <3>2. \A f \in Files \ {file} : data'[f] = data[f]
      BY <2>3, <1>0 DEF truncate_file, FilesType
    <3> QED  BY <2>1, <3>1, <3>2, <1>w
  <2> QED  BY <1>3, <2>2, <2>3 DEF resume_from_partial
<1>4. CASE write_all
  BY <1>4, <1>p DEF write_all
<1>5. CASE unlink
  <2>1. dest' = dest /\ reclaim
    BY <1>5 DEF unlink
  <2>2. dest # NoFile => dest \in Files /\ data'[dest] = data[dest]
    BY <2>1, <1>0 DEF reclaim, in_use, Inodes
  <2> QED  BY <2>1, <2>2, SameContents
<1>6. ASSUME NEW w \in Workers, WorkerStep(w) PROVE contents' = contents
  BY <1>6, <1>s DEF WorkerStep, Claim, Fetch, Deliver, WorkerCancels, fileVars
<1>7. CASE Kill
  BY <1>7, <1>s, <1>p DEF Kill
<1>8. CASE UNCHANGED vars
  BY <1>8, <1>s DEF vars, fileVars
<1> QED
  BY <1>1, <1>2, <1>3, <1>4, <1>5, <1>6, <1>7, <1>8 DEF Next, MainStep

LEMMA RequestKept ==
    ASSUME [Next]_vars, ~MakePool
    PROVE  UNCHANGED <<version, overwrite>>
<1>1. Exit => UNCHANGED <<version, overwrite>>
  BY DEF Exit, requestVars
<1>2. CASE MainStep
  BY <1>1, <1>2 DEF MainStep, validate_destination, open_partial_file, resume_from_partial, Spawn,
                    Take, write_all, Cancel, Join, publish_partial, unlink, requestVars
<1>3. ASSUME NEW w \in Workers, WorkerStep(w) PROVE UNCHANGED <<version, overwrite>>
  BY <1>3 DEF WorkerStep, Claim, Fetch, Deliver, WorkerCancels, requestVars
<1>4. CASE Kill \/ PublishOther \/ UNCHANGED vars
  BY <1>1, <1>4 DEF Kill, PublishOther, vars, requestVars
<1> QED  BY <1>2, <1>3, <1>4 DEF Next

LEMMA DestinationStep ==
    ASSUME PullInv, PullInv', [Next]_vars
    PROVE  [DestinationOf!Next]_Published
<1>0. DiskInv /\ OpenInv /\ MemoryType /\ FilesType /\ PartialInv /\ version \in Versions
  BY DEF PullInv, DiskInv, MemoryType
<1>1. CASE MakePool
  <2>1. ~publish_partial /\ ~PublishOther
    BY <1>1 DEF MakePool, publish_partial, PublishOther, Goto, threadVars
  <2>2. contents' = contents
    BY <2>1, DestinationKept
  <2>3. version' \in Versions /\ overwrite' \in BOOLEAN
    BY <1>1 DEF MakePool
  <2> QED  BY <2>2, <2>3 DEF DestinationOf!Next, DestinationOf!Start
<1>2. CASE publish_partial
  <2>1. file # NoFile /\ Len(data[file]) = 2 * Chunks[version] /\ reclaim
    BY <1>2, <1>0 DEF publish_partial, OpenInv, Opening
  <2>2. partial[version] = file /\ data[file] = Blocks(version) /\ file \in Files
    BY <2>1, <1>0, WholeFile, OpenFile
  <2>3. UNCHANGED <<version, overwrite>>
    BY <1>2 DEF publish_partial, Exit, requestVars
  <2>4. CASE dest' = dest
    <3>1. dest # NoFile => dest \in Files /\ data'[dest] = data[dest]
      BY <2>1, <2>4, <1>0 DEF FilesType, Inodes, reclaim, in_use
    <3> QED  BY <2>3, <2>4, <3>1, SameContents DEF Published
  <2>5. CASE dest' = file /\ (overwrite \/ dest = NoFile)
    <3>1. data'[file] = Blocks(version)
      BY <2>1, <2>2, <2>5 DEF reclaim, in_use
    <3>2. contents' = version
      BY <2>1, <2>5, <3>1, <1>0, ContentsOfNext
    <3>3. dest = NoFile => contents = "nothing"
      BY DEF contents
    <3> QED  BY <2>3, <2>5, <3>2, <3>3 DEF DestinationOf!Next, DestinationOf!Publish
  <2> QED  BY <1>2, <2>2, <2>4, <2>5 DEF publish_partial
<1>3. CASE PublishOther
  <2>1. PICK v \in Versions \ {version}, f \in Files \ in_use :
            dest' = f /\ data' = [g \in Files |-> IF g = f THEN Blocks(v)
                                                  ELSE IF g \in in_use' THEN data[g] ELSE <<>>]
    BY <1>3 DEF PublishOther
  <2>2. contents' = v
    BY <2>1, Assumed, ContentsOfNext
  <2>3. UNCHANGED <<version, overwrite>>
    BY <1>3 DEF PublishOther, requestVars
  <2> QED  BY <2>1, <2>2, <2>3 DEF DestinationOf!Next, DestinationOf!PublishOther
<1>4. CASE ~MakePool /\ ~publish_partial /\ ~PublishOther
  BY <1>4, DestinationKept, RequestKept DEF Published
<1> QED  BY <1>1, <1>2, <1>3, <1>4

\* The destination changes at once, to all the bytes of one version, and a file that is there
\* is replaced only when the pull was told to overwrite, wherever pulls are killed or meet.
THEOREM AtomicPublishHolds == Spec => AtomicPublish
<1>1. Init => DestinationOf!Init
  BY DEF Init, contents, DestinationOf!Init
<1>2. PullInv /\ PullInv' /\ [Next]_vars => [DestinationOf!Next]_(DestinationOf!vars)
  BY DestinationStep DEF Published, DestinationOf!vars
<1> QED  BY <1>1, <1>2, PullInvHolds, PTL DEF Spec, AtomicPublish, DestinationOf!Spec
=============================================================================
