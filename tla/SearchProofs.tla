---------------------------- MODULE SearchProofs ----------------------------
(***************************************************************************)
(* Proofs about what a search is answered from: the chunks (ChunkIndex),   *)
(* and the index and the answers kept (ResponseCache).  The two share no   *)
(* state.                                                                  *)
(*                                                                         *)
(* ChunkIndex, for any sources, calls and number of pieces.  Rebuilds may  *)
(* overlap in every way READ COMMITTED allows, so the invariant follows    *)
(* what a DELETE has in its hands: whole rebuilds of its own source        *)
(* (DoomedInv), which nobody else deletes once it holds the row locks      *)
(* (LockInv).  A commit then replaces whole rebuilds by a whole one.       *)
(*                                                                         *)
(* ResponseCache, for any keys, requests and writes.  A drop that has      *)
(* visited a key answers for every old answer under it, kept or still in   *)
(* the hands of a request (CoverInv); a copy of the row that no reindex    *)
(* met is the only one, and present unless a write has yet to read         *)
(* (IndexInv).                                                             *)
(***************************************************************************)
EXTENDS ChunkIndex, ResponseCache, TLAPS

Inv == TypeOK /\ ChunkInv

-----------------------------------------------------------------------------
LEMMA ByBuild ==
    ASSUME NEW b \in Builds
    PROVE  /\ ChunksBy(b) = {c \in Chunks : c[1] = b}
           /\ ChunksBy(b) # {}
           /\ \A c \in ChunksBy(b) : c \in Chunks /\ c[1] = b /\ c[2] \in Ordinals
<1>1. 1 \in Ordinals
  BY SizesAssumption DEF Ordinals
<1>2. <<b, 1>> \in ChunksBy(b)
  BY <1>1 DEF ChunksBy
<1>3. \A c \in ChunksBy(b) : c \in Chunks /\ c[1] = b /\ c[2] \in Ordinals
  BY DEF ChunksBy, Chunks
<1>4. \A c \in Chunks : c[1] = b => c \in ChunksBy(b)
  BY DEF ChunksBy, Chunks
<1> QED BY <1>2, <1>3, <1>4

LEMMA OfBuild == \A c \in Chunks : c[1] \in Builds /\ c[2] \in Ordinals /\ c \in ChunksBy(c[1])
BY DEF Chunks, ChunksBy

LEMMA BuildType ==
    ASSUME TypeOK, NEW b \in Builds
    PROVE  /\ build[b] \in BuildStates
           /\ build[b].at \in BuildSteps
           /\ build[b].src \in Sources \cup {NoSource}
           /\ build[b].text \in 0..MaxText
           /\ build[b].doomed \subseteq Chunks
           /\ build[b].todo \subseteq Ordinals
BY DEF TypeOK, BuildStates

LEMMA InitInv == Init => Inv
<1> SUFFICES ASSUME Init PROVE Inv OBVIOUS
<1>1. NotCalled \in BuildStates
  BY SizesAssumption DEF NotCalled, BuildStates, BuildSteps
<1>2. TypeOK
  BY <1>1, SizesAssumption DEF Init, TypeOK
<1>3. \A b \in Builds : build[b].at = "idle" /\ build[b].src = NoSource /\ build[b].doomed = {}
  BY DEF Init, NotCalled
<1>4. ChunkInv
  BY <1>3 DEF Init, ChunkInv, RowsInv, CallInv, DoomedInv, LockInv, Committed,
      MarkedRecordsAreChunked, EmbeddingAccounted
<1> QED BY <1>2, <1>4 DEF Inv

-----------------------------------------------------------------------------
(* A step of one call that changes no row of chunks.                        *)

Sound(b) ==
    /\ build'[b].at = "idle" <=> build'[b].src = NoSource
    /\ build'[b].at = "mark" => build'[b].src \in Records
    /\ build'[b].at \in Committed /\ build'[b].src \notin Opaque => ChunksOf(build'[b].src) # {}
    /\ build[b].at \in Committed => build'[b].at \in Committed /\ build'[b].src = build[b].src
    /\ \A c \in build'[b].doomed :
          /\ ChunksBy(c[1]) \subseteq build'[b].doomed
          /\ build[c[1]].at \in Committed
          /\ build[c[1]].src = build'[b].src
    /\ build'[b].at = "write" =>
          /\ build'[b].doomed \subseteq chunks
          /\ \A o \in Builds \ {b} :
                build[o].at = "write" => build[o].doomed \cap build'[b].doomed = {}

LEMMA LocalStep ==
    ASSUME Inv, TypeOK', NEW b \in Builds, Sound(b),
           \A o \in Builds \ {b} : build'[o] = build[o], chunks' = chunks
    PROVE  /\ RowsInv' /\ CallInv' /\ DoomedInv' /\ LockInv'
           /\ \A s \in Sources \cup {NoSource} : ChunksOf(s)' = ChunksOf(s)
<1> USE DEF Inv, ChunkInv
<1>1. \A c \in Chunks : build[c[1]].at \in Committed =>
          build'[c[1]].at \in Committed /\ build'[c[1]].src = build[c[1]].src
  BY OfBuild DEF Sound
<1>2. \A c \in chunks : c \in Chunks /\ build[c[1]].at \in Committed
  BY DEF TypeOK, RowsInv
<1>3. \A s \in Sources \cup {NoSource} : ChunksOf(s)' = ChunksOf(s)
  BY <1>1, <1>2 DEF ChunksOf
<1>4. RowsInv'
  BY <1>1, <1>2 DEF RowsInv, ChunksBy
<1>5. CallInv'
  <2> SUFFICES ASSUME NEW o \in Builds
               PROVE /\ build'[o].at = "idle" <=> build'[o].src = NoSource
                     /\ build'[o].at = "mark" => build'[o].src \in Records
                     /\ build'[o].at \in Committed /\ build'[o].src \notin Opaque =>
                           ChunksOf(build[o].src)' # {}
    BY DEF CallInv
  <2>1. build'[o].src \in Sources \cup {NoSource}
    BY DEF TypeOK, BuildStates
  <2>2. CASE o = b
    BY <2>1, <2>2, <1>3 DEF Sound
  <2>3. CASE o # b
    BY <2>1, <2>3, <1>3 DEF CallInv
  <2> QED BY <2>2, <2>3
<1>6. DoomedInv'
  <2> SUFFICES ASSUME NEW o \in Builds, NEW c \in build'[o].doomed
               PROVE /\ ChunksBy(c[1]) \subseteq build'[o].doomed
                     /\ build'[c[1]].at \in Committed
                     /\ build'[c[1]].src = build'[o].src
    BY DEF DoomedInv, ChunksBy
  <2>1. c \in Chunks
    BY DEF TypeOK, BuildStates
  <2>2. /\ ChunksBy(c[1]) \subseteq build'[o].doomed
        /\ build[c[1]].at \in Committed
        /\ build[c[1]].src = build'[o].src
    <3>1. CASE o = b
      BY <3>1 DEF Sound
    <3>2. CASE o # b
      BY <3>2 DEF DoomedInv
    <3> QED BY <3>1, <3>2
  <2> QED BY <1>1, <2>1, <2>2
<1>7. LockInv'
  <2> SUFFICES ASSUME NEW o \in Builds, build'[o].at = "write"
               PROVE /\ build'[o].doomed \subseteq chunks
                     /\ \A p \in Builds \ {o} :
                           build'[p].at = "write" => build'[p].doomed \cap build'[o].doomed = {}
    BY DEF LockInv
  <2>1. CASE o = b
    BY <2>1 DEF Sound
  <2>2. CASE o # b
    <3>1. build[o].at = "write" /\ build'[o] = build[o]
      BY <2>2
    <3>2. build[o].doomed \subseteq chunks
      BY <3>1 DEF LockInv
    <3>3. ASSUME NEW p \in Builds \ {o}, build'[p].at = "write"
          PROVE  build'[p].doomed \cap build'[o].doomed = {}
      <4>1. CASE p = b
        BY <2>2, <3>1, <3>3, <4>1 DEF Sound
      <4>2. CASE p # b
        BY <3>1, <3>3, <4>2 DEF LockInv
      <4> QED BY <4>1, <4>2
    <3> QED BY <3>1, <3>2, <3>3
  <2> QED BY <2>1, <2>2
<1> QED BY <1>3, <1>4, <1>5, <1>6, <1>7

-----------------------------------------------------------------------------
(* Types.                                                                   *)

LEMMA TypeStep == Inv /\ Next => TypeOK'
<1> SUFFICES ASSUME Inv, Next PROVE TypeOK' OBVIOUS
<1>0. TypeOK /\ CallInv
  BY DEF Inv, ChunkInv
<1>1. ASSUME NEW s \in Sources, NewText(s)
      PROVE  text' \in [Sources -> 0..MaxText]
  <2>1. text[s] \in 0..MaxText
    BY <1>0 DEF TypeOK
  <2>2. text[s] + 1 \in 0..MaxText
    BY <1>1, <2>1, SizesAssumption DEF NewText
  <2> QED BY <1>0, <1>1, <2>2 DEF NewText, TypeOK
<1>2. ASSUME NEW b \in Builds, NEW s \in Sources, Call(b, s)
      PROVE  build' \in [Builds -> BuildStates] /\ overlapped' \subseteq Sources
  <2>1. [build[b] EXCEPT !.at = "read", !.src = s] \in BuildStates
    BY <1>0, BuildType DEF BuildStates, BuildSteps, Replacing
  <2>2. build' \in [Builds -> BuildStates]
    BY <1>0, <1>2, <2>1 DEF Call, TypeOK
  <2> QED BY <1>0, <1>2, <2>2 DEF Call, TypeOK
<1>3. CASE \E r \in Records : InsertWithoutHook(r)
  BY <1>0, <1>3, <1>1 DEF InsertWithoutHook, TypeOK, Sources
<1>4. ASSUME NEW b \in Builds, BuildNext(b) PROVE TypeOK'
  <2> USE <1>0
  <2>0. /\ build[b].src \in Sources \cup {NoSource}
        /\ build[b].text \in 0..MaxText
        /\ build[b].doomed \subseteq Chunks
        /\ build[b].todo \subseteq Ordinals
        /\ build[b] \in BuildStates
    BY BuildType
  <2>1. ASSUME NEW s \in Sources, WriteWithHook(b, s) PROVE TypeOK'
    BY <2>1, <1>1, <1>2 DEF WriteWithHook, TypeOK
  <2>2. ASSUME NEW s \in Sources, Reindex(b, s) PROVE TypeOK'
    BY <2>2, <1>2 DEF Reindex, TypeOK
  <2>3. CASE ReadText(b)
    <3>1. build[b].src \in Sources
      BY <2>0, <2>3 DEF ReadText, At, CallInv
    <3>2. text[build[b].src] \in 0..MaxText
      BY <3>1 DEF TypeOK
    <3>3. ASSUME NEW step \in BuildSteps
          PROVE  [build[b] EXCEPT !.text = text[build[b].src], !.at = step] \in BuildStates
      BY <2>0, <3>2 DEF BuildStates
    <3>4. build' \in [Builds -> BuildStates]
      BY <2>3, <3>3 DEF ReadText, TypeOK, BuildSteps, Replacing
    <3> QED BY <2>3, <3>4 DEF ReadText, TypeOK
  <2>4. CASE DeleteSnapshot(b)
    <3>1. ChunksOf(build[b].src) \in SUBSET Chunks
      BY DEF TypeOK, ChunksOf
    <3>2. build' \in [Builds -> BuildStates]
      BY <2>0, <2>4, <3>1 DEF DeleteSnapshot, TypeOK, BuildStates, BuildSteps, Replacing
    <3> QED BY <2>4, <3>2 DEF DeleteSnapshot, TypeOK
  <2>5. CASE DeleteLocks(b)
    <3>1. build' \in [Builds -> BuildStates]
      BY <2>0, <2>5 DEF DeleteLocks, TypeOK, BuildStates, BuildSteps, Replacing
    <3> QED BY <2>5, <3>1 DEF DeleteLocks, TypeOK
  <2>6. CASE Commit(b)
    <3>0. [build[b] EXCEPT !.at = After(b), !.todo = Ordinals, !.doomed = {}] \in BuildStates
      BY <2>0 DEF After, BuildStates, BuildSteps
    <3>1. build' \in [Builds -> BuildStates]
      BY <2>6, <3>0 DEF Commit, TypeOK
    <3>2. chunks' \subseteq Chunks
      BY <2>6, ByBuild DEF Commit, TypeOK
    <3>3. embedded' \subseteq chunks'
      BY <2>6 DEF Commit, TypeOK
    <3> QED BY <2>6, <3>1, <3>2, <3>3 DEF Commit, TypeOK
  <2>7. CASE Mark(b)
    <3>1. ASSUME NEW step \in BuildSteps
          PROVE  [build[b] EXCEPT !.at = step] \in BuildStates
      BY <2>0 DEF BuildStates
    <3>2. build' \in [Builds -> BuildStates]
      BY <2>7, <3>1 DEF Mark, TypeOK, BuildSteps
    <3>3. build[b].src \in Records
      BY <2>7 DEF Mark, At, CallInv
    <3> QED BY <2>7, <3>2, <3>3 DEF Mark, TypeOK
  <2>8. CASE Enqueue(b)
    <3>1. PICK p \in build[b].todo :
            /\ task' = [task EXCEPT ![<<b, p>>] = "pending"]
            /\ build' = [build EXCEPT ![b].todo = @ \ {p},
                                      ![b].at = IF build[b].todo = {p} THEN "done" ELSE "enqueue"]
      BY <2>8 DEF Enqueue
    <3>0. ASSUME NEW step \in BuildSteps
          PROVE  [build[b] EXCEPT !.todo = @ \ {p}, !.at = step] \in BuildStates
      BY <2>0 DEF BuildStates
    <3>2. build' \in [Builds -> BuildStates]
      BY <3>0, <3>1 DEF TypeOK, BuildSteps
    <3>3. task' \in [Chunks -> {"none", "pending", "done", "archived"}]
      BY <3>1 DEF TypeOK
    <3> QED BY <2>8, <3>2, <3>3 DEF Enqueue, TypeOK
  <2>9. CASE Abort(b)
    <3>1. build' \in [Builds -> BuildStates]
      BY <2>0, <2>9 DEF Abort, TypeOK, BuildStates, BuildSteps
    <3> QED BY <2>9, <3>1 DEF Abort, TypeOK
  <2>10. CASE CutShort(b)
    <3>1. build' \in [Builds -> BuildStates]
      BY <2>0, <2>10 DEF CutShort, TypeOK, BuildStates, BuildSteps
    <3> QED BY <2>10, <3>1 DEF CutShort, TypeOK
  <2> QED BY <1>4, <2>1, <2>2, <2>3, <2>4, <2>5, <2>6, <2>7, <2>8, <2>9, <2>10 DEF BuildNext
<1>5. ASSUME NEW c \in Chunks, EmbedStores(c) PROVE TypeOK'
  BY <1>0, <1>5 DEF EmbedStores, TypeOK
<1>6. ASSUME NEW c \in Chunks, EmbedFails(c) PROVE TypeOK'
  BY <1>0, <1>6 DEF EmbedFails, TypeOK
<1> QED BY <1>3, <1>4, <1>5, <1>6 DEF Next

-----------------------------------------------------------------------------
(* Steps of a call that leave the rows of chunks alone.                     *)

LEMMA LocalInv ==
    ASSUME Inv, TypeOK', NEW b \in Builds, Sound(b),
           \A o \in Builds \ {b} : build'[o] = build[o],
           chunks' = chunks, embedded' = embedded,
           \A c \in Chunks : c[1] # b => task'[c] = task[c],
           \A r \in marked' \ marked : r \notin Opaque => ChunksOf(r) # {},
           \A c \in chunks : c[1] = b =>
              \/ c \in embedded
              \/ task'[c] \in {"pending", "archived"}
              \/ build'[b].at \in {"mark", "enqueue"} /\ c[2] \in build'[b].todo
              \/ build'[b].at = "cut"
    PROVE  ChunkInv'
<1>1. /\ RowsInv' /\ CallInv' /\ DoomedInv' /\ LockInv'
      /\ \A s \in Sources \cup {NoSource} : ChunksOf(s)' = ChunksOf(s)
  BY LocalStep
<1>2. MarkedRecordsAreChunked'
  <2> SUFFICES ASSUME NEW r \in marked', r \notin Opaque PROVE ChunksOf(r)' # {}
    BY DEF MarkedRecordsAreChunked
  <2>1. r \in Sources
    BY DEF TypeOK, Sources
  <2>2. ChunksOf(r) # {}
    BY DEF Inv, ChunkInv, MarkedRecordsAreChunked
  <2> QED BY <1>1, <2>1, <2>2
<1>3. EmbeddingAccounted'
  <2> SUFFICES ASSUME NEW c \in chunks
               PROVE \/ c \in embedded
                     \/ task'[c] \in {"pending", "archived"}
                     \/ build'[c[1]].at \in {"mark", "enqueue"} /\ c[2] \in build'[c[1]].todo
                     \/ build'[c[1]].at = "cut"
    BY DEF EmbeddingAccounted
  <2>1. c \in Chunks /\ c[1] \in Builds
    BY OfBuild DEF Inv, TypeOK
  <2>2. CASE c[1] = b
    BY <2>2
  <2>3. CASE c[1] # b
    <3>1. task'[c] = task[c] /\ build'[c[1]] = build[c[1]]
      BY <2>1, <2>3
    <3> QED BY <3>1 DEF Inv, ChunkInv, EmbeddingAccounted
  <2> QED BY <2>2, <2>3
<1> QED BY <1>1, <1>2, <1>3 DEF ChunkInv

\* A call that has not committed has no chunks, so nothing to account for.
LEMMA NoChunksYet ==
    ASSUME Inv, NEW b \in Builds, build[b].at \notin Committed
    PROVE  \A c \in chunks : c[1] # b
BY DEF Inv, ChunkInv, RowsInv

LEMMA CallStep ==
    ASSUME Inv, TypeOK', NEW b \in Builds, NEW s \in Sources, Call(b, s),
           UNCHANGED <<marked, chunks, embedded, task>>
    PROVE  ChunkInv'
<1>1. /\ build'[b].at = "read" /\ build'[b].src = s
      /\ build'[b].doomed = build[b].doomed /\ build[b].at = "idle" /\ build[b].src = NoSource
      /\ \A o \in Builds \ {b} : build'[o] = build[o]
  BY BuildType DEF Inv, ChunkInv, CallInv, Call, TypeOK, BuildStates
<1>2. build[b].doomed = {}
  <2> SUFFICES ASSUME NEW c \in build[b].doomed PROVE FALSE OBVIOUS
  <2>1. build[c[1]].at \in Committed /\ build[c[1]].src = NoSource
    BY <1>1 DEF Inv, ChunkInv, DoomedInv
  <2>2. c \in Chunks /\ c[1] \in Builds
    BY BuildType, OfBuild DEF Inv
  <2> QED BY <2>1, <2>2 DEF Inv, ChunkInv, CallInv, Committed
<1>3. Sound(b)
  BY <1>1, <1>2, SourcesAssumption DEF Sound, Committed, Sources
<1>4. build[b].at \notin Committed
  BY <1>1 DEF Committed
<1> QED BY <1>1, <1>3, <1>4, LocalInv, NoChunksYet

LEMMA ReadTextStep ==
    ASSUME Inv, TypeOK', NEW b \in Builds, ReadText(b)
    PROVE  ChunkInv'
<1>1. /\ build[b].at = "read"
      /\ build'[b].at = IF build[b].src \in Opaque THEN "mark" ELSE "delete"
      /\ build'[b].src = build[b].src /\ build'[b].doomed = build[b].doomed
      /\ \A o \in Builds \ {b} : build'[o] = build[o]
  BY BuildType DEF Inv, ReadText, At, TypeOK, BuildStates
<1>4. build[b].src # NoSource
  BY <1>1 DEF Inv, ChunkInv, CallInv
<1>5. \A c \in build[b].doomed :
          /\ ChunksBy(c[1]) \subseteq build[b].doomed
          /\ build[c[1]].at \in Committed
          /\ build[c[1]].src = build[b].src
  BY DEF Inv, ChunkInv, DoomedInv
<1>2. Sound(b)
  <2>1. CASE build[b].src \in Opaque
    <3>1. build'[b].at = "mark" /\ build'[b].src \in Records
      BY <1>1, <2>1, SourcesAssumption
    <3> QED BY <1>1, <1>4, <1>5, <2>1, <3>1 DEF Sound, Committed
  <2>2. CASE build[b].src \notin Opaque
    <3>1. build'[b].at = "delete"
      BY <1>1, <2>2
    <3> QED BY <1>1, <1>4, <1>5, <3>1 DEF Sound, Committed
  <2> QED BY <2>1, <2>2
<1>3. build[b].at \notin Committed
  BY <1>1 DEF Committed
<1> QED BY <1>1, <1>2, <1>3, LocalInv, NoChunksYet DEF ReadText

LEMMA DeleteSnapshotStep ==
    ASSUME Inv, TypeOK', NEW b \in Builds, DeleteSnapshot(b)
    PROVE  ChunkInv'
<1>1. /\ build[b].at = "delete" /\ build'[b].at = "wait"
      /\ build'[b].src = build[b].src /\ build'[b].doomed = ChunksOf(build[b].src)
      /\ \A o \in Builds \ {b} : build'[o] = build[o]
  BY BuildType DEF Inv, DeleteSnapshot, At, TypeOK, BuildStates
<1>2. ASSUME NEW c \in build'[b].doomed
      PROVE  /\ ChunksBy(c[1]) \subseteq build'[b].doomed
             /\ build[c[1]].at \in Committed
             /\ build[c[1]].src = build'[b].src
  <2>1. c \in chunks /\ build[c[1]].src = build[b].src /\ c[1] \in Builds
    BY <1>1, OfBuild DEF ChunksOf, Inv, TypeOK
  <2>2. ChunksBy(c[1]) \subseteq chunks /\ build[c[1]].at \in Committed
    BY <2>1 DEF Inv, ChunkInv, RowsInv
  <2>3. \A d \in ChunksBy(c[1]) : build[d[1]].src = build[b].src
    BY <2>1, ByBuild
  <2> QED BY <1>1, <2>1, <2>2, <2>3 DEF ChunksOf
<1>3. Sound(b)
  BY <1>1, <1>2 DEF Sound, Committed, Inv, ChunkInv, CallInv
<1>4. build[b].at \notin Committed
  BY <1>1 DEF Committed
<1> QED BY <1>1, <1>3, <1>4, LocalInv, NoChunksYet DEF DeleteSnapshot

LEMMA DeleteLocksStep ==
    ASSUME Inv, TypeOK', NEW b \in Builds, DeleteLocks(b)
    PROVE  ChunkInv'
<1>1. /\ build[b].at = "wait" /\ build'[b].at = "write"
      /\ build'[b].src = build[b].src /\ build'[b].doomed = build[b].doomed \cap chunks
      /\ \A o \in Builds \ {b} : build'[o] = build[o]
      /\ Unlocked(b)
  BY BuildType DEF Inv, DeleteLocks, At, TypeOK, BuildStates
<1>2. ASSUME NEW c \in build'[b].doomed
      PROVE  /\ ChunksBy(c[1]) \subseteq build'[b].doomed
             /\ build[c[1]].at \in Committed
             /\ build[c[1]].src = build'[b].src
  BY <1>1, <1>2 DEF Inv, ChunkInv, RowsInv, DoomedInv
<1>3. \A o \in Builds \ {b} : build[o].at = "write" => build[o].doomed \cap build'[b].doomed = {}
  BY <1>1 DEF Unlocked, At
<1>4. Sound(b)
  BY <1>1, <1>2, <1>3 DEF Sound, Committed, Inv, ChunkInv, CallInv
<1>5. build[b].at \notin Committed
  BY <1>1 DEF Committed
<1> QED BY <1>1, <1>4, <1>5, LocalInv, NoChunksYet DEF DeleteLocks

LEMMA AbortStep ==
    ASSUME Inv, TypeOK', NEW b \in Builds, Abort(b)
    PROVE  ChunkInv'
<1>1. /\ build[b].at \in Replacing /\ build'[b].at = "aborted"
      /\ build'[b].src = build[b].src /\ build'[b].doomed = {}
      /\ \A o \in Builds \ {b} : build'[o] = build[o]
  BY BuildType DEF Inv, Abort, TypeOK, BuildStates
<1>2. build[b].at \notin Committed /\ build[b].at # "idle"
  BY <1>1 DEF Committed, Replacing
<1>3. Sound(b)
  BY <1>1, <1>2 DEF Sound, Committed, Inv, ChunkInv, CallInv
<1> QED BY <1>1, <1>2, <1>3, LocalInv, NoChunksYet DEF Abort

LEMMA MarkStep ==
    ASSUME Inv, TypeOK', NEW b \in Builds, Mark(b)
    PROVE  ChunkInv'
<1>1. /\ build[b].at = "mark"
      /\ build'[b].at = IF build[b].todo = {} THEN "done" ELSE "enqueue"
      /\ build'[b].src = build[b].src /\ build'[b].doomed = build[b].doomed
      /\ build'[b].todo = build[b].todo
      /\ \A o \in Builds \ {b} : build'[o] = build[o]
      /\ marked' = marked \cup {build[b].src}
  BY BuildType DEF Inv, Mark, At, TypeOK, BuildStates
<1>2. build[b].src # NoSource /\ (build[b].src \notin Opaque => ChunksOf(build[b].src) # {})
  BY <1>1 DEF Inv, ChunkInv, CallInv, Committed
<1>3. \A c \in build[b].doomed :
          /\ ChunksBy(c[1]) \subseteq build[b].doomed
          /\ build[c[1]].at \in Committed
          /\ build[c[1]].src = build[b].src
  BY DEF Inv, ChunkInv, DoomedInv
<1>4. Sound(b)
  <2>1. build'[b].at \in {"done", "enqueue"}
    BY <1>1
  <2> QED BY <1>1, <1>2, <1>3, <2>1 DEF Sound, Committed
<1>5. ASSUME NEW c \in chunks, c[1] = b
      PROVE  \/ c \in embedded
             \/ task[c] \in {"pending", "archived"}
             \/ build'[b].at \in {"mark", "enqueue"} /\ c[2] \in build'[b].todo
  BY <1>1, <1>5 DEF Inv, ChunkInv, EmbeddingAccounted
<1> QED BY <1>1, <1>2, <1>4, <1>5, LocalInv DEF Mark

LEMMA EnqueueStep ==
    ASSUME Inv, TypeOK', NEW b \in Builds, Enqueue(b)
    PROVE  ChunkInv'
<1>1. PICK p \in build[b].todo :
        /\ task' = [task EXCEPT ![<<b, p>>] = "pending"]
        /\ build' = [build EXCEPT ![b].todo = @ \ {p},
                                  ![b].at = IF build[b].todo = {p} THEN "done" ELSE "enqueue"]
  BY DEF Enqueue
<1>2. /\ build[b].at = "enqueue"
      /\ build'[b].at = IF build[b].todo = {p} THEN "done" ELSE "enqueue"
      /\ build'[b].src = build[b].src /\ build'[b].doomed = build[b].doomed
      /\ build'[b].todo = build[b].todo \ {p}
      /\ \A o \in Builds \ {b} : build'[o] = build[o]
  <2> DEFINE r == [build[b] EXCEPT !.todo = @ \ {p},
                                  !.at = IF build[b].todo = {p} THEN "done" ELSE "enqueue"]
  <2>1. build'[b] = r /\ \A o \in Builds \ {b} : build'[o] = build[o]
    BY <1>1 DEF Inv, TypeOK
  <2>2. build[b] \in BuildStates
    BY BuildType DEF Inv
  <2>3. /\ r.at = IF build[b].todo = {p} THEN "done" ELSE "enqueue"
        /\ r.src = build[b].src /\ r.doomed = build[b].doomed /\ r.todo = build[b].todo \ {p}
    BY <2>2 DEF BuildStates
  <2> HIDE DEF r
  <2> QED BY <2>1, <2>3 DEF Enqueue, At
<1>3. build[b].src # NoSource /\ (build[b].src \notin Opaque => ChunksOf(build[b].src) # {})
  BY <1>2 DEF Inv, ChunkInv, CallInv, Committed
<1>4. \A c \in build[b].doomed :
          /\ ChunksBy(c[1]) \subseteq build[b].doomed
          /\ build[c[1]].at \in Committed
          /\ build[c[1]].src = build[b].src
  BY DEF Inv, ChunkInv, DoomedInv
<1>5. Sound(b)
  BY <1>2, <1>3, <1>4 DEF Sound, Committed
<1>6. \A c \in Chunks : task'[c] = IF c = <<b, p>> THEN "pending" ELSE task[c]
  BY <1>1 DEF Inv, TypeOK
<1>7. ASSUME NEW c \in chunks, c[1] = b
      PROVE  \/ c \in embedded
             \/ task'[c] \in {"pending", "archived"}
             \/ build'[b].at \in {"mark", "enqueue"} /\ c[2] \in build'[b].todo
  <2>1. c \in Chunks
    BY DEF Inv, TypeOK
  <2>2. \/ c \in embedded
        \/ task[c] \in {"pending", "archived"}
        \/ c[2] \in build[b].todo
    BY <1>2, <1>7 DEF Inv, ChunkInv, EmbeddingAccounted
  <2>3. CASE c[2] = p
    <3>1. c = <<b, p>>
      BY <1>7, <2>1, <2>3 DEF Chunks
    <3> QED BY <1>6, <2>1, <3>1
  <2>4. CASE c[2] # p
    <3>1. c # <<b, p>>
      BY <2>4
    <3> QED BY <1>2, <1>6, <2>1, <2>2, <2>4, <3>1
  <2> QED BY <2>3, <2>4
<1>8. \A c \in Chunks : c[1] # b => task'[c] = task[c]
  BY <1>6
<1> QED BY <1>2, <1>5, <1>7, <1>8, LocalInv DEF Enqueue

LEMMA CutShortStep ==
    ASSUME Inv, TypeOK', NEW b \in Builds, CutShort(b)
    PROVE  ChunkInv'
<1>1. /\ build[b].at \in {"mark", "enqueue"} /\ build'[b].at = "cut"
      /\ build'[b].src = build[b].src /\ build'[b].doomed = build[b].doomed
      /\ \A o \in Builds \ {b} : build'[o] = build[o]
  BY BuildType DEF Inv, CutShort, TypeOK, BuildStates
<1>2. build[b].src # NoSource /\ (build[b].src \notin Opaque => ChunksOf(build[b].src) # {})
  BY <1>1 DEF Inv, ChunkInv, CallInv, Committed
<1>3. \A c \in build[b].doomed :
          /\ ChunksBy(c[1]) \subseteq build[b].doomed
          /\ build[c[1]].at \in Committed
          /\ build[c[1]].src = build[b].src
  BY DEF Inv, ChunkInv, DoomedInv
<1>4. Sound(b)
  BY <1>1, <1>2, <1>3 DEF Sound, Committed
<1> QED BY <1>1, <1>4, LocalInv DEF CutShort

-----------------------------------------------------------------------------
(* The commit of a rebuild, and the steps outside rebuilds.                 *)

\* What a commit leaves of the other rebuilds: whole ones.
LEMMA CommitRows ==
    ASSUME Inv, NEW b \in Builds, Commit(b)
    PROVE  /\ \A c \in chunks : c[1] # b /\ build'[c[1]] = build[c[1]]
           /\ \A c \in chunks \ build[b].doomed :
                 ChunksBy(c[1]) \subseteq chunks \ build[b].doomed
           /\ \A s \in Sources : ChunksOf(s) # {} => ChunksOf(s)' # {}
           /\ build[b].src \in Sources /\ ChunksOf(build[b].src)' # {}
           /\ build[b].at = "write" /\ build'[b].src = build[b].src
           /\ build'[b].at = After(b) /\ build'[b].doomed = {} /\ build'[b].todo = Ordinals
           /\ \A o \in Builds \ {b} : build'[o] = build[o]
           /\ chunks' = (chunks \ build[b].doomed) \cup ChunksBy(b)
<1>1. /\ build[b].at = "write" /\ build'[b].src = build[b].src
      /\ build'[b].at = After(b) /\ build'[b].doomed = {} /\ build'[b].todo = Ordinals
      /\ \A o \in Builds \ {b} : build'[o] = build[o]
      /\ chunks' = (chunks \ build[b].doomed) \cup ChunksBy(b)
  BY BuildType DEF Inv, Commit, At, TypeOK, BuildStates
<1>2. \A c \in chunks : c \in Chunks /\ c[1] \in Builds
  BY OfBuild DEF Inv, TypeOK
<1>3. \A c \in chunks : c[1] # b
  BY <1>1, NoChunksYet DEF Committed
<1>4. ASSUME NEW c \in chunks \ build[b].doomed
      PROVE  ChunksBy(c[1]) \subseteq chunks \ build[b].doomed
  <2>1. ChunksBy(c[1]) \subseteq chunks
    BY DEF Inv, ChunkInv, RowsInv
  <2>2. ASSUME NEW d \in ChunksBy(c[1]), d \in build[b].doomed PROVE FALSE
    <3>1. d[1] = c[1] /\ c \in ChunksBy(c[1])
      BY <1>2, ByBuild, OfBuild
    <3>2. ChunksBy(d[1]) \subseteq build[b].doomed
      BY <2>2 DEF Inv, ChunkInv, DoomedInv
    <3> QED BY <3>1, <3>2
  <2> QED BY <2>1, <2>2
<1>5. build[b].src \in Sources
  BY <1>1, BuildType DEF Inv, ChunkInv, CallInv
<1>6. ChunksOf(build[b].src)' # {}
  <2>1. PICK c \in ChunksBy(b) : c[1] = b
    BY ByBuild
  <2> QED BY <1>1, <2>1 DEF ChunksOf
<1>7. ASSUME NEW s \in Sources, ChunksOf(s) # {} PROVE ChunksOf(s)' # {}
  <2>1. CASE s = build[b].src
    <3>1. PICK c \in ChunksBy(b) : c[1] = b
      BY ByBuild
    <3> QED BY <1>1, <2>1, <3>1 DEF ChunksOf
  <2>2. CASE s # build[b].src
    <3>1. PICK c \in chunks : build[c[1]].src = s
      BY <1>7 DEF ChunksOf
    <3>2. c \notin build[b].doomed
      BY <2>2, <3>1 DEF Inv, ChunkInv, DoomedInv
    <3>3. build'[c[1]].src = s
      BY <1>1, <1>2, <1>3, <3>1
    <3> QED BY <1>1, <3>2, <3>3 DEF ChunksOf
  <2> QED BY <2>1, <2>2
<1> QED BY <1>1, <1>2, <1>3, <1>4, <1>5, <1>6, <1>7

LEMMA CommitStep ==
    ASSUME Inv, TypeOK', NEW b \in Builds, Commit(b)
    PROVE  ChunkInv'
<1>1. /\ \A c \in chunks : c[1] # b /\ build'[c[1]] = build[c[1]]
      /\ \A c \in chunks \ build[b].doomed :
            ChunksBy(c[1]) \subseteq chunks \ build[b].doomed
      /\ \A s \in Sources : ChunksOf(s) # {} => ChunksOf(s)' # {}
      /\ build[b].src \in Sources /\ ChunksOf(build[b].src)' # {}
      /\ build[b].at = "write" /\ build'[b].src = build[b].src
      /\ build'[b].at = After(b) /\ build'[b].doomed = {} /\ build'[b].todo = Ordinals
      /\ \A o \in Builds \ {b} : build'[o] = build[o]
      /\ chunks' = (chunks \ build[b].doomed) \cup ChunksBy(b)
  BY CommitRows
<1>2. /\ build'[b].at \in {"mark", "enqueue"}
      /\ build'[b].at = "mark" => build[b].src \in Records
  BY <1>1 DEF After
<1>3. RowsInv'
  <2> SUFFICES ASSUME NEW c \in chunks'
               PROVE ChunksBy(c[1]) \subseteq chunks' /\ build'[c[1]].at \in Committed
    BY DEF RowsInv, ChunksBy
  <2>1. CASE c \in chunks \ build[b].doomed
    <3>1. build[c[1]].at \in Committed
      BY <2>1 DEF Inv, ChunkInv, RowsInv
    <3> QED BY <1>1, <2>1, <3>1
  <2>2. CASE c \in ChunksBy(b)
    <3>1. c[1] = b
      BY <2>2, ByBuild
    <3> QED BY <1>1, <1>2, <3>1 DEF Committed
  <2> QED BY <1>1, <2>1, <2>2
<1>4. CallInv'
  <2> SUFFICES ASSUME NEW o \in Builds
               PROVE /\ build'[o].at = "idle" <=> build'[o].src = NoSource
                     /\ build'[o].at = "mark" => build'[o].src \in Records
                     /\ build'[o].at \in Committed /\ build'[o].src \notin Opaque =>
                           ChunksOf(build[o].src)' # {}
    <3>1. \A o \in Builds : build'[o].src = build[o].src
      BY <1>1
    <3> QED BY <3>1 DEF CallInv
  <2>1. CASE o = b
    BY <1>1, <1>2, <2>1, SourcesAssumption DEF Sources
  <2>2. CASE o # b
    <3>1. build[o].at # "idle" => build[o].src \in Sources
      BY BuildType DEF Inv, ChunkInv, CallInv
    <3>2. build[o].at \in Committed => build[o].at # "idle"
      BY DEF Committed
    <3>3. build'[o] = build[o]
      BY <1>1, <2>2
    <3> QED BY <1>1, <3>1, <3>2, <3>3 DEF Inv, ChunkInv, CallInv
  <2> QED BY <2>1, <2>2
<1>5. DoomedInv'
  <2> SUFFICES ASSUME NEW o \in Builds, NEW c \in build'[o].doomed
               PROVE /\ ChunksBy(c[1]) \subseteq build'[o].doomed
                     /\ build'[c[1]].at \in Committed
                     /\ build'[c[1]].src = build'[o].src
    BY DEF DoomedInv, ChunksBy
  <2>1. o # b /\ build'[o] = build[o]
    BY <1>1
  <2>2. /\ ChunksBy(c[1]) \subseteq build[o].doomed
        /\ build[c[1]].at \in Committed
        /\ build[c[1]].src = build[o].src
    BY <2>1 DEF Inv, ChunkInv, DoomedInv
  <2>3. c[1] \in Builds /\ c[1] # b
    BY <1>1, <2>1, <2>2, BuildType, OfBuild DEF Inv, Committed
  <2> QED BY <1>1, <2>1, <2>2, <2>3
<1>6. LockInv'
  <2> SUFFICES ASSUME NEW o \in Builds, build'[o].at = "write"
               PROVE /\ build'[o].doomed \subseteq chunks'
                     /\ \A p \in Builds \ {o} :
                           build'[p].at = "write" => build'[p].doomed \cap build'[o].doomed = {}
    BY DEF LockInv
  <2>1. o # b
    BY <1>2
  <2>2. build[o].at = "write" /\ build'[o] = build[o]
    BY <1>1, <2>1
  <2>3. build[o].doomed \subseteq chunks /\ build[b].doomed \cap build[o].doomed = {}
    BY <1>1, <2>1, <2>2 DEF Inv, ChunkInv, LockInv
  <2>4. ASSUME NEW p \in Builds \ {o}, build'[p].at = "write"
        PROVE  build'[p].doomed \cap build'[o].doomed = {}
    <3>1. p # b
      BY <1>2, <2>4
    <3>2. build[p].at = "write" /\ build'[p] = build[p]
      BY <1>1, <2>4, <3>1
    <3> QED BY <2>2, <3>2 DEF Inv, ChunkInv, LockInv
  <2> QED BY <1>1, <2>2, <2>3, <2>4
<1>7. MarkedRecordsAreChunked'
  <2> SUFFICES ASSUME NEW r \in marked, r \notin Opaque PROVE ChunksOf(r)' # {}
    BY DEF MarkedRecordsAreChunked, Commit
  <2>1. r \in Sources /\ ChunksOf(r) # {}
    BY DEF Inv, TypeOK, Sources, ChunkInv, MarkedRecordsAreChunked
  <2> QED BY <1>1, <2>1
<1>8. EmbeddingAccounted'
  <2> SUFFICES ASSUME NEW c \in chunks'
               PROVE \/ c \in embedded'
                     \/ task'[c] \in {"pending", "archived"}
                     \/ build'[c[1]].at \in {"mark", "enqueue"} /\ c[2] \in build'[c[1]].todo
                     \/ build'[c[1]].at = "cut"
    BY DEF EmbeddingAccounted
  <2>1. CASE c \in chunks \ build[b].doomed
    BY <1>1, <2>1 DEF Inv, ChunkInv, EmbeddingAccounted, Commit
  <2>2. CASE c \in ChunksBy(b)
    <3>1. c[1] = b /\ c[2] \in Ordinals
      BY <2>2, ByBuild
    <3> QED BY <1>1, <1>2, <3>1
  <2> QED BY <1>1, <2>1, <2>2
<1> QED BY <1>3, <1>4, <1>5, <1>6, <1>7, <1>8 DEF ChunkInv

\* Steps that touch neither calls nor chunks.
LEMMA OutsideStep ==
    ASSUME Inv, UNCHANGED <<marked, chunks, build>>, EmbeddingAccounted'
    PROVE  ChunkInv'
<1>1. RowsInv' /\ DoomedInv' /\ LockInv'
  BY DEF Inv, ChunkInv, RowsInv, DoomedInv, LockInv, ChunksBy
<1>2. CallInv'
  BY DEF Inv, ChunkInv, CallInv, ChunksOf
<1>3. MarkedRecordsAreChunked'
  BY DEF Inv, ChunkInv, MarkedRecordsAreChunked, ChunksOf
<1> QED BY <1>1, <1>2, <1>3 DEF ChunkInv

LEMMA StepInv == Inv /\ [Next]_vars => Inv'
<1> SUFFICES ASSUME Inv, [Next]_vars PROVE Inv' OBVIOUS
<1>1. CASE UNCHANGED vars
  <2>1. TypeOK'
    BY <1>1 DEF Inv, TypeOK, vars
  <2>2. EmbeddingAccounted'
    BY <1>1 DEF Inv, ChunkInv, EmbeddingAccounted, vars
  <2> QED BY <1>1, <2>1, <2>2, OutsideStep DEF Inv, vars
<1>2. CASE Next
  <2>1. TypeOK'
    BY <1>2, TypeStep
  <2>2. ASSUME NEW r \in Records, InsertWithoutHook(r) PROVE ChunkInv'
    <3>1. EmbeddingAccounted'
      BY <2>2 DEF InsertWithoutHook, Inv, ChunkInv, EmbeddingAccounted
    <3> QED BY <2>2, <3>1, OutsideStep DEF InsertWithoutHook
  <2>3. ASSUME NEW b \in Builds, BuildNext(b) PROVE ChunkInv'
    <3>1. ASSUME NEW s \in Sources, WriteWithHook(b, s) \/ Reindex(b, s) PROVE ChunkInv'
      BY <2>1, <3>1, CallStep DEF WriteWithHook, Reindex
    <3> QED BY <2>1, <2>3, <3>1, ReadTextStep, DeleteSnapshotStep, DeleteLocksStep, CommitStep,
               MarkStep, EnqueueStep, AbortStep, CutShortStep DEF BuildNext
  <2>4. ASSUME NEW c \in Chunks, EmbedStores(c) PROVE ChunkInv'
    <3>1. EmbeddingAccounted'
      BY <2>4 DEF EmbedStores, Inv, TypeOK, ChunkInv, EmbeddingAccounted
    <3> QED BY <2>4, <3>1, OutsideStep DEF EmbedStores
  <2>5. ASSUME NEW c \in Chunks, EmbedFails(c) PROVE ChunkInv'
    <3>1. EmbeddingAccounted'
      BY <2>5 DEF EmbedFails, Inv, TypeOK, ChunkInv, EmbeddingAccounted
    <3> QED BY <2>5, <3>1, OutsideStep DEF EmbedFails
  <2> QED BY <1>2, <2>1, <2>2, <2>3, <2>4, <2>5 DEF Next, Inv
<1> QED BY <1>1, <1>2

-----------------------------------------------------------------------------
(* Sources whose rebuilds ran one after the other.                          *)

AtWork(b, s) == build[b].src = s /\ build[b].at \in Replacing

\* The one rebuild at work has read the present text, and its DELETE, once it has run, has all
\* the chunks there are; with none at work the chunks are those of a rebuild of that text.
QuietAt(s) ==
    /\ \A a, b \in Builds : AtWork(a, s) /\ AtWork(b, s) => a = b
    /\ \A b \in Builds : AtWork(b, s) =>
          /\ build[b].at # "read" => build[b].text = text[s]
          /\ build[b].at \in {"wait", "write"} => build[b].doomed = ChunksOf(s)
    /\ /\ \E b \in Builds : build[b].src = s
       /\ \A b \in Builds : build[b].src = s => build[b].at \notin Replacing \cup {"aborted"}
       => \E b \in Builds : ChunksOf(s) = ChunksBy(b) /\ build[b].text = text[s]

\* A source that is rebuilt exists, so no insertion without a hook comes after.
QuietInv ==
    /\ \A b \in Builds : build[b].src # NoSource => text[build[b].src] > 0
    /\ \A s \in Sources \ (Opaque \cup overlapped) : QuietAt(s)

\* What each step of a call makes of its local state, and of the chunks of its source.
LEMMA Shape ==
    ASSUME Inv, NEW b \in Builds, BuildNext(b)
    PROVE  /\ \A o \in Builds \ {b} : build'[o] = build[o]
           /\ \/ /\ build[b].src = NoSource
                 /\ \E s \in Sources : WriteWithHook(b, s) \/ Reindex(b, s)
              \/ /\ build[b].src \in Sources /\ build'[b].src = build[b].src
                 /\ UNCHANGED <<text, overlapped>>
                 /\ \/ /\ build[b].at = "read" /\ build'[b].text = text[build[b].src]
                       /\ build[b].src \notin Opaque => build'[b].at = "delete"
                       /\ UNCHANGED chunks
                    \/ /\ build[b].at = "delete" /\ build'[b].at = "wait"
                       /\ build'[b].text = build[b].text
                       /\ build'[b].doomed = ChunksOf(build[b].src) /\ UNCHANGED chunks
                    \/ /\ build[b].at = "wait" /\ build'[b].at = "write"
                       /\ build'[b].text = build[b].text
                       /\ build'[b].doomed = build[b].doomed \cap chunks /\ UNCHANGED chunks
                    \/ /\ Commit(b) /\ build'[b].text = build[b].text
                       /\ build'[b].at \in {"mark", "enqueue"}
                    \/ /\ build[b].at \notin Replacing \cup {"aborted"}
                       /\ build'[b].at \notin Replacing \cup {"aborted"}
                       /\ build'[b].text = build[b].text /\ UNCHANGED chunks
                    \/ build'[b].at = "aborted" /\ UNCHANGED chunks
<1> USE DEF Inv, TypeOK
<1>0. build[b].at # "idle" => build[b].src \in Sources
  BY BuildType DEF ChunkInv, CallInv
<1>1. ASSUME NEW s \in Sources, WriteWithHook(b, s) \/ Reindex(b, s)
      PROVE  build[b].src = NoSource /\ \A o \in Builds \ {b} : build'[o] = build[o]
  BY <1>1 DEF WriteWithHook, Reindex, Call, ChunkInv, CallInv
<1>2. CASE ReadText(b)
  BY <1>0, <1>2 DEF ReadText, At, BuildStates
<1>3. CASE DeleteSnapshot(b)
  BY <1>0, <1>3 DEF DeleteSnapshot, At, BuildStates
<1>4. CASE DeleteLocks(b)
  BY <1>0, <1>4 DEF DeleteLocks, At, BuildStates
<1>5. CASE Commit(b)
  BY <1>0, <1>5 DEF Commit, At, After, BuildStates
<1>6. CASE Mark(b)
  BY <1>0, <1>6 DEF Mark, At, BuildStates, Replacing
<1>7. CASE Enqueue(b)
  <2>1. PICK p \in build[b].todo :
          build' = [build EXCEPT ![b].todo = @ \ {p},
                                 ![b].at = IF build[b].todo = {p} THEN "done" ELSE "enqueue"]
    BY <1>7 DEF Enqueue
  <2>2. /\ \A o \in Builds \ {b} : build'[o] = build[o]
        /\ build'[b].src = build[b].src /\ build'[b].text = build[b].text
        /\ build'[b].at \in {"done", "enqueue"}
    BY <2>1 DEF BuildStates
  <2> QED BY <1>0, <1>7, <2>2 DEF Enqueue, At, Replacing
<1>8. CASE Abort(b)
  BY <1>0, <1>8 DEF Abort, BuildStates, Replacing
<1>9. CASE CutShort(b)
  BY <1>0, <1>9 DEF CutShort, BuildStates, Replacing
<1> QED BY <1>1, <1>2, <1>3, <1>4, <1>5, <1>6, <1>7, <1>8, <1>9 DEF BuildNext

\* The chunks of a source change by the commits of its own rebuilds only.
LEMMA RowsStand ==
    ASSUME Inv, NEW b \in Builds, BuildNext(b), NEW s \in Sources, ~(Commit(b) /\ build[b].src = s)
    PROVE  ChunksOf(s)' = ChunksOf(s)
<1>1. \A c \in chunks : c \in Chunks /\ c[1] \in Builds /\ build[c[1]].at \in Committed
  BY OfBuild DEF Inv, TypeOK, ChunkInv, RowsInv
<1>2. \A o \in Builds : build[o].at \in Committed => build[o].src # NoSource
  BY DEF Inv, ChunkInv, CallInv, Committed
<1>3. \A o \in Builds : build[o].src # NoSource => build'[o].src = build[o].src
  BY Shape, CommitRows
<1>4. CASE Commit(b)
  <2>1. \A c \in build[b].doomed : build[c[1]].src = build[b].src
    BY DEF Inv, ChunkInv, DoomedInv
  <2>2. \A c \in ChunksBy(b) : build'[c[1]].src = build[b].src
    BY <1>4, ByBuild, CommitRows
  <2>3. chunks' = (chunks \ build[b].doomed) \cup ChunksBy(b) /\ build[b].src # s
    BY <1>4, CommitRows
  <2> QED BY <1>1, <1>2, <1>3, <2>1, <2>2, <2>3 DEF ChunksOf
<1>5. CASE ~Commit(b)
  <2>1. chunks' = chunks
    BY <1>5, Shape DEF WriteWithHook, Reindex
  <2> QED BY <1>1, <1>2, <1>3, <2>1 DEF ChunksOf
<1> QED BY <1>4, <1>5

\* A step that leaves a source, its rebuilds and its chunks alone.
LEMMA QuietKept ==
    ASSUME NEW s, QuietAt(s), text'[s] = text[s], ChunksOf(s)' = ChunksOf(s),
           \A b \in Builds : (build'[b].src = s) <=> (build[b].src = s),
           \A b \in Builds : build[b].src = s => build'[b] = build[b]
    PROVE  QuietAt(s)'
<1>1. \A b \in Builds : AtWork(b, s)' <=> AtWork(b, s)
  BY DEF AtWork
<1>2. \A b \in Builds : AtWork(b, s) => build'[b] = build[b]
  BY DEF AtWork
<1>3. \A b \in Builds : AtWork(b, s)' =>
          /\ build'[b].at # "read" => build'[b].text = text'[s]
          /\ build'[b].at \in {"wait", "write"} => build'[b].doomed = ChunksOf(s)'
  BY <1>1, <1>2 DEF QuietAt
<1>4. ASSUME NEW a \in Builds, build'[a].src = s,
             \A b \in Builds : build'[b].src = s => build'[b].at \notin Replacing \cup {"aborted"}
      PROVE  \E b \in Builds : ChunksOf(s)' = ChunksBy(b) /\ build'[b].text = text'[s]
  <2>1. PICK b \in Builds : ChunksOf(s) = ChunksBy(b) /\ build[b].text = text[s]
    BY <1>4 DEF QuietAt
  <2>2. build[b].src = s
    BY <2>1, ByBuild DEF ChunksOf
  <2> QED BY <2>1, <2>2
<1> QED BY <1>1, <1>3, <1>4 DEF QuietAt, ChunksBy

LEMMA QuietCall ==
    ASSUME Inv, NEW b \in Builds, NEW s \in Sources, Call(b, s), s \notin overlapped'
    PROVE  QuietAt(s)'
<1>1. /\ build'[b].src = s /\ build'[b].at = "read"
      /\ \A o \in Builds \ {b} : build'[o] = build[o]
  BY DEF Call, Inv, TypeOK, BuildStates
<1>2. \A o \in Builds : ~AtWork(o, s)
  BY DEF Call, AtWork
<1>3. \A o \in Builds \ {b} : ~AtWork(o, s)'
  BY <1>1, <1>2 DEF AtWork
<1>4. build'[b].at \in Replacing
  BY <1>1 DEF Replacing
<1> QED BY <1>1, <1>3, <1>4 DEF QuietAt, AtWork

LEMMA QuietStep ==
    ASSUME Inv, QuietInv, NEW b \in Builds, BuildNext(b)
    PROVE  QuietInv'
<1>1. \A o \in Builds \ {b} : build'[o] = build[o]
  BY Shape
<1>2. CASE \E s \in Sources : WriteWithHook(b, s) \/ Reindex(b, s)
  <2>1. PICK s \in Sources : WriteWithHook(b, s) \/ Reindex(b, s)
    BY <1>2
  <2>2. /\ Call(b, s) /\ build'[b].src = s /\ build[b].src = NoSource /\ s # NoSource
        /\ \A t \in Sources : text'[t] >= text[t] /\ text[t] \in Nat
        /\ \A t \in Sources \ {s} : text'[t] = text[t]
        /\ text'[s] > 0
        /\ overlapped \subseteq overlapped'
    <3>1. /\ Call(b, s) /\ build'[b].src = s /\ build[b].src = NoSource /\ s # NoSource
          /\ overlapped \subseteq overlapped'
      BY <2>1, SourcesAssumption DEF WriteWithHook, Reindex, Call, Inv, TypeOK, BuildStates, ChunkInv,
          CallInv, Sources
    <3>2. \A t \in Sources : text[t] \in Nat
      BY SizesAssumption DEF Inv, TypeOK
    <3>3. (text' = text /\ text[s] > 0) \/ text' = [text EXCEPT ![s] = @ + 1]
      BY <2>1 DEF WriteWithHook, Reindex, NewText
    <3> QED BY <3>1, <3>2, <3>3 DEF Inv, TypeOK
  <2>3. \A o \in Builds : build'[o].src # NoSource => text'[build'[o].src] > 0
    <3> SUFFICES ASSUME NEW o \in Builds, build'[o].src # NoSource
                 PROVE  text'[build'[o].src] > 0
      OBVIOUS
    <3>1. CASE o = b
      BY <2>2, <3>1
    <3>2. CASE o # b
      <4>1. build'[o] = build[o] /\ build[o].src \in Sources
        BY <1>1, <3>2, BuildType DEF Inv
      <4> QED BY <2>2, <4>1 DEF QuietInv
    <3> QED BY <3>1, <3>2
  <2>4. ASSUME NEW t \in Sources, t \notin Opaque \cup overlapped' PROVE QuietAt(t)'
    <3>1. CASE t = s
      BY <2>2, <2>4, <3>1, QuietCall
    <3>2. CASE t # s
      <4>1. QuietAt(t)
        BY <2>2, <2>4 DEF QuietInv
      <4>2. ChunksOf(t)' = ChunksOf(t)
        BY <2>1, RowsStand, CommitRows, <2>2, SourcesAssumption DEF Sources
      <4>3. t # NoSource
        BY SourcesAssumption DEF Sources
      <4> QED BY <1>1, <2>2, <3>2, <4>1, <4>2, <4>3, QuietKept
    <3> QED BY <3>1, <3>2
  <2> QED BY <2>3, <2>4 DEF QuietInv
<1>3. CASE ~\E s \in Sources : WriteWithHook(b, s) \/ Reindex(b, s)
  <2>0. /\ build[b].src \in Sources /\ build'[b].src = build[b].src
        /\ text' = text /\ overlapped' = overlapped
    BY <1>3, Shape
  <2> DEFINE s == build[b].src
  <2>1. \A o \in Builds : build'[o].src = build[o].src
    BY <1>1, <2>0
  <2>2. ASSUME NEW t \in Sources, t \notin Opaque \cup overlapped PROVE QuietAt(t)'
    <3>0. QuietAt(t)
      BY <2>2 DEF QuietInv
    <3>1. CASE t # s
      <4>1. ChunksOf(t)' = ChunksOf(t)
        BY <3>1, RowsStand
      <4>2. \A o \in Builds : build[o].src = t => build'[o] = build[o]
        BY <1>1, <3>1
      <4> QED BY <2>0, <2>1, <3>0, <4>1, <4>2, QuietKept
    <3>2. CASE t = s
      <4>0. build[b].src = t /\ build'[b].src = t
        BY <2>0, <3>2
      <4>1. \A o \in Builds \ {b} : AtWork(o, t)' <=> AtWork(o, t)
        BY <1>1, <2>1 DEF AtWork
      <4>2. ASSUME build[b].at \in Replacing, build'[b].at \in Replacing,
                   ChunksOf(t)' = ChunksOf(t),
                   build'[b].at # "read" => build'[b].text = text[t],
                   build'[b].at \in {"wait", "write"} => build'[b].doomed = ChunksOf(t)
            PROVE  QuietAt(t)'
        <5>1. AtWork(b, t) /\ \A o \in Builds \ {b} : ~AtWork(o, t)
          BY <3>0, <4>0, <4>2 DEF QuietAt, AtWork
        <5>2. AtWork(b, t)' /\ \A o \in Builds \ {b} : ~AtWork(o, t)'
          BY <4>0, <4>1, <4>2, <5>1 DEF AtWork
        <5> QED BY <2>0, <4>0, <4>2, <5>2 DEF QuietAt, AtWork
      <4>3. CASE /\ build[b].at = "read" /\ build'[b].at = "delete"
                 /\ build'[b].text = text[t] /\ chunks' = chunks
        <5>1. ChunksOf(t)' = ChunksOf(t)
          BY <4>3, RowsStand, CommitRows
        <5> QED BY <4>2, <4>3, <5>1 DEF Replacing
      <4>4. CASE /\ build[b].at = "delete" /\ build'[b].at = "wait"
                 /\ build'[b].text = build[b].text /\ build'[b].doomed = ChunksOf(t)
        <5>1. ChunksOf(t)' = ChunksOf(t)
          BY <4>4, RowsStand, CommitRows
        <5>2. build[b].text = text[t]
          BY <3>0, <4>0, <4>4 DEF QuietAt, AtWork, Replacing
        <5> QED BY <4>2, <4>4, <5>1, <5>2 DEF Replacing
      <4>5. CASE /\ build[b].at = "wait" /\ build'[b].at = "write"
                 /\ build'[b].text = build[b].text /\ build'[b].doomed = build[b].doomed \cap chunks
        <5>1. ChunksOf(t)' = ChunksOf(t)
          BY <4>5, RowsStand, CommitRows
        <5>2. build[b].text = text[t] /\ build[b].doomed = ChunksOf(t)
          BY <3>0, <4>0, <4>5 DEF QuietAt, AtWork, Replacing
        <5>3. ChunksOf(t) \subseteq chunks
          BY DEF ChunksOf
        <5> QED BY <4>2, <4>5, <5>1, <5>2, <5>3 DEF Replacing
      <4>6. CASE /\ Commit(b) /\ build'[b].text = build[b].text
                 /\ build'[b].at \in {"mark", "enqueue"}
        <5>1. build[b].at = "write" /\ AtWork(b, t)
          BY <4>0, <4>6 DEF Commit, At, AtWork, Replacing
        <5>2. build[b].text = text[t] /\ build[b].doomed = ChunksOf(t)
          BY <3>0, <5>1 DEF QuietAt
        <5>3. /\ chunks' = (chunks \ build[b].doomed) \cup ChunksBy(b)
              /\ \A c \in chunks : c[1] # b /\ build'[c[1]] = build[c[1]]
          BY <4>6, CommitRows
        <5>4. ChunksOf(t)' = ChunksBy(b)
          BY <4>0, <5>2, <5>3, ByBuild DEF ChunksOf
        <5>5. \A o \in Builds : ~AtWork(o, t)'
          BY <3>0, <4>1, <4>6, <5>1 DEF QuietAt, AtWork, Replacing
        <5> QED BY <2>0, <4>6, <5>2, <5>4, <5>5 DEF QuietAt
      <4>7. CASE /\ build[b].at \notin Replacing \cup {"aborted"}
                 /\ build'[b].at \notin Replacing \cup {"aborted"}
                 /\ build'[b].text = build[b].text /\ chunks' = chunks
        <5>1. ChunksOf(t)' = ChunksOf(t)
          BY <4>7, RowsStand, CommitRows DEF Replacing
        <5>2. \A o \in Builds : AtWork(o, t)' <=> AtWork(o, t)
          BY <4>1, <4>7 DEF AtWork
        <5>3. \A o \in Builds : AtWork(o, t) => build'[o] = build[o]
          BY <1>1, <4>7 DEF AtWork
        <5>4. \A o \in Builds : build'[o].text = build[o].text
          BY <1>1, <4>7
        <5>5. ASSUME \A o \in Builds : build'[o].src = t => build'[o].at \notin Replacing \cup {"aborted"}
              PROVE  \E o \in Builds : ChunksOf(t) = ChunksBy(o) /\ build[o].text = text[t]
          <6>1. \A o \in Builds : build[o].src = t => build[o].at \notin Replacing \cup {"aborted"}
            BY <1>1, <2>1, <4>7, <5>5
          <6> QED BY <3>0, <4>0, <6>1 DEF QuietAt
        <5> QED BY <2>0, <3>0, <5>1, <5>2, <5>3, <5>4, <5>5 DEF QuietAt
      <4>8. CASE build'[b].at = "aborted" /\ chunks' = chunks
        <5>1. ChunksOf(t)' = ChunksOf(t)
          BY <4>8, RowsStand, CommitRows DEF After
        <5>2. ~AtWork(b, t)'
          BY <4>8 DEF AtWork, Replacing
        <5>3. \A o \in Builds : AtWork(o, t)' => AtWork(o, t) /\ build'[o] = build[o]
          BY <1>1, <4>1, <5>2
        <5> QED BY <2>0, <3>0, <4>0, <4>8, <5>1, <5>3 DEF QuietAt
      <4> QED BY <1>3, <2>2, <3>2, <4>3, <4>4, <4>5, <4>6, <4>7, <4>8, Shape
    <3> QED BY <3>1, <3>2
  <2>3. \A o \in Builds : build'[o].src # NoSource => text'[build'[o].src] > 0
    BY <2>0, <2>1 DEF QuietInv
  <2> QED BY <2>0, <2>2, <2>3 DEF QuietInv
<1> QED BY <1>2, <1>3

\* With it, the invariant of quiet sources is inductive.
LEMMA QuietIsKept ==
    /\ Init => QuietInv
    /\ Inv /\ QuietInv /\ [Next]_vars => QuietInv'
<1>1. ASSUME Init PROVE QuietInv
  <2>1. \A b \in Builds : build[b].src = NoSource
    BY <1>1 DEF Init, NotCalled
  <2>2. \A s \in Sources : s # NoSource
    BY SourcesAssumption DEF Sources
  <2> QED BY <2>1, <2>2 DEF QuietInv, QuietAt, AtWork
<1>2. ASSUME Inv, QuietInv, [Next]_vars PROVE QuietInv'
  <2>1. CASE UNCHANGED <<text, chunks, build, overlapped>>
    BY <1>2, <2>1 DEF QuietInv, QuietAt, AtWork, ChunksOf
  <2>2. ASSUME NEW r \in Records, InsertWithoutHook(r) PROVE QuietInv'
    <3>1. text[r] = 0 /\ r # NoSource /\ r \in Sources
      BY <1>2, <2>2, SourcesAssumption, SizesAssumption DEF InsertWithoutHook, NewText, Inv, TypeOK, Sources
    <3>2. \A b \in Builds : build[b].src # r
      BY <1>2, <3>1 DEF QuietInv
    <3>3. \A s \in Sources \ {r} : text'[s] = text[s]
      BY <1>2, <2>2 DEF InsertWithoutHook, NewText, Inv, TypeOK
    <3>4. build' = build /\ chunks' = chunks /\ overlapped' = overlapped
      BY <2>2 DEF InsertWithoutHook
    <3>5. \A b \in Builds : build'[b].src # NoSource => text'[build'[b].src] > 0
      BY <1>2, <3>2, <3>3, <3>4, BuildType DEF QuietInv, Inv
    <3>6. ASSUME NEW s \in Sources, s \notin Opaque \cup overlapped PROVE QuietAt(s)'
      <4>1. CASE s = r
        BY <3>2, <3>4, <4>1 DEF QuietAt, AtWork
      <4>2. CASE s # r
        <5>1. QuietAt(s) /\ ChunksOf(s)' = ChunksOf(s)
          BY <1>2, <3>4, <3>6 DEF QuietInv, ChunksOf
        <5> QED BY <3>3, <3>4, <4>2, <5>1, QuietKept
      <4> QED BY <4>1, <4>2
    <3> QED BY <3>4, <3>5, <3>6 DEF QuietInv
  <2>3. ASSUME NEW c \in Chunks, EmbedStores(c) \/ EmbedFails(c) PROVE QuietInv'
    BY <2>1, <2>3 DEF EmbedStores, EmbedFails
  <2>4. CASE UNCHANGED vars
    BY <2>1, <2>4 DEF vars
  <2> QED BY <1>2, <2>2, <2>3, <2>4, QuietStep DEF Next
<1> QED BY <1>1, <1>2

-----------------------------------------------------------------------------
(* The results.                                                             *)

\* Every variable keeps its type, whatever the sources, calls and sizes.
THEOREM TypeCorrect == Spec => []TypeOK
<1>1. Inv => TypeOK
  BY DEF Inv
<1> QED BY InitInv, StepInv, <1>1, PTL DEF Spec

\* The inductive invariant: what a DELETE holds are whole rebuilds of its own
\* source, and the chunks in the table are whole rebuilds.
THEOREM ChunksSound == Spec => []ChunkInv
<1>1. Inv => ChunkInv
  BY DEF Inv
<1> QED BY InitInv, StepInv, <1>1, PTL DEF Spec

\* However rebuilds of READ COMMITTED transactions overlap, retrieval sees all
\* the pieces of a rebuild or none (chunks.Service: the transaction of DELETE
\* and INSERTs).
THEOREM ReadersSeeWholeRebuilds == Spec => []WholeRebuilds
<1>1. Inv => WholeRebuilds
  BY DEF Inv, ChunkInv, RowsInv, WholeRebuilds
<1> QED BY InitInv, StepInv, <1>1, PTL DEF Spec

\* A record whose chunks_rebuilt_at is set, so that the backfill skips it, has
\* chunks, unless nothing can be extracted from it.
THEOREM MarkedRecordsChunked == Spec => []MarkedRecordsAreChunked
<1>1. Inv => MarkedRecordsAreChunked
  BY DEF Inv, ChunkInv
<1> QED BY InitInv, StepInv, <1>1, PTL DEF Spec

\* Every chunk has its embedding or something that will bring it, the calls that
\* broke off after the commit and the tasks asynq gave up on excepted.
THEOREM EmbeddingsAccounted == Spec => []EmbeddingAccounted
<1>1. Inv => EmbeddingAccounted
  BY DEF Inv, ChunkInv
<1> QED BY InitInv, StepInv, <1>1, PTL DEF Spec

\* A source with chunks never has none in a later state: overlapping rebuilds
\* may leave too many chunks of a source, never too few.
THEOREM StaysInRetrieval == Spec => NeverLeavesRetrieval
<1>1. Inv /\ [Next]_vars => [\A s \in Sources : ChunksOf(s) # {} => ChunksOf(s)' # {}]_vars
  <2> SUFFICES ASSUME Inv, Next, NEW s \in Sources, ChunksOf(s) # {}
               PROVE  ChunksOf(s)' # {}
    OBVIOUS
  <2>1. PICK c \in chunks : build[c[1]].src = s
    BY DEF ChunksOf
  <2>2. c \in Chunks /\ c[1] \in Builds /\ build[c[1]].at \in Committed
    BY <2>1, OfBuild DEF Inv, TypeOK, ChunkInv, RowsInv
  <2>3. CASE \E b \in Builds : Commit(b)
    BY <2>3, CommitRows
  <2>4. CASE chunks' = chunks /\ build'[c[1]].src = build[c[1]].src
    BY <2>1, <2>4 DEF ChunksOf
  <2>5. ASSUME NEW b \in Builds, BuildNext(b), ~Commit(b)
        PROVE  chunks' = chunks /\ build'[c[1]].src = build[c[1]].src
    <3>1. c[1] = b => build[b].at # "idle"
      BY <2>2 DEF Committed
    <3>2. ASSUME NEW t \in Sources, Call(b, t)
          PROVE  build'[c[1]].src = build[c[1]].src
      BY <2>2, <3>1, <3>2 DEF Call, Inv, TypeOK, BuildStates
    <3>3. CASE \E t \in Sources : WriteWithHook(b, t) \/ Reindex(b, t)
      BY <3>2, <3>3 DEF WriteWithHook, Reindex
    <3>0. build \in [Builds -> BuildStates]
      BY DEF Inv, TypeOK
    <3>4. CASE ReadText(b)
      BY <2>2, <3>0, <3>4 DEF ReadText, BuildStates
    <3>5. CASE DeleteSnapshot(b)
      BY <2>2, <3>0, <3>5 DEF DeleteSnapshot, BuildStates
    <3>6. CASE DeleteLocks(b)
      BY <2>2, <3>0, <3>6 DEF DeleteLocks, BuildStates
    <3>7. CASE Mark(b)
      BY <2>2, <3>0, <3>7 DEF Mark, BuildStates
    <3>8. CASE Enqueue(b)
      <4>1. PICK p \in build[b].todo :
              build' = [build EXCEPT ![b].todo = @ \ {p},
                                     ![b].at = IF build[b].todo = {p} THEN "done" ELSE "enqueue"]
        BY <3>8 DEF Enqueue
      <4>2. build'[c[1]].src = build[c[1]].src
        BY <2>2, <3>0, <4>1 DEF BuildStates
      <4> QED BY <3>8, <4>2 DEF Enqueue
    <3>9. CASE Abort(b)
      BY <2>2, <3>0, <3>9 DEF Abort, BuildStates
    <3>10. CASE CutShort(b)
      BY <2>2, <3>0, <3>10 DEF CutShort, BuildStates
    <3> QED BY <2>5, <3>3, <3>4, <3>5, <3>6, <3>7, <3>8, <3>9, <3>10 DEF BuildNext
  <2>6. CASE \E r \in Records : InsertWithoutHook(r)
    BY <2>4, <2>6 DEF InsertWithoutHook
  <2>7. CASE \E d \in Chunks : EmbedStores(d) \/ EmbedFails(d)
    BY <2>4, <2>7 DEF EmbedStores, EmbedFails
  <2> QED BY <2>3, <2>4, <2>5, <2>6, <2>7 DEF Next
<1> QED BY InitInv, StepInv, <1>1, PTL DEF Spec, NeverLeavesRetrieval

\* A source whose rebuilds never ran at once and never broke off has, when none is at work,
\* exactly the chunks of one rebuild of its present text (chunks.Service, the hooks of EntityRepo
\* and PersistNormalizedRecord), for any number of sources, calls and pieces.
THEOREM QuietAreExact == Spec => []QuietSourcesAreExact
<1>1. QuietInv => QuietSourcesAreExact
  BY DEF QuietInv, QuietAt, QuietSourcesAreExact
<1> QED BY InitInv, StepInv, QuietIsKept, <1>1, PTL DEF Spec

-----------------------------------------------------------------------------
(* The cache of answers.                                                    *)

\* A copy that met no other reindex is the only one, and present unless a write is yet to read.
CopyInv == \A w \in Writers : writer[w].at = "upsert" /\ ~writer[w].met =>
    /\ \A v \in Writers \ {w} : writer[v].at # "upsert"
    /\ \/ \E v \in Writers : writer[v].at = "read"
       \/ writer[w].copy = entity.text

IndexInv == CopyInv /\ IndexFollowsRow

\* n is at most what an answer for k sees now.
Now(k, n) ==
    /\ k.ns = "search-kw" => n <= entity.pubs
    /\ k.ns = "eff-access" => n <= grants[k.target].changes
    /\ k.ns = "domains" => n = 0

\* What is or will be announced has happened; a request at rest has nothing to announce.
NewsInv ==
    /\ \A k \in Keys : Now(k, told[k])
    /\ \A w \in Writers : writer[w].at = "idle" => writer[w].call = "patch"
    /\ \A w \in Writers, k \in Keys :
          Concerns(writer[w].call, writer[w].user, k) => Now(k, writer[w].news)

\* Requests ask for the keys of the plan, and only a search goes to the index.
AskedInv ==
    /\ \A k \in Keys : store[k].kept => k \in plan.keys
    /\ \A r \in Readers :
          /\ reader[r].at # "idle" => reader[r].key \in plan.keys
          /\ reader[r].at \in {"index", "hydrate"} => reader[r].key.ns = "search-kw"

\* An answer for k that saw less than n is kept, or on its way to be.
Old(k, n) ==
    \/ store[k].kept /\ store[k].saw < n
    \/ \E r \in Readers :
          reader[r].key = k /\ reader[r].at \in {"filter", "set"} /\ reader[r].answer.saw < n

\* The drop of w has done with k.
Due(w, k) ==
    /\ writer[w].at \in {"drop", "unmirror"} /\ Concerns(writer[w].call, writer[w].user, k)
    /\ k \notin writer[w].todo /\ ~(writer[w].at = "unmirror" /\ writer[w].key = k)

CoverInv ==
    /\ \A k \in Keys : Old(k, told[k]) => k \in escaped
    /\ \A w \in Writers, k \in Keys : Due(w, k) /\ Old(k, writer[w].news) => k \in escaped

CacheInv == CacheTypeOK /\ IndexInv /\ NewsInv /\ AskedInv /\ CoverInv /\ EntriesAreMirrored

LEMMA SomeKey == AnyKey \in Keys /\ (CHOOSE u \in Users : TRUE) \in Users
<1>1. PICK k \in Keys : TRUE
  BY KeysAssumption
<1>2. k.asker \in Users
  BY <1>1, KeysAssumption DEF KeysNamed
<1>3. AnyKey \in Keys
  BY <1>1, Zenon DEF AnyKey
<1> QED BY <1>2, <1>3, Zenon

ReaderStates == [at : Reading, key : Keys, answer : Answers]
WriterStates == [at : Writing, call : Calls, user : Users, copy : 0..MaxWrites,
                 met : BOOLEAN, news : 0..MaxWrites, todo : SUBSET Keys, key : Keys]

LEMMA CacheFields ==
    ASSUME CacheTypeOK
    PROVE  /\ reader \in [Readers -> ReaderStates] /\ writer \in [Writers -> WriterStates]
           /\ store \in [Keys -> Answers] /\ told \in [Keys -> 0..MaxWrites]
           /\ grants \in [Users -> [given : BOOLEAN, changes : 0..MaxWrites]]
           /\ MaxWrites \in Nat
           /\ \A k \in Keys : k.ns \in Namespaces /\ k.asker \in Users /\ k.target \in Users
           /\ \A k \in Keys : told[k] \in Nat /\ store[k].saw \in Nat
           /\ \A r \in Readers : /\ reader[r].key \in Keys /\ reader[r].answer.saw \in Nat
                                 /\ reader[r].answer \in Answers
           /\ \A w \in Writers : writer[w].news \in Nat /\ writer[w].user \in Users
           /\ entity.pubs \in Nat /\ \A u \in Users : grants[u].changes \in Nat
<1>1. reader \in [Readers -> ReaderStates] /\ writer \in [Writers -> WriterStates]
  BY DEF CacheTypeOK, ReaderStates, WriterStates
<1>2. /\ MaxWrites \in Nat
      /\ \A k \in Keys : k.ns \in Namespaces /\ k.asker \in Users /\ k.target \in Users
  BY KeysAssumption DEF KeysNamed
<1>3. \A n \in 0..MaxWrites : n \in Nat
  BY <1>2
<1>4. \A r \in Readers : /\ reader[r].key \in Keys /\ reader[r].answer.saw \in Nat
                         /\ reader[r].answer \in Answers
  BY <1>1, <1>3 DEF ReaderStates, Answers
<1>5. \A w \in Writers : writer[w].news \in Nat /\ writer[w].user \in Users
  BY <1>1, <1>3 DEF WriterStates
<1> QED BY <1>1, <1>2, <1>3, <1>4, <1>5 DEF CacheTypeOK, Answers

LEMMA Resting ==
    /\ AtRest \in WriterStates /\ AtRest.at = "idle" /\ AtRest.call = "patch" /\ NoAnswer \in Answers
    /\ AtRest.key = AnyKey /\ AtRest.todo = {} /\ AtRest.met = FALSE /\ AtRest.news = 0
    /\ NoAnswer.kept = FALSE
    /\ [at |-> "idle", key |-> AnyKey, answer |-> NoAnswer] \in ReaderStates
<1>1. 0 \in 0..MaxWrites
  BY KeysAssumption
<1>2. AtRest \in WriterStates
  BY <1>1, SomeKey DEF AtRest, WriterStates, Writing, Calls
<1>3. NoAnswer \in Answers
  BY <1>1 DEF NoAnswer, Answers
<1> QED BY <1>2, <1>3, SomeKey DEF AtRest, NoAnswer, ReaderStates, Reading

LEMMA CacheStart == CacheInit => CacheInv
<1> SUFFICES ASSUME CacheInit PROVE CacheInv OBVIOUS
<1>0. 0 \in 0..MaxWrites
  BY KeysAssumption
<1>1. /\ \A r \in Readers : reader[r].at = "idle"
      /\ \A w \in Writers : writer[w] = AtRest
      /\ \A k \in Keys : store[k] = NoAnswer /\ told[k] = 0
      /\ entity.text = 0 /\ entity.pubs = 0 /\ doc = 0 /\ \A u \in Users : grants[u].changes = 0
  BY DEF CacheInit
<1>2. CacheTypeOK
  BY <1>0, Resting DEF CacheInit, CacheTypeOK, ReaderStates, WriterStates
<1>3. IndexInv
  BY <1>1, Resting DEF IndexInv, CopyInv, IndexFollowsRow
<1>4. NewsInv /\ AskedInv
  BY <1>1, <1>2, Resting, CacheFields DEF NewsInv, AskedInv, Now, Concerns
<1>5. CoverInv /\ EntriesAreMirrored
  BY <1>1, Resting DEF CoverInv, Old, Due, EntriesAreMirrored
<1> QED BY <1>2, <1>3, <1>4, <1>5 DEF CacheInv

-----------------------------------------------------------------------------
(* The requests that read.                                                  *)

LEMMA Reads ==
    ASSUME CacheTypeOK, NEW r \in Readers, NEW step \in Reading, NEW answer \in Answers,
           Read(r, step, answer)
    PROVE  /\ reader' \in [Readers -> ReaderStates]
           /\ reader'[r].at = step /\ reader'[r].key = reader[r].key /\ reader'[r].answer = answer
           /\ \A q \in Readers \ {r} : reader'[q] = reader[q]
BY CacheFields DEF Read, ReaderStates

\* What a step of a GET makes of its state, of the two maps and of what escaped.
LEMMA ServeShape ==
    ASSUME CacheInv, NEW r \in Readers, Serve(r)
    PROVE  /\ \A q \in Readers \ {r} : reader'[q] = reader[q]
           /\ reader' \in [Readers -> ReaderStates]
           /\ UNCHANGED written
           /\ reader'[r].at # "idle" => reader'[r].key \in plan.keys
           /\ reader'[r].at \in {"index", "hydrate"} => reader'[r].key.ns = "search-kw"
           /\ reader[r].at # "idle" => reader'[r].key = reader[r].key
           /\ \/ /\ UNCHANGED <<store, mirror, escaped>> /\ reader'[r].at # "idle"
                 /\ reader'[r].at \in {"filter", "set"} => reader[r].at # "idle"
                 /\ reader'[r].at \in {"filter", "set"} =>
                       \/ reader[r].at = "filter" /\ reader'[r].answer.saw = reader[r].answer.saw
                       \/ reader[r].key.ns = "search-kw" /\ reader'[r].answer.saw = entity.pubs
                       \/ /\ reader[r].key.ns # "search-kw"
                          /\ reader'[r].answer.saw = grants[reader[r].key.target].changes
              \/ /\ mirror' = mirror \ {reader[r].key} /\ reader'[r].at = "compute"
                 /\ reader[r].at = "missed" /\ UNCHANGED <<store, escaped>>
              \/ /\ reader[r].at = "set" /\ reader'[r].at = "mirror"
                 /\ store' = [store EXCEPT ![reader[r].key] = reader[r].answer]
                 /\ UNCHANGED <<mirror, escaped>>
              \/ /\ reader[r].at = "mirror" /\ reader'[r].at = "idle"
                 /\ mirror' = mirror \cup {reader[r].key} /\ UNCHANGED <<store, escaped>>
              \/ /\ reader'[r].at = "idle" /\ UNCHANGED <<store, mirror>> /\ reader[r].at # "idle"
                 /\ escaped' = IF store[reader[r].key].kept /\ reader[r].key \notin mirror
                               THEN escaped \cup {reader[r].key} ELSE escaped
<1> USE DEF CacheInv
<1>0. /\ reader[r].key \in Keys /\ reader[r].answer \in Answers /\ NoAnswer \in Answers
      /\ reader[r].at # "idle" => reader[r].key \in plan.keys
      /\ entity.pubs \in 0..MaxWrites /\ reader[r].key.target \in Users /\ reader[r].key.asker \in Users
  BY CacheFields, Resting DEF CacheTypeOK, AskedInv
<1>1. \A step \in Reading, answer \in Answers : Read(r, step, answer) =>
          /\ reader' \in [Readers -> ReaderStates]
          /\ reader'[r].at = step /\ reader'[r].key = reader[r].key /\ reader'[r].answer = answer
          /\ \A q \in Readers \ {r} : reader'[q] = reader[q]
  BY Reads
<1>2. ASSUME NEW k \in plan.keys, Get(r, k)
      PROVE  /\ reader' \in [Readers -> ReaderStates]
             /\ reader[r].at = "idle" /\ reader'[r].at = "missed" /\ reader'[r].key = k
             /\ \A q \in Readers \ {r} : reader'[q] = reader[q]
  <2>1. k \in Keys
    BY KeysAssumption DEF CacheTypeOK
  <2>2. [at |-> "missed", key |-> k, answer |-> NoAnswer] \in ReaderStates
    BY <1>0, <2>1 DEF ReaderStates, Reading
  <2> QED BY <1>2, <2>2, CacheFields DEF Get
<1>3. CASE \E k \in plan.keys : Get(r, k)
  <2>1. PICK k \in plan.keys : Get(r, k)
    BY <1>3
  <2> QED BY <2>1, <1>2 DEF Get
<1>4. CASE GetTidies(r)
  BY <1>0, <1>1, <1>4 DEF GetTidies, Reading
<1>5. CASE Compute(r)
  <2>1. /\ grants[reader[r].key.target].changes \in 0..MaxWrites
        /\ grants[reader[r].key.target].given \in BOOLEAN
    BY <1>0, CacheFields
  <2>2. PICK answer : answer = [saw |-> grants[reader[r].key.target].changes,
                                hit |-> grants[reader[r].key.target].given, kept |-> TRUE]
    OBVIOUS
  <2>3. answer \in Answers /\ answer.saw = grants[reader[r].key.target].changes
    BY <2>1, <2>2 DEF Answers
  <2>4. Read(r, "set", answer)
    BY <1>5, <2>2 DEF Compute
  <2> QED BY <1>0, <1>1, <1>5, <2>3, <2>4 DEF Compute, Reading
<1>6. ASSUME NEW found \in BOOLEAN, NEW step \in Reading,
             Read(r, step, [saw |-> entity.pubs, hit |-> found, kept |-> TRUE])
      PROVE  /\ reader' \in [Readers -> ReaderStates]
             /\ reader'[r].at = step /\ reader'[r].key = reader[r].key
             /\ reader'[r].answer.saw = entity.pubs
             /\ \A q \in Readers \ {r} : reader'[q] = reader[q]
  <2>1. PICK answer : answer = [saw |-> entity.pubs, hit |-> found, kept |-> TRUE]
    OBVIOUS
  <2>2. answer \in Answers /\ answer.saw = entity.pubs
    BY <1>0, <2>1 DEF Answers
  <2> QED BY <1>1, <1>6, <2>1, <2>2
<1>7. CASE SearchDomains(r)
  <2>1. CASE grants[reader[r].key.asker].given
    BY <1>0, <1>1, <1>7, <2>1 DEF SearchDomains, Reading
  <2>2. CASE ~grants[reader[r].key.asker].given
    BY <1>0, <1>1, <1>6, <1>7, <2>2 DEF SearchDomains, Reading
  <2> QED BY <2>1, <2>2
<1>8. CASE SearchIndex(r)
  <2>0. reader[r].key.ns = "search-kw"
    BY <1>8 DEF SearchIndex, AskedInv
  <2>1. CASE Read(r, "hydrate", NoAnswer)
    BY <1>0, <1>1, <1>8, <2>0, <2>1 DEF SearchIndex, Reading
  <2>2. CASE Read(r, "set", [saw |-> entity.pubs, hit |-> FALSE, kept |-> TRUE])
    BY <1>0, <1>1, <1>6, <1>8, <2>0, <2>2 DEF SearchIndex, Reading
  <2> QED BY <1>8, <2>1, <2>2 DEF SearchIndex
<1>9. CASE Hydrate(r)
  BY <1>0, <1>1, <1>6, <1>9 DEF Hydrate, Reading, AskedInv
<1>10. CASE SearchRows(r)
  <2>0. reader[r].key.ns = "search-kw"
    BY <1>10 DEF SearchRows, AskedInv
  <2>1. PICK found \in BOOLEAN, step \in {"filter", "set"} :
            Read(r, step, [saw |-> entity.pubs, hit |-> found, kept |-> TRUE])
    BY <1>10 DEF SearchRows
  <2> QED BY <1>0, <1>1, <1>6, <1>10, <2>0, <2>1 DEF SearchRows, Reading
<1>11. CASE FilterHits(r)
  <2>1. grants[reader[r].key.asker].given \in BOOLEAN
    BY <1>0, CacheFields
  <2>2. PICK answer \in Answers : Read(r, "set", answer) /\ answer.saw = reader[r].answer.saw
    BY <1>0, <1>11, <2>1 DEF FilterHits, Answers
  <2> QED BY <1>0, <1>1, <1>11, <2>2 DEF FilterHits, Reading
<1>12. CASE Set(r)
  BY <1>0, <1>1, <1>12 DEF Set, Reading
<1>13. CASE SetMirrors(r)
  BY <1>0, <1>1, <1>13 DEF SetMirrors, Reading
<1>14. CASE ReadFails(r)
  BY <1>0, <1>1, <1>14 DEF ReadFails, Reading
<1> QED BY <1>3, <1>4, <1>5, <1>7, <1>8, <1>9, <1>10, <1>11, <1>12, <1>13, <1>14 DEF Serve

\* What no GET changes: what there is to announce, and which drop has done with which key.
LEMMA WritersStand ==
    ASSUME UNCHANGED written
    PROVE  /\ IndexInv => IndexInv'
           /\ NewsInv => NewsInv'
           /\ \A w \in Writers, k \in Keys : Due(w, k)' <=> Due(w, k)
BY DEF written, IndexInv, CopyInv, IndexFollowsRow, NewsInv, Now, Due, Concerns

\* Old answers stay under cover when no step makes one and none loses its cover.
LEMMA CoverStands ==
    ASSUME CacheInv, UNCHANGED written,
           \A k \in Keys : \A n \in Nat : Now(k, n) /\ Old(k, n)' => Old(k, n),
           \A k \in Keys : \A n \in Nat : Old(k, n)' /\ k \in escaped => k \in escaped'
    PROVE  CoverInv'
<1>1. ASSUME NEW k \in Keys, NEW n \in Nat, n = told[k], Old(k, n)' PROVE k \in escaped'
  BY <1>1 DEF CacheInv, CoverInv, NewsInv
<1>2. ASSUME NEW k \in Keys, NEW w \in Writers, NEW n \in Nat, n = writer[w].news,
             Due(w, k), Old(k, n)'
      PROVE  k \in escaped'
  <2>1. Now(k, n)
    BY <1>2 DEF CacheInv, NewsInv, Due
  <2> QED BY <1>2, <2>1 DEF CacheInv, CoverInv
<1>3. ASSUME NEW k \in Keys, Old(k, told[k])' PROVE k \in escaped'
  <2>1. PICK n \in Nat : n = told[k] /\ told'[k] = n
    BY CacheFields DEF CacheInv, written
  <2>2. Old(k, n)'
    BY <1>3, <2>1 DEF Old
  <2> QED BY <1>1, <2>1, <2>2
<1>4. ASSUME NEW k \in Keys, NEW w \in Writers, Due(w, k)', Old(k, writer[w].news)'
      PROVE  k \in escaped'
  <2>1. PICK n \in Nat : n = writer[w].news /\ writer'[w].news = n
    BY CacheFields DEF CacheInv, written
  <2>2. Old(k, n)' /\ Due(w, k)
    BY <1>4, <2>1, WritersStand DEF Old
  <2> QED BY <1>2, <2>1, <2>2
<1> QED BY <1>3, <1>4 DEF CoverInv

LEMMA ServeStep ==
    ASSUME CacheInv, plan' = plan, NEW r \in Readers, Serve(r)
    PROVE  CacheInv'
<1> USE DEF CacheInv
<1>1. PICK k0 \in Keys : k0 = reader[r].key
  BY CacheFields
<1>2. /\ \A q \in Readers \ {r} : reader'[q] = reader[q]
      /\ reader' \in [Readers -> ReaderStates]
      /\ UNCHANGED written
      /\ reader'[r].at # "idle" => reader'[r].key \in plan.keys
      /\ reader'[r].at \in {"index", "hydrate"} => reader'[r].key.ns = "search-kw"
      /\ reader[r].at # "idle" => reader'[r].key = k0
      /\ \/ /\ UNCHANGED <<store, mirror, escaped>> /\ reader'[r].at # "idle"
            /\ reader'[r].at \in {"filter", "set"} => reader[r].at # "idle"
            /\ reader'[r].at \in {"filter", "set"} =>
                  \/ reader[r].at = "filter" /\ reader'[r].answer.saw = reader[r].answer.saw
                  \/ k0.ns = "search-kw" /\ reader'[r].answer.saw = entity.pubs
                  \/ k0.ns # "search-kw" /\ reader'[r].answer.saw = grants[k0.target].changes
         \/ /\ mirror' = mirror \ {k0} /\ reader'[r].at = "compute"
            /\ reader[r].at = "missed" /\ UNCHANGED <<store, escaped>>
         \/ /\ reader[r].at = "set" /\ reader'[r].at = "mirror"
            /\ store' = [store EXCEPT ![k0] = reader[r].answer]
            /\ UNCHANGED <<mirror, escaped>>
         \/ /\ reader[r].at = "mirror" /\ reader'[r].at = "idle"
            /\ mirror' = mirror \cup {k0} /\ UNCHANGED <<store, escaped>>
         \/ /\ reader'[r].at = "idle" /\ UNCHANGED <<store, mirror>> /\ reader[r].at # "idle"
            /\ escaped' = IF store[k0].kept /\ k0 \notin mirror THEN escaped \cup {k0} ELSE escaped
  BY <1>1, ServeShape
<1>3. escaped \subseteq escaped' /\ escaped' \subseteq escaped \cup {k0}
  BY <1>2
<1>4. \/ store' = store
      \/ reader[r].at = "set" /\ store' = [store EXCEPT ![k0] = reader[r].answer]
  BY <1>2
<1>5. CacheTypeOK'
  <2>1. store' \in [Keys -> Answers]
    BY <1>4, CacheFields
  <2>2. mirror' \subseteq Keys /\ escaped' \subseteq Keys
    BY <1>2, <1>3 DEF CacheTypeOK
  <2> QED BY <1>2, <2>1, <2>2 DEF CacheTypeOK, ReaderStates, written
<1>6. AskedInv'
  <2>1. \A k \in Keys : store'[k].kept => k \in plan.keys
    BY <1>1, <1>4, CacheFields DEF AskedInv
  <2> QED BY <1>2, <2>1 DEF AskedInv
<1>7. ASSUME NEW k \in Keys, NEW n \in Nat, Now(k, n), Old(k, n)' PROVE Old(k, n)
  <2>1. CASE store'[k].kept /\ store'[k].saw < n
    <3>1. CASE store'[k] = store[k]
      BY <2>1, <3>1 DEF Old
    <3>2. CASE k = k0 /\ reader[r].at = "set" /\ store'[k] = reader[r].answer
      BY <1>1, <2>1, <3>2 DEF Old
    <3> QED BY <1>4, <3>1, <3>2, CacheFields
  <2>2. ASSUME NEW q \in Readers, reader'[q].key = k, reader'[q].at \in {"filter", "set"},
               reader'[q].answer.saw < n
        PROVE  Old(k, n)
    <3>1. CASE q # r
      BY <1>2, <2>2, <3>1 DEF Old
    <3>2. CASE q = r
      <4>0. n > 0 /\ k.ns \in Namespaces /\ reader'[r].answer.saw \in Nat
        BY <1>5, <2>2, <3>2, CacheFields DEF CacheTypeOK, Answers
      <4>1. k = k0
        BY <1>2, <2>2, <3>2
      <4>2. CASE reader[r].at = "filter" /\ reader'[r].answer.saw = reader[r].answer.saw
        BY <1>1, <2>2, <3>2, <4>1, <4>2 DEF Old
      <4>3. CASE k0.ns = "search-kw" /\ reader'[r].answer.saw = entity.pubs
        BY <1>2, <1>7, <2>2, <3>2, <4>0, <4>1, <4>3, CacheFields DEF Now
      <4>4. CASE k0.ns # "search-kw" /\ reader'[r].answer.saw = grants[k0.target].changes
        BY <1>2, <1>7, <2>2, <3>2, <4>0, <4>1, <4>4, CacheFields DEF Now, Namespaces
      <4> QED BY <1>2, <2>2, <3>2, <4>2, <4>3, <4>4
    <3> QED BY <3>1, <3>2
  <2> QED BY <1>7, <2>1, <2>2 DEF Old
<1>8. CoverInv'
  BY <1>2, <1>3, <1>7, CoverStands
<1>9. EntriesAreMirrored'
  <2>1. ASSUME NEW k \in Keys, store'[k].kept, k \notin mirror', k \notin escaped'
        PROVE  \E q \in Readers : reader'[q].at # "idle" /\ reader'[q].key = k
    <3>1. CASE k = k0 /\ reader'[r].at # "idle" /\ reader[r].at # "idle"
      BY <1>2, <3>1
    <3>2. CASE k # k0
      <4>1. store[k].kept /\ k \notin mirror /\ k \notin escaped
        BY <1>2, <1>3, <1>4, <2>1, <3>2, CacheFields
      <4>2. PICK q \in Readers : reader[q].at # "idle" /\ reader[q].key = k
        BY <4>1 DEF EntriesAreMirrored, Busy
      <4>3. q # r
        BY <1>1, <3>2, <4>2
      <4> QED BY <1>2, <4>2, <4>3
    <3>3. CASE k = k0 /\ reader[r].at = "idle"
      <4>1. store[k].kept /\ k \notin mirror /\ k \notin escaped
        BY <1>2, <1>3, <1>4, <2>1, <3>3, CacheFields
      <4>2. PICK q \in Readers : reader[q].at # "idle" /\ reader[q].key = k
        BY <4>1 DEF EntriesAreMirrored, Busy
      <4> QED BY <1>2, <3>3, <4>2
    <3>4. CASE k = k0 /\ reader'[r].at = "idle"
      <4>1. \/ k \in mirror'
            \/ store' = store /\ mirror' = mirror /\ (store[k0].kept /\ k0 \notin mirror => k0 \in escaped')
        BY <1>2, <3>4
      <4> QED BY <2>1, <3>4, <4>1
    <3> QED BY <3>1, <3>2, <3>3, <3>4
  <2> QED BY <2>1 DEF EntriesAreMirrored, Busy
<1> QED BY <1>2, <1>5, <1>6, <1>8, <1>9, WritersStand

-----------------------------------------------------------------------------
(* The requests that write: the reindex and the announcement.               *)

\* Another request's state as a reindex leaves it: it may have been met.
Undisturbed(v) ==
    /\ writer'[v].at = writer[v].at /\ writer'[v].call = writer[v].call
    /\ writer'[v].user = writer[v].user /\ writer'[v].news = writer[v].news
    /\ writer'[v].todo = writer[v].todo /\ writer'[v].key = writer[v].key

LEMMA Meets ==
    ASSUME CacheTypeOK, NEW w \in Writers, NEW it \in WriterStates, Meeting(w, it)
    PROVE  /\ writer' \in [Writers -> WriterStates] /\ writer'[w] = it
           /\ \A v \in Writers \ {w} :
                 /\ Undisturbed(v) /\ writer'[v].copy = writer[v].copy
                 /\ writer'[v].met \in {writer[v].met, TRUE}
                 /\ writer[v].at = "upsert" => writer'[v].met = TRUE
<1>1. writer \in [Writers -> WriterStates]
  BY CacheFields
<1>2. \A v \in Writers \ {w} :
          writer'[v] = IF v \in Holding(w) THEN [writer[v] EXCEPT !.met = TRUE] ELSE writer[v]
  BY DEF Meeting
<1>3. \A v \in Writers : [writer[v] EXCEPT !.met = TRUE] \in WriterStates
  BY <1>1 DEF WriterStates
<1>4. writer' \in [Writers -> WriterStates] /\ writer'[w] = it
  BY <1>1, <1>3 DEF Meeting
<1>5. ASSUME NEW v \in Writers \ {w}
      PROVE  /\ Undisturbed(v) /\ writer'[v].copy = writer[v].copy
             /\ writer'[v].met \in {writer[v].met, TRUE}
             /\ writer[v].at = "upsert" => writer'[v].met = TRUE
  <2>1. CASE v \in Holding(w)
    <3>1. writer'[v] = [writer[v] EXCEPT !.met = TRUE]
      BY <1>2, <2>1
    <3> QED BY <1>1, <3>1 DEF WriterStates, Undisturbed
  <2>2. CASE v \notin Holding(w)
    <3>1. writer'[v] = writer[v] /\ writer[v].at # "upsert"
      BY <1>2, <2>2 DEF Holding
    <3> QED BY <3>1 DEF Undisturbed
  <2> QED BY <2>1, <2>2
<1> QED BY <1>4, <1>5

LEMMA Dropped ==
    ASSUME CacheTypeOK, NEW call \in Calls, NEW u \in Users, NEW n \in 0..MaxWrites
    PROVE  /\ Dropping(call, u, n) \in WriterStates
           /\ Dropping(call, u, n).at = "drop" /\ Dropping(call, u, n).call = call
           /\ Dropping(call, u, n).user = u /\ Dropping(call, u, n).news = n
           /\ \A k \in plan.keys : Concerns(call, u, k) => k \in Dropping(call, u, n).todo
<1>1. plan.keys \subseteq Keys
  BY KeysAssumption DEF CacheTypeOK
<1>2. PICK todo \in SUBSET Keys : todo = {k \in plan.keys : Matches(call, u, k)}
  BY <1>1
<1>3. Dropping(call, u, n) = [AtRest EXCEPT !.at = "drop", !.call = call, !.user = u, !.news = n,
                                            !.todo = todo]
  BY <1>2 DEF Dropping
<1>4. \A k \in plan.keys : Concerns(call, u, k) => k \in todo
  BY <1>2 DEF Concerns, Matches
<1> QED BY <1>3, <1>4, Resting DEF WriterStates, Writing

\* A step that at most starts to announce something that has happened.
LEMMA Announces ==
    ASSUME CacheInv, UNCHANGED <<plan, store, mirror, reader, told, escaped>>,
           NEW w \in Writers, NEW it \in WriterStates, writer'[w] = it,
           \A v \in Writers \ {w} : Undisturbed(v),
           entity'.pubs \in Nat, entity'.pubs >= entity.pubs,
           \A u \in Users : grants'[u].changes \in Nat /\ grants'[u].changes >= grants[u].changes,
           it.at = "idle" => it.call = "patch",
           it.at \in {"drop", "unmirror"} =>
              it.at = "drop" /\ \A k \in plan.keys : Concerns(it.call, it.user, k) => k \in it.todo,
           \A k \in Keys : Concerns(it.call, it.user, k) => Now(k, it.news)'
    PROVE  NewsInv' /\ AskedInv' /\ CoverInv' /\ EntriesAreMirrored'
<1> USE DEF CacheInv
<1>1. ASSUME NEW k \in Keys, NEW n \in Nat, Now(k, n) PROVE Now(k, n)'
  BY <1>1, CacheFields DEF Now
<1>2. NewsInv'
  <2>1. ASSUME NEW k \in Keys PROVE Now(k, told[k])'
    <3>1. PICK n \in Nat : n = told[k] /\ n = told'[k]
      BY CacheFields
    <3>2. Now(k, n)
      BY <3>1 DEF NewsInv
    <3> QED BY <1>1, <3>1, <3>2 DEF Now
  <2>2. ASSUME NEW v \in Writers, NEW k \in Keys, Concerns(writer'[v].call, writer'[v].user, k)
        PROVE  Now(k, writer[v].news)'
    <3>1. CASE v = w
      <4>1. Now(k, it.news)'
        BY <2>2, <3>1
      <4> QED BY <3>1, <4>1 DEF Now
    <3>2. CASE v # w
      <4>1. PICK n \in Nat : n = writer[v].news /\ n = writer'[v].news
        BY <3>2, CacheFields DEF Undisturbed
      <4>2. Now(k, n)
        BY <2>2, <3>2, <4>1 DEF NewsInv, Undisturbed
      <4> QED BY <1>1, <4>1, <4>2 DEF Now
    <3> QED BY <3>1, <3>2
  <2>3. \A v \in Writers : writer'[v].at = "idle" => writer'[v].call = "patch"
    BY DEF NewsInv, Undisturbed
  <2> QED BY <2>1, <2>2, <2>3 DEF NewsInv, Concerns
<1>3. AskedInv'
  BY DEF AskedInv
<1>4. EntriesAreMirrored'
  BY DEF EntriesAreMirrored, Busy
<1>5. CoverInv'
  <2>1. \A k \in Keys : Old(k, told[k])' => k \in escaped
    BY DEF Old, CoverInv
  <2>2. ASSUME NEW v \in Writers, NEW k \in Keys, Due(v, k)', Old(k, writer[v].news)'
        PROVE  k \in escaped
    <3>1. CASE v = w
      <4>1. k \notin plan.keys
        BY <2>2, <3>1 DEF Due, Concerns
      <4>2. ~store[k].kept /\ \A r \in Readers : reader[r].at # "idle" => reader[r].key # k
        BY <4>1 DEF AskedInv
      <4> QED BY <2>2, <4>2 DEF Old
    <3>2. CASE v # w
      BY <2>2, <3>2 DEF Due, Undisturbed, Old, CoverInv
    <3> QED BY <3>1, <3>2
  <2> QED BY <2>1, <2>2 DEF CoverInv
<1> QED BY <1>2, <1>3, <1>4, <1>5

\* The types of what such a step leaves alone.
LEMMA Announced ==
    ASSUME CacheInv, UNCHANGED <<plan, store, mirror, reader, told, escaped>>,
           writer' \in [Writers -> WriterStates],
           entity' \in [text : 0..MaxWrites, life : {"draft", "published"}, pubs : 0..MaxWrites],
           doc' \in 0..MaxWrites, astray' \in BOOLEAN,
           grants' \in [Users -> [given : BOOLEAN, changes : 0..MaxWrites]]
    PROVE  CacheTypeOK'
BY DEF CacheInv, CacheTypeOK, WriterStates

LEMMA PatchStep ==
    ASSUME CacheInv, plan' = plan, NEW w \in Writers, Patch(w) \/ Publish(w)
    PROVE  CacheInv'
<1> USE DEF CacheInv
<1>1. PICK it : it = writer'[w]
  OBVIOUS
<1>2. /\ it \in WriterStates /\ it.at = "read" /\ writer[w].at = "idle"
      /\ writer' \in [Writers -> WriterStates]
      /\ \A v \in Writers \ {w} : writer'[v] = writer[v]
      /\ entity' \in [text : 0..MaxWrites, life : {"draft", "published"}, pubs : 0..MaxWrites]
      /\ entity'.pubs >= entity.pubs
      /\ \/ it.call = writer[w].call
         \/ it.call = "publish" /\ it.news = entity'.pubs
      /\ UNCHANGED <<doc, grants, store, mirror, reader, told, escaped, astray>>
  <2>0. /\ entity \in [text : 0..MaxWrites, life : {"draft", "published"}, pubs : 0..MaxWrites]
        /\ entity.text \in Nat /\ entity.pubs \in Nat /\ MaxWrites \in Nat
    BY CacheFields DEF CacheTypeOK
  <2>1. CASE Patch(w)
    <3>1. PICK life \in {entity.life, "draft"} : entity' = [entity EXCEPT !.text = @ + 1, !.life = life]
      BY <2>1 DEF Patch
    <3>2. entity.text + 1 \in 0..MaxWrites
      BY <2>0, <2>1 DEF Patch
    <3>3. entity' \in [text : 0..MaxWrites, life : {"draft", "published"}, pubs : 0..MaxWrites]
      BY <2>0, <3>1, <3>2
    <3>4. entity'.pubs = entity.pubs
      BY <2>0, <3>1
    <3>5. /\ writer[w].at = "idle" /\ writer' = [writer EXCEPT ![w].at = "read"]
          /\ UNCHANGED <<doc, grants, store, mirror, reader, told, escaped, astray>>
      BY <2>1 DEF Patch
    <3>6. /\ it \in WriterStates /\ it.at = "read" /\ it.call = writer[w].call
          /\ writer' \in [Writers -> WriterStates]
          /\ \A v \in Writers \ {w} : writer'[v] = writer[v]
      BY <1>1, <3>5, CacheFields DEF WriterStates, Writing
    <3> QED BY <2>0, <3>3, <3>4, <3>5, <3>6
  <2>2. CASE Publish(w)
    <3>1. entity.pubs + 1 \in 0..MaxWrites
      BY <2>0, <2>2 DEF Publish
    <3>2. /\ entity' \in [text : 0..MaxWrites, life : {"draft", "published"}, pubs : 0..MaxWrites]
          /\ entity'.pubs = entity.pubs + 1
      BY <2>0, <2>2, <3>1 DEF Publish
    <3>3. /\ writer[w].at = "idle"
          /\ writer' = [writer EXCEPT ![w].at = "read", ![w].call = "publish", ![w].news = entity.pubs + 1]
          /\ UNCHANGED <<doc, grants, store, mirror, reader, told, escaped, astray>>
      BY <2>2 DEF Publish
    <3>4. /\ it \in WriterStates /\ it.at = "read" /\ it.call = "publish" /\ it.news = entity.pubs + 1
          /\ writer' \in [Writers -> WriterStates]
          /\ \A v \in Writers \ {w} : writer'[v] = writer[v]
      <4>1. PICK n \in 0..MaxWrites : n = entity.pubs + 1
        BY <3>1
      <4>2. writer \in [Writers -> WriterStates]
        BY CacheFields
      <4>3. writer' = [writer EXCEPT ![w].at = "read", ![w].call = "publish", ![w].news = n]
        BY <3>3, <4>1
      <4>4. it \in WriterStates /\ it.at = "read" /\ it.call = "publish" /\ it.news = n
        BY <1>1, <4>2, <4>3 DEF WriterStates, Writing, Calls
      <4>5. writer' \in [Writers -> WriterStates] /\ \A v \in Writers \ {w} : writer'[v] = writer[v]
        BY <1>1, <4>2, <4>3, <4>4
      <4> QED BY <4>1, <4>4, <4>5
    <3>5. it.news = entity'.pubs /\ entity'.pubs >= entity.pubs
      <4>1. entity.pubs \in Nat
        BY <2>0
      <4> QED BY <3>2, <3>4, <4>1
    <3> QED BY <3>2, <3>3, <3>4, <3>5
  <2> QED BY <2>1, <2>2
<1>3. \A v \in Writers \ {w} : Undisturbed(v)
  BY <1>2 DEF Undisturbed
<1>4. ASSUME NEW k \in Keys, Concerns(it.call, it.user, k) PROVE Now(k, it.news)'
  <2>1. writer[w].call = "patch"
    BY <1>2 DEF NewsInv
  <2>2. it.call = "publish" /\ it.news = entity'.pubs /\ k.ns = "search-kw"
    BY <1>2, <1>4, <2>1 DEF Concerns
  <2>3. entity'.pubs \in Nat
    BY <1>2, CacheFields
  <2> QED BY <2>2, <2>3 DEF Now
<1>5. \A u \in Users : grants'[u].changes \in Nat /\ grants'[u].changes >= grants[u].changes
  BY <1>2, CacheFields
<1>6. entity'.pubs \in Nat
  BY <1>2, CacheFields
<1>7. CacheTypeOK'
  BY <1>2, Announced DEF CacheTypeOK
<1>8. IndexInv'
  <2>1. writer'[w].at = "read"
    BY <1>1, <1>2
  <2>2. \A v \in Writers : writer'[v].at = "upsert" => v # w /\ writer'[v] = writer[v]
    BY <1>2, <2>1
  <2>3. \A v \in Writers \ {w} : writer[v].at = writer'[v].at
    BY <1>2
  <2>4. CopyInv'
    BY <1>2, <2>1, <2>2, <2>3 DEF IndexInv, CopyInv
  <2>5. IndexFollowsRow'
    BY <2>1 DEF IndexFollowsRow
  <2> QED BY <2>4, <2>5 DEF IndexInv
<1> QED BY <1>1, <1>2, <1>3, <1>4, <1>5, <1>6, <1>7, <1>8, Announces

\* The steps of a reindex: the row and the grants stay as they are.
LEMMA ReindexStep ==
    ASSUME CacheInv, plan' = plan, NEW w \in Writers, ReadRow(w) \/ Upsert(w) \/ ReindexFails(w)
    PROVE  CacheInv'
<1> USE DEF CacheInv
<1>0. /\ writer \in [Writers -> WriterStates] /\ writer[w] \in WriterStates
      /\ entity.text \in 0..MaxWrites /\ writer[w].at \in {"read", "upsert"}
      /\ UNCHANGED <<entity, grants, store, mirror, reader, told, escaped>>
      /\ writer[w].user \in Users /\ writer[w].news \in 0..MaxWrites /\ writer[w].call \in Calls
      /\ writer[w].copy \in 0..MaxWrites /\ writer[w].met \in BOOLEAN
  BY CacheFields DEF CacheTypeOK, ReadRow, Upsert, ReindexFails, WriterStates
<1>1. PICK next : next = Reindexed(writer[w])
  OBVIOUS
<1>2. /\ next \in WriterStates /\ next.at \in {"idle", "drop"}
      /\ next.at = "idle" => next.call = "patch"
      /\ next.at = "drop" => \A k \in plan.keys : Concerns(next.call, next.user, k) => k \in next.todo
      /\ \A k \in Keys : Concerns(next.call, next.user, k) => Now(k, next.news)
  <2>1. CASE writer[w].call = "publish"
    <3>1. next = Dropping("publish", writer[w].user, writer[w].news)
      BY <1>1, <2>1 DEF Reindexed
    <3> QED BY <1>0, <2>1, <3>1, Dropped DEF Calls, NewsInv
  <2>2. CASE writer[w].call # "publish"
    <3>1. next = AtRest
      BY <1>1, <2>2 DEF Reindexed
    <3> QED BY <3>1, Resting DEF Concerns
  <2> QED BY <2>1, <2>2
<1>3. \A it \in WriterStates : Meeting(w, it) =>
        /\ writer' \in [Writers -> WriterStates] /\ writer'[w] = it
        /\ \A v \in Writers \ {w} :
              /\ Undisturbed(v) /\ writer'[v].copy = writer[v].copy
              /\ writer'[v].met \in {writer[v].met, TRUE}
              /\ writer[v].at = "upsert" => writer'[v].met = TRUE
  BY Meets
<1>4. ASSUME NEW it \in WriterStates, writer'[w] = it, writer' \in [Writers -> WriterStates],
             \A v \in Writers \ {w} : Undisturbed(v), doc' \in 0..MaxWrites, astray' \in BOOLEAN,
             it.at = "idle" => it.call = "patch",
             it.at \in {"drop", "unmirror"} =>
                it.at = "drop" /\ \A k \in plan.keys : Concerns(it.call, it.user, k) => k \in it.todo,
             \A k \in Keys : Concerns(it.call, it.user, k) => Now(k, it.news)
      PROVE  CacheTypeOK' /\ NewsInv' /\ AskedInv' /\ CoverInv' /\ EntriesAreMirrored'
  <2>1. \A k \in Keys : Concerns(it.call, it.user, k) => Now(k, it.news)'
    BY <1>0, <1>4 DEF Now
  <2>2. /\ entity'.pubs \in Nat /\ entity'.pubs >= entity.pubs
        /\ \A u \in Users : grants'[u].changes \in Nat /\ grants'[u].changes >= grants[u].changes
    BY <1>0, CacheFields
  <2>3. CacheTypeOK'
    BY <1>0, <1>4, Announced DEF CacheTypeOK
  <2> QED BY <1>0, <1>4, <2>1, <2>2, <2>3, Announces
<1>5. CASE ReadRow(w)
  <2>1. PICK met \in BOOLEAN : met = (Holding(w) # {})
    BY Zenon
  <2>2. PICK it : it = [writer[w] EXCEPT !.at = "upsert", !.copy = entity.text, !.met = met]
    OBVIOUS
  <2>3. /\ it \in WriterStates /\ it.at = "upsert" /\ it.copy = entity.text /\ it.met = met
        /\ it.call = writer[w].call /\ it.user = writer[w].user /\ it.news = writer[w].news
    BY <1>0, <2>2 DEF WriterStates, Writing
  <2>4. Meeting(w, it) /\ doc' = doc /\ astray' = astray
    BY <1>5, <2>1, <2>2 DEF ReadRow
  <2>5. CacheTypeOK' /\ NewsInv' /\ AskedInv' /\ CoverInv' /\ EntriesAreMirrored'
    <3>1. \A k \in Keys : Concerns(it.call, it.user, k) => Now(k, it.news)
      BY <2>3 DEF NewsInv
    <3> QED BY <1>3, <1>4, <2>3, <2>4, <3>1 DEF CacheTypeOK
  <2>6. CopyInv'
    <3>1. ASSUME NEW v \in Writers, writer'[v].at = "upsert", ~writer'[v].met
          PROVE  v = w /\ met = FALSE
      BY <1>3, <2>3, <2>4, <3>1 DEF Undisturbed
    <3>2. ASSUME met = FALSE, NEW v \in Writers \ {w} PROVE writer'[v].at # "upsert"
      BY <1>3, <2>1, <2>3, <2>4, <3>2 DEF Holding, Undisturbed
    <3> QED BY <1>0, <1>3, <2>3, <2>4, <3>1, <3>2 DEF CopyInv
  <2>7. IndexFollowsRow'
    BY <1>3, <2>3, <2>4 DEF IndexFollowsRow
  <2> QED BY <2>5, <2>6, <2>7 DEF IndexInv
<1>6. CASE Upsert(w)
  <2>1. /\ writer[w].at = "upsert" /\ doc' = writer[w].copy /\ astray' = writer[w].met
        /\ writer'[w] = next /\ writer' \in [Writers -> WriterStates]
        /\ \A v \in Writers \ {w} : writer'[v] = writer[v]
    BY <1>0, <1>1, <1>2, <1>6 DEF Upsert
  <2>2. CacheTypeOK' /\ NewsInv' /\ AskedInv' /\ CoverInv' /\ EntriesAreMirrored'
    <3>1. \A v \in Writers \ {w} : Undisturbed(v)
      BY <2>1 DEF Undisturbed
    <3> QED BY <1>0, <1>2, <1>4, <2>1, <3>1
  <2>3. CopyInv'
    <3>1. \A v \in Writers : writer'[v].at = "upsert" => v # w /\ writer'[v] = writer[v]
      BY <1>2, <2>1
    <3>2. \A v \in Writers : writer'[v].at = "upsert" => writer'[v].met
      BY <2>1, <3>1 DEF IndexInv, CopyInv
    <3> QED BY <3>2 DEF CopyInv
  <2>4. IndexFollowsRow'
    <3>1. ASSUME \A v \in Writers : writer'[v].at \notin {"read", "upsert"}, ~writer[w].met
          PROVE  writer[w].copy = entity.text
      <4>1. \A v \in Writers : writer[v].at # "read"
        BY <2>1, <3>1
      <4> QED BY <2>1, <3>1, <4>1 DEF IndexInv, CopyInv
    <3> QED BY <1>0, <2>1, <3>1 DEF IndexFollowsRow
  <2> QED BY <2>2, <2>3, <2>4 DEF IndexInv
<1>7. CASE ReindexFails(w)
  <2>1. Meeting(w, next) /\ doc' = doc /\ astray' = TRUE
    BY <1>1, <1>7 DEF ReindexFails
  <2>2. CacheTypeOK' /\ NewsInv' /\ AskedInv' /\ CoverInv' /\ EntriesAreMirrored'
    BY <1>2, <1>3, <1>4, <2>1 DEF CacheTypeOK
  <2>3. CopyInv'
    <3>1. \A v \in Writers : writer'[v].at = "upsert" => writer'[v].met
      BY <1>2, <1>3, <2>1 DEF Undisturbed
    <3> QED BY <3>1 DEF CopyInv
  <2>4. IndexFollowsRow'
    BY <2>1 DEF IndexFollowsRow
  <2> QED BY <2>2, <2>3, <2>4 DEF IndexInv
<1> QED BY <1>5, <1>6, <1>7

\* Requests that are at no reindex before and after a step leave what they know of it.
LEMMA IndexStands ==
    ASSUME IndexInv, UNCHANGED <<entity, doc, astray>>,
           \A v \in Writers :
              \/ writer'[v] = writer[v]
              \/ writer[v].at \notin {"read", "upsert"} /\ writer'[v].at \notin {"read", "upsert"}
    PROVE  IndexInv'
<1>1. \A v \in Writers :
          writer[v].at \in {"read", "upsert"} \/ writer'[v].at \in {"read", "upsert"}
             => writer'[v] = writer[v]
  OBVIOUS
<1>2. CopyInv'
  BY <1>1 DEF IndexInv, CopyInv
<1>3. IndexFollowsRow'
  BY <1>1 DEF IndexInv, IndexFollowsRow
<1> QED BY <1>2, <1>3 DEF IndexInv

LEMMA GrantStep ==
    ASSUME CacheInv, plan' = plan, NEW w \in Writers, NEW u \in Users, ChangeGrant(w, u)
    PROVE  CacheInv'
<1> USE DEF CacheInv
<1>1. PICK given \in BOOLEAN : Changed(u, given)
  BY DEF ChangeGrant
<1>2. /\ grants \in [Users -> [given : BOOLEAN, changes : 0..MaxWrites]]
      /\ grants[u].changes + 1 \in 0..MaxWrites
      /\ \A v \in Users : grants[v].changes \in Nat
  BY CacheFields DEF ChangeGrant
<1>3. /\ grants' \in [Users -> [given : BOOLEAN, changes : 0..MaxWrites]]
      /\ grants'[u].changes = grants[u].changes + 1
      /\ \A v \in Users \ {u} : grants'[v] = grants[v]
  BY <1>1, <1>2 DEF Changed
<1>4. PICK it : it = Dropping("grant", u, grants[u].changes + 1)
  OBVIOUS
<1>5. /\ it \in WriterStates /\ it.at = "drop" /\ it.call = "grant"
      /\ it.user = u /\ it.news = grants[u].changes + 1
      /\ \A k \in plan.keys : Concerns(it.call, it.user, k) => k \in it.todo
  BY <1>2, <1>4, Dropped DEF Calls
<1>6. /\ writer' \in [Writers -> WriterStates] /\ writer'[w] = it
      /\ \A v \in Writers \ {w} : writer'[v] = writer[v]
      /\ UNCHANGED <<entity, doc, store, mirror, reader, told, escaped, astray>>
      /\ writer[w].at = "idle"
  BY <1>4, <1>5, CacheFields DEF ChangeGrant
<1>7. CacheTypeOK'
  BY <1>3, <1>6, Announced DEF CacheTypeOK
<1>8. IndexInv'
  BY <1>5, <1>6, IndexStands
<1>9. \A k \in Keys : Concerns(it.call, it.user, k) => Now(k, it.news)'
  BY <1>2, <1>3, <1>5 DEF Concerns, Now
<1>10. \A v \in Writers \ {w} : Undisturbed(v)
  BY <1>6 DEF Undisturbed
<1>11. \A v \in Users : grants'[v].changes \in Nat /\ grants'[v].changes >= grants[v].changes
  BY <1>2, <1>3
<1>12. entity'.pubs \in Nat /\ entity'.pubs >= entity.pubs
  BY <1>6, CacheFields
<1> QED BY <1>5, <1>6, <1>7, <1>8, <1>9, <1>10, <1>11, <1>12, Announces

\* A change that is not announced makes answers old that nobody claims are not.
LEMMA QuietChange ==
    ASSUME CacheInv, plan' = plan, NEW u \in Users, ChangeQuietly(u)
    PROVE  CacheInv'
<1> USE DEF CacheInv
<1>1. PICK given \in BOOLEAN : Changed(u, given)
  BY DEF ChangeQuietly
<1>2. /\ grants \in [Users -> [given : BOOLEAN, changes : 0..MaxWrites]]
      /\ grants[u].changes + 1 \in 0..MaxWrites
      /\ \A v \in Users : grants[v].changes \in Nat
  BY CacheFields DEF ChangeQuietly
<1>3. /\ grants' \in [Users -> [given : BOOLEAN, changes : 0..MaxWrites]]
      /\ \A v \in Users : grants'[v].changes >= grants[v].changes /\ grants'[v].changes \in Nat
  BY <1>1, <1>2 DEF Changed
<1>4. UNCHANGED <<entity, doc, store, mirror, reader, writer, told, escaped, astray>>
  BY DEF ChangeQuietly
<1>5. CacheTypeOK'
  BY <1>3, <1>4 DEF CacheTypeOK
<1>6. IndexInv'
  BY <1>4, IndexStands
<1>7. NewsInv'
  <2>1. \A k \in Keys : Now(k, told[k])'
    BY <1>3, <1>4, CacheFields DEF NewsInv, Now
  <2>2. \A w \in Writers, k \in Keys :
            Concerns(writer[w].call, writer[w].user, k) => Now(k, writer[w].news)'
    BY <1>3, <1>4, CacheFields DEF NewsInv, Now
  <2> QED BY <1>4, <2>1, <2>2 DEF NewsInv, Concerns
<1>8. AskedInv' /\ CoverInv' /\ EntriesAreMirrored'
  BY <1>4 DEF AskedInv, CoverInv, Old, Due, Concerns, EntriesAreMirrored, Busy
<1> QED BY <1>5, <1>6, <1>7, <1>8

LEMMA ExpireStep ==
    ASSUME CacheInv, plan' = plan, NEW k \in Keys, Expire(k)
    PROVE  CacheInv'
<1> USE DEF CacheInv
<1>1. /\ store' \in [Keys -> Answers] /\ store'[k].kept = FALSE
      /\ \A j \in Keys \ {k} : store'[j] = store[j]
      /\ UNCHANGED written /\ UNCHANGED <<mirror, reader, escaped>>
  BY CacheFields, Resting DEF Expire
<1>2. CacheTypeOK' /\ AskedInv' /\ EntriesAreMirrored'
  BY <1>1 DEF CacheTypeOK, written, AskedInv, EntriesAreMirrored, Busy
<1>3. \A j \in Keys : \A n \in Nat : Old(j, n)' => Old(j, n)
  BY <1>1 DEF Old
<1>4. CoverInv'
  BY <1>1, <1>3, CoverStands
<1> QED BY <1>1, <1>2, <1>4, WritersStand

-----------------------------------------------------------------------------
(* The drop of a prefix, and the end of the process.                        *)

\* An old answer is kept, or a request for its key is under way.
LEMMA OldIsSomewhere ==
    ASSUME CacheTypeOK, NEW k, NEW n, Old(k, n)
    PROVE  Busy(k) \/ store[k].kept
BY DEF Old, Busy

LEMMA VisitStep ==
    ASSUME CacheInv, plan' = plan, NEW w \in Writers, NEW k \in Keys, Visit(w, k)
    PROVE  CacheInv'
<1> USE DEF CacheInv
<1>1. PICK it : it = writer'[w]
  OBVIOUS
<1>2. /\ writer[w] \in WriterStates /\ writer[w].at = "drop"
      /\ it \in WriterStates /\ it.at \in {"drop", "unmirror"} /\ it.call = writer[w].call
      /\ it.user = writer[w].user /\ it.news = writer[w].news /\ it.todo = writer[w].todo \ {k}
      /\ it.at = "unmirror" => it.key = k
      /\ it.at = "drop" => k \notin mirror
      /\ writer' \in [Writers -> WriterStates]
      /\ \A v \in Writers \ {w} : writer'[v] = writer[v]
  <2>0. writer \in [Writers -> WriterStates]
    BY CacheFields
  <2>1. CASE k \in mirror
    <3>1. /\ writer[w].at = "drop"
          /\ writer' = [writer EXCEPT ![w].at = "unmirror", ![w].key = k, ![w].todo = @ \ {k}]
      BY <2>1 DEF Visit
    <3>2. /\ writer[w] \in WriterStates
          /\ it \in WriterStates /\ it.at = "unmirror" /\ it.call = writer[w].call
          /\ it.user = writer[w].user /\ it.news = writer[w].news /\ it.todo = writer[w].todo \ {k}
          /\ it.key = k
      BY <1>1, <2>0, <3>1 DEF WriterStates, Writing
    <3>3. writer' \in [Writers -> WriterStates] /\ \A v \in Writers \ {w} : writer'[v] = writer[v]
      BY <1>1, <2>0, <3>1, <3>2
    <3> QED BY <3>1, <3>2, <3>3
  <2>2. CASE k \notin mirror
    BY <1>1, <2>0, <2>2 DEF Visit, WriterStates, Writing
  <2> QED BY <2>1, <2>2
<1>3. /\ store' \in [Keys -> Answers]
      /\ \A j \in Keys : store'[j] = store[j] \/ store'[j].kept = FALSE
      /\ UNCHANGED <<entity, doc, grants, mirror, reader, told, astray>>
  BY CacheFields, Resting DEF Visit
<1>4. /\ escaped \subseteq escaped' /\ escaped' \subseteq escaped \cup {k}
      /\ Busy(k) \/ (store[k].kept /\ k \notin mirror) => k \in escaped'
  BY DEF Visit
<1>5. CacheTypeOK'
  BY <1>2, <1>3, <1>4 DEF CacheTypeOK, WriterStates
<1>6. IndexInv'
  BY <1>1, <1>2, <1>3, IndexStands
<1>7. NewsInv'
  <2>1. \A v \in Writers : writer'[v].call = writer[v].call /\ writer'[v].user = writer[v].user
                           /\ writer'[v].news = writer[v].news
                           /\ (writer'[v].at = "idle" => writer[v].at = "idle")
    BY <1>1, <1>2
  <2>2. \A v \in Writers, j \in Keys :
            Concerns(writer[v].call, writer[v].user, j) => Now(j, writer[v].news)'
    BY <1>3, <2>1 DEF NewsInv, Now
  <2>3. \A j \in Keys : Now(j, told[j])'
    BY <1>3 DEF NewsInv, Now
  <2> QED BY <2>1, <2>2, <2>3 DEF NewsInv, Concerns
<1>8. AskedInv' /\ EntriesAreMirrored'
  BY <1>3, <1>4 DEF AskedInv, EntriesAreMirrored, Busy
<1>9. \A j \in Keys : \A n \in Nat : Old(j, n)' => Old(j, n)
  BY <1>3 DEF Old
<1>10. CoverInv'
  <2>1. ASSUME NEW j \in Keys, Old(j, told[j])' PROVE j \in escaped'
    <3>1. PICK n \in Nat : n = told[j] /\ n = told'[j]
      BY <1>3, CacheFields
    <3>2. Old(j, n)'
      BY <2>1, <3>1 DEF Old
    <3>3. Old(j, n)
      BY <1>9, <3>2
    <3> QED BY <1>4, <3>1, <3>3 DEF CoverInv
  <2>2. ASSUME NEW v \in Writers, NEW j \in Keys, Due(v, j)', Old(j, writer[v].news)'
        PROVE  j \in escaped'
    <3>1. PICK n \in Nat : n = writer[v].news /\ n = writer'[v].news
      BY <1>1, <1>2, CacheFields
    <3>2. Old(j, n)'
      BY <2>2, <3>1 DEF Old
    <3>3. Old(j, n)
      BY <1>9, <3>2
    <3>4. CASE Due(v, j)
      BY <1>4, <3>1, <3>3, <3>4 DEF CoverInv
    <3>5. CASE ~Due(v, j)
      <4>1. v = w /\ j = k
        BY <1>1, <1>2, <2>2, <3>5 DEF Due
      <4>2. k \notin mirror
        BY <1>1, <1>2, <2>2, <4>1 DEF Due
      <4> QED BY <1>4, <3>3, <4>1, <4>2, OldIsSomewhere
    <3> QED BY <3>4, <3>5
  <2> QED BY <2>1, <2>2 DEF CoverInv
<1> QED BY <1>5, <1>6, <1>7, <1>8, <1>10

LEMMA UnmirrorStep ==
    ASSUME CacheInv, plan' = plan, NEW w \in Writers, Unmirror(w)
    PROVE  CacheInv'
<1> USE DEF CacheInv
<1>1. PICK k \in Keys : k = writer[w].key
  BY CacheFields DEF WriterStates
<1>2. PICK it : it = writer'[w]
  OBVIOUS
<1>3. /\ writer[w].at = "unmirror" /\ it \in WriterStates /\ it.at = "drop"
      /\ it.call = writer[w].call /\ it.user = writer[w].user /\ it.news = writer[w].news
      /\ it.todo = writer[w].todo
      /\ writer' \in [Writers -> WriterStates]
      /\ \A v \in Writers \ {w} : writer'[v] = writer[v]
  BY <1>2, CacheFields, SomeKey DEF Unmirror, WriterStates, Writing
<1>4. /\ mirror' = mirror \ {k}
      /\ UNCHANGED <<entity, doc, grants, store, reader, told, astray>>
      /\ Busy(k) \/ store[k].kept => escaped' = escaped \cup {k}
      /\ ~(Busy(k) \/ store[k].kept) => escaped' = escaped \ {k}
  BY <1>1 DEF Unmirror
<1>5. CacheTypeOK'
  BY <1>3, <1>4 DEF CacheTypeOK, WriterStates
<1>6. IndexInv'
  BY <1>2, <1>3, <1>4, IndexStands
<1>7. NewsInv'
  <2>1. \A v \in Writers : writer'[v].call = writer[v].call /\ writer'[v].user = writer[v].user
                           /\ writer'[v].news = writer[v].news
                           /\ (writer'[v].at = "idle" => writer[v].at = "idle")
    BY <1>2, <1>3
  <2>2. \A v \in Writers, j \in Keys :
            Concerns(writer[v].call, writer[v].user, j) => Now(j, writer[v].news)'
    BY <1>4, <2>1 DEF NewsInv, Now
  <2>3. \A j \in Keys : Now(j, told[j])'
    BY <1>4 DEF NewsInv, Now
  <2> QED BY <2>1, <2>2, <2>3 DEF NewsInv, Concerns
<1>8. AskedInv'
  BY <1>4 DEF AskedInv
<1>9. EntriesAreMirrored'
  <2>1. ASSUME NEW j \in Keys, store[j].kept, j \notin mirror' PROVE Busy(j) \/ j \in escaped'
    <3>1. CASE j = k
      BY <1>4, <2>1, <3>1
    <3>2. CASE j # k
      BY <1>4, <2>1, <3>2 DEF EntriesAreMirrored
    <3> QED BY <3>1, <3>2
  <2> QED BY <1>4, <2>1 DEF EntriesAreMirrored, Busy
<1>10. ASSUME NEW j \in Keys, NEW n \in Nat, Old(j, n), j \in escaped \/ j = k PROVE j \in escaped'
  BY <1>4, <1>10, OldIsSomewhere
<1>11. CoverInv'
  <2>1. ASSUME NEW j \in Keys, Old(j, told[j])' PROVE j \in escaped'
    <3>1. PICK n \in Nat : n = told[j] /\ n = told'[j]
      BY <1>4, CacheFields
    <3>2. Old(j, n)
      BY <1>4, <2>1, <3>1 DEF Old
    <3> QED BY <1>10, <3>1, <3>2 DEF CoverInv
  <2>2. ASSUME NEW v \in Writers, NEW j \in Keys, Due(v, j)', Old(j, writer[v].news)'
        PROVE  j \in escaped'
    <3>1. PICK n \in Nat : n = writer[v].news /\ n = writer'[v].news
      BY <1>2, <1>3, CacheFields
    <3>2. Old(j, n)
      BY <1>4, <2>2, <3>1 DEF Old
    <3>3. CASE Due(v, j)
      BY <1>10, <3>1, <3>2, <3>3 DEF CoverInv
    <3>4. CASE ~Due(v, j)
      <4>1. v = w /\ j = k
        BY <1>1, <1>2, <1>3, <2>2, <3>4 DEF Due
      <4> QED BY <1>10, <3>2, <4>1
    <3> QED BY <3>3, <3>4
  <2> QED BY <2>1, <2>2 DEF CoverInv
<1> QED BY <1>5, <1>6, <1>7, <1>8, <1>9, <1>11

LEMMA DropDoneStep ==
    ASSUME CacheInv, plan' = plan, NEW w \in Writers, DropDone(w)
    PROVE  CacheInv'
<1> USE DEF CacheInv
<1>1. /\ writer[w].at = "drop" /\ writer[w].todo = {}
      /\ writer'[w] = AtRest /\ writer' \in [Writers -> WriterStates]
      /\ \A v \in Writers \ {w} : writer'[v] = writer[v]
      /\ UNCHANGED <<entity, doc, grants, store, mirror, reader, escaped, astray>>
  BY CacheFields, Resting DEF DropDone
<1>2. ASSUME NEW k \in Keys
      PROVE  \/ told'[k] = told[k]
             \/ told'[k] = writer[w].news /\ Concerns(writer[w].call, writer[w].user, k)
  <2>1. told' = [j \in Keys |-> IF Concerns(writer[w].call, writer[w].user, j)
                                THEN IF told[j] > writer[w].news THEN told[j] ELSE writer[w].news
                                ELSE told[j]]
    BY DEF DropDone
  <2>2. CASE Concerns(writer[w].call, writer[w].user, k)
    <3>1. told'[k] = IF told[k] > writer[w].news THEN told[k] ELSE writer[w].news
      BY <2>1, <2>2
    <3> QED BY <2>2, <3>1
  <2>3. CASE ~Concerns(writer[w].call, writer[w].user, k)
    BY <2>1, <2>3
  <2> QED BY <2>2, <2>3
<1>3. CacheTypeOK'
  <2>1. \A k \in Keys : told'[k] \in 0..MaxWrites
    BY <1>2, CacheFields DEF WriterStates
  <2>2. told' = [k \in Keys |-> told'[k]]
    BY DEF DropDone
  <2>3. told' \in [Keys -> 0..MaxWrites]
    BY <2>1, <2>2
  <2> QED BY <1>1, <2>3 DEF CacheTypeOK, WriterStates
<1>4. IndexInv'
  BY <1>1, Resting, IndexStands
<1>5. \A v \in Writers \ {w} : Undisturbed(v)
  BY <1>1 DEF Undisturbed
<1>6. \A k \in Keys : ~Concerns(AtRest.call, AtRest.user, k)
  BY Resting DEF Concerns
<1>7. NewsInv'
  <2>1. ASSUME NEW k \in Keys PROVE Now(k, told[k])'
    <3>1. CASE told'[k] = told[k]
      BY <1>1, <3>1 DEF NewsInv, Now
    <3>2. CASE told'[k] = writer[w].news /\ Concerns(writer[w].call, writer[w].user, k)
      BY <1>1, <3>2 DEF NewsInv, Now
    <3> QED BY <1>2, <3>1, <3>2
  <2>2. ASSUME NEW v \in Writers, NEW k \in Keys, Concerns(writer'[v].call, writer'[v].user, k)
        PROVE  Now(k, writer[v].news)'
    <3>1. v # w
      BY <1>1, <1>6, <2>2
    <3> QED BY <1>1, <2>2, <3>1 DEF NewsInv, Now
  <2>3. \A v \in Writers : writer'[v].at = "idle" => writer'[v].call = "patch"
    BY <1>1, Resting DEF NewsInv
  <2> QED BY <2>1, <2>2, <2>3 DEF NewsInv, Concerns
<1>8. AskedInv' /\ EntriesAreMirrored'
  BY <1>1 DEF AskedInv, EntriesAreMirrored, Busy
<1>9. CoverInv'
  <2>1. ASSUME NEW k \in Keys, Old(k, told[k])' PROVE k \in escaped
    <3>1. CASE told'[k] = told[k]
      BY <1>1, <2>1, <3>1 DEF Old, CoverInv
    <3>2. CASE told'[k] = writer[w].news /\ Concerns(writer[w].call, writer[w].user, k)
      <4>1. Due(w, k)
        BY <1>1, <3>2 DEF Due
      <4>2. Old(k, writer[w].news)
        BY <1>1, <2>1, <3>2 DEF Old
      <4> QED BY <4>1, <4>2 DEF CoverInv
    <3> QED BY <1>2, <3>1, <3>2
  <2>2. ASSUME NEW v \in Writers, NEW k \in Keys, Due(v, k)', Old(k, writer[v].news)'
        PROVE  k \in escaped
    <3>1. v # w
      BY <1>1, <2>2, Resting DEF Due
    <3> QED BY <1>1, <2>2, <3>1 DEF Due, Old, CoverInv
  <2> QED BY <1>1, <2>1, <2>2 DEF CoverInv
<1> QED BY <1>3, <1>4, <1>7, <1>8, <1>9

\* The process that stops loses the cache; the reindexes it had under way are accounted for.
LEMMA StopStep ==
    ASSUME CacheInv, plan' = plan, Stop
    PROVE  CacheInv'
<1> USE DEF CacheInv
<1>1. /\ \A k \in Keys : store'[k] = NoAnswer
      /\ \A r \in Readers : reader'[r].at = "idle"
      /\ \A w \in Writers : writer'[w] = AtRest
      /\ UNCHANGED <<entity, doc, grants, told>>
  BY DEF Stop
<1>2. CacheTypeOK'
  <2>1. reader' \in [Readers -> ReaderStates] /\ writer' \in [Writers -> WriterStates]
    BY Resting DEF Stop
  <2>2. store' \in [Keys -> Answers] /\ mirror' = {} /\ escaped' = {}
    BY Resting DEF Stop
  <2>3. astray' \in BOOLEAN
    <3>1. astray' = (astray \/ \E w \in Writers : writer[w].at \in {"read", "upsert"})
      BY DEF Stop
    <3> QED BY <3>1, Zenon
  <2> QED BY <1>1, <2>1, <2>2, <2>3 DEF CacheTypeOK, ReaderStates, WriterStates
<1>3. IndexInv'
  <2>1. CopyInv'
    BY <1>1, Resting DEF CopyInv
  <2>2. doc = entity.text \/ astray'
    <3>1. CASE \E w \in Writers : writer[w].at \in {"read", "upsert"}
      BY <3>1 DEF Stop
    <3>2. CASE ~\E w \in Writers : writer[w].at \in {"read", "upsert"}
      BY <3>2 DEF Stop, IndexInv, IndexFollowsRow
    <3> QED BY <3>1, <3>2
  <2>3. IndexFollowsRow'
    BY <1>1, <2>2 DEF IndexFollowsRow
  <2> QED BY <2>1, <2>3 DEF IndexInv
<1>4. NewsInv'
  <2>1. \A k \in Keys : Now(k, told[k])'
    BY <1>1 DEF NewsInv, Now
  <2> QED BY <1>1, <2>1, Resting DEF NewsInv, Concerns
<1>5. AskedInv' /\ CoverInv' /\ EntriesAreMirrored'
  BY <1>1, Resting DEF AskedInv, CoverInv, Old, Due, EntriesAreMirrored
<1> QED BY <1>2, <1>3, <1>4, <1>5

LEMMA CacheStep == CacheInv /\ [CacheNext]_cvars => CacheInv'
<1> SUFFICES ASSUME CacheInv, [CacheNext]_cvars PROVE CacheInv' OBVIOUS
<1>1. CASE UNCHANGED cvars
  BY <1>1 DEF cvars, CacheInv, CacheTypeOK, IndexInv, CopyInv, IndexFollowsRow, NewsInv, Now, Concerns,
      AskedInv, CoverInv, Old, Due, EntriesAreMirrored, Busy
<1>2. ASSUME plan' = plan, NEW w \in Writers, Write(w) PROVE CacheInv'
  BY <1>2, PatchStep, ReindexStep, GrantStep, VisitStep, UnmirrorStep, DropDoneStep DEF Write
<1> QED BY <1>1, <1>2, ServeStep, ExpireStep, QuietChange, StopStep DEF CacheNext

-----------------------------------------------------------------------------
(* The results about the cache.                                             *)

\* Every variable keeps its type, for any keys, requests and bound on the writes.
THEOREM CacheTypes == CacheSpec => []CacheTypeOK
<1>1. CacheInv => CacheTypeOK
  BY DEF CacheInv
<1> QED BY CacheStart, CacheStep, <1>1, PTL DEF CacheSpec

\* An answer from before a change that was announced is kept only under a key that escaped the
\* drop (Invalidator.deletePrefix, bigcacheBackend.DeletePrefix), however many drops and requests
\* meet.
THEOREM DropsHold == CacheSpec => []DroppedIsGone
<1>1. CacheInv => DroppedIsGone
  BY DEF CacheInv, CoverInv, Old, DroppedIsGone
<1> QED BY CacheStart, CacheStep, <1>1, PTL DEF CacheSpec

\* An entry that the mirror of the keys lacks has a request under way, or escaped
\* (bigcacheBackend.Get, Set and DeletePrefix).
THEOREM MirrorsHold == CacheSpec => []EntriesAreMirrored
<1>1. CacheInv => EntriesAreMirrored
  BY DEF CacheInv
<1> QED BY CacheStart, CacheStep, <1>1, PTL DEF CacheSpec

\* Between requests the search index has the row's text, unless the last reindex met another one,
\* failed, or was broken off (Service.ReindexEntity).
THEOREM IndexIsCurrent == CacheSpec => []IndexFollowsRow
<1>1. CacheInv => IndexFollowsRow
  BY DEF CacheInv, IndexInv
<1> QED BY CacheStart, CacheStep, <1>1, PTL DEF CacheSpec
=============================================================================
