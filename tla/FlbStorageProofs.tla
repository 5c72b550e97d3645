------------------------- MODULE FlbStorageProofs --------------------------
(***************************************************************************)
(* Proofs about FlbStorage, for any chunks, inputs, outputs, limits, tags  *)
(* and sizes.                                                              *)
(***************************************************************************)
EXTENDS FlbStorage, TLAPS

(* What else is known of a chunk: a name that is free has no fields set,    *)
(* every other chunk has a tag, a chunk with data is counted as soon as a  *)
(* limited output is among its routes, one without data only after it was  *)
(* counted wrong, and a chunk of a task or of the backlog is locked.       *)
Fields ==
  \A c \in Chunks :
    /\ owner[c] = None => ~content[c] /\ ~counted[c] /\ ~locked[c]
    /\ owner[c] # None => tag[c] \in Tags
    /\ Listed(c) /\ content[c] /\ mask[c] \cap Limited # {} => counted[c]
    /\ c \notin drifted /\ ~content[c] => ~counted[c]
    /\ task[c] # "none" \/ owner[c] = Backlog => locked[c]

(* What a release loop still has to look at is in the list it walks.        *)
Walk ==
  /\ pc # "space" \/ out = None => scan = {}
  /\ \A c \in scan : IF stage = "queue" THEN c \in queue[out] ELSE Listed(c)
  /\ pc # "idle" => len > 0

(* The inductive invariant.                                                *)
IInv ==
  /\ TypeOK /\ Fields /\ Walk
  /\ FsExact /\ QueueExact /\ IncomingSurvives /\ UsedSurvives /\ TableLive

-----------------------------------------------------------------------------
(* The first state.                                                        *)

LEMMA InitIInv == Init => IInv
<1> SUFFICES ASSUME Init PROVE IInv
  OBVIOUS
<1> USE StorageInputs, StorageLimits
<1>1. TypeOK
  <2>1. \A c \in Chunks : owner[c] \notin Fs \cup {Backlog, "file", "queued"}
    BY DEF Init
  <2>2. fs \in [Outputs -> [Chunks -> Int]] /\ bl \in [Outputs -> [Chunks -> Int]]
    BY DEF Init
  <2>3. size \in [Chunks -> Nat] /\ owner \in [Chunks -> Inputs \cup {None, "file", "queued"}]
    BY DEF Init
  <2>4. last \in [Inputs -> [Tags -> Chunks \cup {None, Freed}]] /\ tag \in [Chunks -> Tags \cup {None}]
    BY DEF Init
  <2>5. /\ content \in [Chunks -> BOOLEAN] /\ counted \in [Chunks -> BOOLEAN]
        /\ locked \in [Chunks -> BOOLEAN] /\ task \in [Chunks -> {"none", "users", "idle"}]
        /\ mask \in [Chunks -> SUBSET Outputs] /\ queue \in [Outputs -> SUBSET Chunks]
    BY DEF Init
  <2>6. fresh \in BOOLEAN /\ failed \in BOOLEAN
    BY Zenon DEF Init
  <2>7. \A c \in Chunks : owner[c] \in Fs \cup {Backlog, "file", "queued"} => size[c] > 0
    BY <2>1
  <2>8. /\ pc \in {"idle", "space", "write"} /\ cur \in Chunks \cup {None}
        /\ len \in Nat /\ req \in Int
        /\ over \subseteq Outputs /\ out \in Outputs \cup {None}
        /\ stage \in {"global", "queue", "own", "others"}
        /\ scan \subseteq Chunks /\ drifted \subseteq Chunks /\ restarts \in Nat
    BY DEF Init
  <2> QED
    BY <2>2, <2>3, <2>4, <2>5, <2>6, <2>7, <2>8, Zenon DEF TypeOK
<1>2. Fields /\ Walk
  BY DEF Init, Fields, Walk, Listed
<1>3. FsExact
  BY DEF Init, FsExact, Share, Listed
<1>4. QueueExact
  BY DEF Init, QueueExact
<1>5. IncomingSurvives /\ UsedSurvives /\ TableLive
  BY DEF Init, IncomingSurvives, UsedSurvives, TableLive
<1> QED
  BY <1>1, <1>2, <1>3, <1>4, <1>5 DEF IInv

-----------------------------------------------------------------------------
(* Steps that only move the append.                                        *)

(* Without a change of the chunks, the tasks and the counters, only what    *)
(* is said of the append is left to show.                                  *)
LEMMA AppendOnly ==
  ASSUME IInv, UNCHANGED <<chunk, task, book>>, TypeOK', Walk', IncomingSurvives'
  PROVE  IInv'
<1> USE DEF IInv, chunk, book
<1>1. Fields'
  BY DEF Fields, Listed
<1>2. FsExact' /\ QueueExact'
  BY DEF FsExact, Share, Listed, QueueExact
<1>3. UsedSurvives' /\ TableLive'
  BY DEF UsedSurvives, Listed, TableLive
<1> QED
  BY <1>1, <1>2, <1>3

LEMMA OverIsOutputs ==
  ASSUME NEW m \in SUBSET Outputs, NEW n, NEW f
  PROVE  has_overlimit_routes(m, n, f) \in SUBSET Outputs
BY DEF has_overlimit_routes

LEMMA AppendReuseStep ==
  ASSUME IInv, NEW i \in Inputs \ {Backlog}, NEW t \in Tags, NEW n \in Sizes,
         AppendReuse(i, t, n)
  PROVE  IInv'
<1> USE StorageInputs, StorageLimits
<1>0. PICK c \in Found(i, t) :
        ~locked[c] /\ Append(owner[c], c, n, FALSE, mask[c], fs)
  BY DEF AppendReuse
<1>1. c \in Chunks /\ owner[c] \in Inputs \ {Backlog} /\ task[c] = "none"
  <2>1. c \in Chunks /\ Listed(c)
    BY DEF IInv, TypeOK, TableLive, Found, Listed
  <2> QED
    BY <1>0, <2>1 DEF IInv, Fields, Listed
<1>2. UNCHANGED <<chunk, task, book>>
  BY DEF AppendReuse
<1>3. over' \in SUBSET Outputs
  BY <1>0, <1>1, OverIsOutputs DEF Append, IInv, TypeOK
<1>4. TypeOK'
  BY <1>0, <1>1, <1>2, <1>3 DEF IInv, TypeOK, AppendReuse, Append, chunk, book, release
<1>5. Walk'
  BY <1>0, <1>2 DEF IInv, Walk, AppendReuse, Append, chunk, book, release
<1>6. IncomingSurvives'
  BY <1>0, <1>1, <1>2 DEF IncomingSurvives, Append, chunk
<1> QED
  BY <1>2, <1>4, <1>5, <1>6, AppendOnly

LEMMA ReleaseForStep ==
  ASSUME IInv, NEW o \in Outputs, ReleaseFor(o)
  PROVE  IInv'
<1>1. UNCHANGED <<chunk, task, book>>
  BY DEF ReleaseFor
<1>2. cur \in Chunks
  BY DEF IInv, IncomingSurvives, ReleaseFor
<1>3. TypeOK'
  BY <1>1, <1>2 DEF IInv, TypeOK, ReleaseFor, List, chunk, book
<1>4. Walk'
  BY <1>1, StorageInputs DEF IInv, Walk, ReleaseFor, List, Listed, chunk, book
<1>5. IncomingSurvives'
  BY <1>1 DEF IInv, IncomingSurvives, ReleaseFor, chunk
<1> QED
  BY <1>1, <1>3, <1>4, <1>5, AppendOnly

LEMMA ReleaseNextStep ==
  ASSUME IInv, ReleaseNext
  PROVE  IInv'
<1>1. UNCHANGED <<chunk, task, book>>
  BY DEF ReleaseNext
<1>2. stage \in {"global", "queue", "own"} /\ out \in Outputs
  BY DEF IInv, TypeOK, ReleaseNext
<1>3. NextStage[stage] \in {"queue", "own", "others"}
  BY <1>2 DEF NextStage
<1>4. TypeOK'
  BY <1>1, <1>2, <1>3 DEF IInv, TypeOK, ReleaseNext, List, chunk, book
<1>5. cur \in Chunks /\ owner[cur] \in Inputs
  BY DEF IInv, IncomingSurvives, ReleaseNext
<1>6. \A c \in scan' : IF stage' = "queue" THEN c \in queue[out] ELSE Listed(c)
  BY <1>3, <1>5 DEF ReleaseNext, List, Listed
<1>7. Walk'
  BY <1>1, <1>6 DEF IInv, Walk, ReleaseNext, Listed, chunk, book
<1>8. IncomingSurvives'
  BY <1>1 DEF IInv, IncomingSurvives, ReleaseNext, chunk
<1> QED
  BY <1>1, <1>4, <1>7, <1>8, AppendOnly

LEMMA ReleaseEndsStep ==
  ASSUME IInv, ReleaseEnds
  PROVE  IInv'
<1>1. UNCHANGED <<chunk, task, book>>
  BY DEF ReleaseEnds
<1>2. TypeOK'
  BY <1>1 DEF IInv, TypeOK, ReleaseEnds, chunk, book
<1>3. Walk' /\ IncomingSurvives'
  BY <1>1 DEF IInv, Walk, IncomingSurvives, ReleaseEnds, chunk
<1> QED
  BY <1>1, <1>2, <1>3, AppendOnly

LEMMA ReleasePassesStep ==
  ASSUME IInv, NEW c \in Chunks, ReleasePasses(c)
  PROVE  IInv'
<1>1. UNCHANGED <<chunk, task, book>>
  BY DEF ReleasePasses
<1>2. TypeOK'
  BY <1>1 DEF IInv, TypeOK, ReleasePasses, chunk, book
<1>3. Walk' /\ IncomingSurvives'
  BY <1>1 DEF IInv, Walk, Listed, IncomingSurvives, ReleasePasses, chunk, book
<1> QED
  BY <1>1, <1>2, <1>3, AppendOnly

LEMMA AppendPlacedStep ==
  ASSUME IInv, AppendPlaced
  PROVE  IInv'
<1>1. UNCHANGED <<chunk, task, book>>
  BY DEF AppendPlaced
<1>2. TypeOK'
  BY <1>1 DEF IInv, TypeOK, AppendPlaced, release, chunk, book
<1>3. Walk' /\ IncomingSurvives'
  BY <1>1 DEF IInv, Walk, Listed, IncomingSurvives, AppendPlaced, release, chunk, book
<1> QED
  BY <1>1, <1>2, <1>3, AppendOnly

LEMMA WriteFailsStep ==
  ASSUME IInv, WriteFails
  PROVE  IInv'
<1>1. UNCHANGED <<chunk, task, book>>
  BY DEF WriteFails
<1>2. TypeOK'
  BY <1>1 DEF IInv, TypeOK, WriteFails, AppendEnds, release, chunk, book
<1>3. Walk' /\ IncomingSurvives'
  BY <1>1 DEF IInv, Walk, Listed, IncomingSurvives, WriteFails, AppendEnds, release, chunk, book
<1> QED
  BY <1>1, <1>2, <1>3, AppendOnly

-----------------------------------------------------------------------------
(* A chunk is destroyed.                                                   *)

(* The two halves of the type invariant.                                   *)
ChunkTypes ==
  /\ owner \in [Chunks -> Inputs \cup {None, "file", "queued"}]
  /\ tag \in [Chunks -> Tags \cup {None}]
  /\ size \in [Chunks -> Nat]
  /\ \A c \in Chunks : owner[c] \in Fs \cup {Backlog, "file", "queued"} => size[c] > 0
  /\ content \in [Chunks -> BOOLEAN]
  /\ mask \in [Chunks -> SUBSET Outputs]
  /\ counted \in [Chunks -> BOOLEAN]
  /\ locked \in [Chunks -> BOOLEAN]
  /\ task \in [Chunks -> {"none", "users", "idle"}]
  /\ last \in [Inputs -> [Tags -> Chunks \cup {None, Freed}]]
  /\ fs \in [Outputs -> [Chunks -> Int]]
  /\ bl \in [Outputs -> [Chunks -> Int]]
  /\ queue \in [Outputs -> SUBSET Chunks]
  /\ drifted \subseteq Chunks

AppendTypes ==
  /\ pc \in {"idle", "space", "write"}
  /\ cur \in Chunks \cup {None}
  /\ fresh \in BOOLEAN /\ failed \in BOOLEAN
  /\ len \in Nat /\ req \in Int
  /\ over \subseteq Outputs /\ out \in Outputs \cup {None}
  /\ stage \in {"global", "queue", "own", "others"}
  /\ scan \subseteq Chunks
  /\ restarts \in Nat

LEMMA TypeSplit == TypeOK <=> ChunkTypes /\ AppendTypes
BY Zenon DEF TypeOK, ChunkTypes, AppendTypes

(* What is said of chunks alone.                                           *)
ChunkInv == ChunkTypes /\ Fields /\ FsExact /\ QueueExact /\ UsedSurvives /\ TableLive
AppendInv == AppendTypes /\ Walk /\ IncomingSurvives

LEMMA InvSplit == IInv <=> ChunkInv /\ AppendInv
BY TypeSplit DEF IInv, ChunkInv, AppendInv

LEMMA InvJoin ==
  ASSUME ChunkInv', AppendInv'
  PROVE  IInv'
BY DEF IInv, ChunkInv, AppendInv, TypeOK, ChunkTypes, AppendTypes

(* Booked changes the share of one chunk for the limited outputs in m.      *)
LEMMA BookedShares ==
  ASSUME ChunkTypes, NEW c \in Chunks, NEW m, NEW d \in Int
  PROVE  /\ Booked(c, m, d) \in [Outputs -> [Chunks -> Int]]
         /\ \A o \in Outputs, x \in Chunks :
              Booked(c, m, d)[o][x] = IF x = c /\ o \in m \cap Limited THEN fs[o][x] + d
                                      ELSE fs[o][x]
BY DEF ChunkTypes, Booked

(* Nothing of a chunk is left in fs when it is destroyed, unless it was     *)
(* counted wrong.                                                          *)
LEMMA UnbookedShares ==
  ASSUME ChunkInv, NEW c \in Chunks, Listed(c)
  PROVE  /\ Unbooked(c) \in [Outputs -> [Chunks -> Int]]
         /\ \A o \in Outputs, x \in Chunks :
              /\ x # c => Unbooked(c)[o][x] = fs[o][x]
              /\ x = c /\ c \notin drifted => Unbooked(c)[o][x] = 0
<1>1. 0 - size[c] \in Int /\ mask[c] \subseteq Outputs
  BY DEF ChunkInv, ChunkTypes
<1>2. \A o \in Outputs : c \notin drifted => fs[o][c] = Share(o, c)
  BY DEF ChunkInv, FsExact
<1>3. CASE counted[c]
  <2>1. Unbooked(c) = Booked(c, mask[c], 0 - size[c])
    BY <1>3 DEF Unbooked
  <2>2. c \notin drifted => content[c]
    BY <1>3 DEF ChunkInv, Fields
  <2>3. \A o \in Outputs : c \notin drifted =>
          fs[o][c] = IF o \in mask[c] \cap Limited THEN size[c] ELSE 0
    BY <1>2, <2>2 DEF Share
  <2> QED
    BY <1>1, <2>1, <2>3, BookedShares DEF ChunkInv, ChunkTypes
<1>4. CASE ~counted[c]
  <2>1. Unbooked(c) = fs
    BY <1>4 DEF Unbooked
  <2>2. content[c] => mask[c] \cap Limited = {}
    BY <1>4 DEF ChunkInv, Fields
  <2>3. \A o \in Outputs : c \notin drifted => fs[o][c] = 0
    BY <1>2, <2>2 DEF Share
  <2> QED
    BY <2>1, <2>3 DEF ChunkInv, ChunkTypes
<1> QED
  BY <1>3, <1>4

LEMMA TableEntries ==
  ASSUME ChunkTypes, NEW c \in Chunks, NEW e \in {None, Freed}
  PROVE  /\ Entries(c, e) \in [Inputs -> [Tags -> Chunks \cup {None, Freed}]]
         /\ \A i \in Inputs, t \in Tags :
              Entries(c, e)[i][t] = IF last[i][t] = c THEN e ELSE last[i][t]
BY DEF ChunkTypes, Entries

(* Closing a chunk of a list, with its file or without it, keeps everything *)
(* that is said of chunks, if the counters no longer have it, its task ends *)
(* with it and no entry of the table is left dangling that may not be.      *)
LEMMA CloseKeeps ==
  ASSUME ChunkInv, NEW c \in Chunks, Listed(c),
         NEW k \in {None, "file"}, Closed(c, k), k = "file" => size[c] > 0,
         NEW e \in {None, Freed}, last' = Entries(c, e), e = Freed => MayDangle,
         fs' \in [Outputs -> [Chunks -> Int]],
         \A o \in Outputs, x \in Chunks :
           /\ x # c => fs'[o][x] = fs[o][x]
           /\ x = c /\ c \notin drifted' => fs'[o][x] = 0,
         drifted \subseteq drifted', drifted' \subseteq drifted \cup {c},
         task' = [task EXCEPT ![c] = "none"],
         UNCHANGED <<bl, queue>>
  PROVE  ChunkInv'
<1> USE StorageInputs
<1>0. /\ last' \in [Inputs -> [Tags -> Chunks \cup {None, Freed}]]
      /\ \A i \in Inputs, t \in Tags :
           last'[i][t] = IF last[i][t] = c THEN e ELSE last[i][t]
  BY TableEntries DEF ChunkInv
<1>1. ChunkTypes'
  <2>1. /\ tag' \in [Chunks -> Tags \cup {None}] /\ size' \in [Chunks -> Nat]
        /\ owner' \in [Chunks -> Inputs \cup {None, "file", "queued"}]
        /\ mask' \in [Chunks -> SUBSET Outputs]
        /\ task' \in [Chunks -> {"none", "users", "idle"}]
        /\ drifted' \subseteq Chunks
    BY DEF ChunkInv, ChunkTypes, Closed
  <2>2. content' \in [Chunks -> BOOLEAN] /\ counted' \in [Chunks -> BOOLEAN]
        /\ locked' \in [Chunks -> BOOLEAN]
    BY DEF ChunkInv, ChunkTypes, Closed
  <2>3. \A x \in Chunks : owner'[x] \in Fs \cup {Backlog, "file", "queued"} => size'[x] > 0
    BY DEF ChunkInv, ChunkTypes, Closed
  <2> QED
    BY <1>0, <2>1, <2>2, <2>3 DEF ChunkInv, ChunkTypes
<1>2. Fields'
  BY DEF ChunkInv, ChunkTypes, Fields, Listed, Closed
<1>3. FsExact'
  <2> SUFFICES ASSUME NEW o \in Outputs, NEW x \in Chunks, x \notin drifted'
               PROVE  fs'[o][x] = Share(o, x)'
    BY DEF FsExact
  <2>1. CASE x = c
    BY <2>1 DEF ChunkInv, ChunkTypes, Share, Listed, Closed
  <2>2. CASE x # c
    BY <2>2 DEF ChunkInv, ChunkTypes, FsExact, Share, Listed, Closed
  <2> QED
    BY <2>1, <2>2
<1>4. QueueExact'
  BY DEF ChunkInv, ChunkTypes, QueueExact, Listed, Closed
<1>5. UsedSurvives'
  BY DEF ChunkInv, ChunkTypes, UsedSurvives, Listed, Closed
<1>6. TableLive'
  BY <1>0 DEF ChunkInv, ChunkTypes, TableLive, MayDangle, Closed
<1> QED
  BY <1>1, <1>2, <1>3, <1>4, <1>5, <1>6 DEF ChunkInv

LEMMA DestroyKeeps ==
  ASSUME ChunkInv, NEW c \in Chunks, Listed(c),
         destroy(c),
         fs' \in [Outputs -> [Chunks -> Int]],
         \A o \in Outputs, x \in Chunks :
           /\ x # c => fs'[o][x] = fs[o][x]
           /\ x = c /\ c \notin drifted' => fs'[o][x] = 0,
         drifted \subseteq drifted', drifted' \subseteq drifted \cup {c},
         task' = [task EXCEPT ![c] = "none"],
         UNCHANGED <<bl, queue>>
  PROVE  ChunkInv'
<1>1. PICK e \in {None, Freed} : last' = Entries(c, e) /\ (e = Freed => MayDangle)
  <2>1. CASE last' = Unlinked(c)
    BY <2>1, StorageInputs DEF Unlinked
  <2>2. CASE Unloadable(c) /\ last' = Entries(c, Freed)
    BY <2>2 DEF Unloadable, MayDangle
  <2> QED
    BY <2>1, <2>2 DEF destroy
<1>2. PICK k \in {None, "file"} : k = None /\ Closed(c, k)
  BY DEF destroy
<1>3. k = "file" => size[c] > 0
  BY <1>2, StorageInputs
<1> QED
  BY <1>1, <1>2, <1>3, CloseKeeps

LEMMA ChunkSame ==
  ASSUME ChunkInv, UNCHANGED <<chunk, task, book>>
  PROVE  ChunkInv'
<1> USE DEF ChunkInv, chunk, book
<1>1. ChunkTypes'
  BY DEF ChunkTypes
<1>2. Fields' /\ FsExact' /\ QueueExact'
  BY DEF Fields, Listed, FsExact, Share, QueueExact
<1>3. UsedSurvives' /\ TableLive'
  BY DEF UsedSurvives, Listed, TableLive
<1> QED
  BY <1>1, <1>2, <1>3

(* Once an append has ended nothing is said of it.                         *)
LEMMA AppendEndsKeeps ==
  ASSUME AppendInv, AppendEnds, pc # "space" \/ out = None
  PROVE  AppendInv'
<1>1. scan = {} /\ scan' = {}
  BY DEF AppendInv, Walk, AppendEnds, release
<1>2. AppendTypes'
  BY <1>1 DEF AppendInv, AppendTypes, AppendEnds, release
<1>3. Walk' /\ IncomingSurvives'
  BY <1>1 DEF Walk, IncomingSurvives, AppendEnds
<1> QED
  BY <1>2, <1>3 DEF AppendInv

(* Steps between appends leave the append as it is.                        *)
LEMMA IdleKeeps ==
  ASSUME AppendInv, pc = "idle", UNCHANGED <<append, restarts>>
  PROVE  AppendInv'
<1> USE DEF append, release
<1>1. scan = {}
  BY DEF AppendInv, Walk
<1>2. AppendTypes'
  BY DEF AppendInv, AppendTypes
<1>3. Walk' /\ IncomingSurvives'
  BY <1>1 DEF AppendInv, Walk, IncomingSurvives
<1> QED
  BY <1>2, <1>3 DEF AppendInv

(* In the loop over a list, a step on c leaves the other chunks of the loop *)
(* and the chunk of the append where they are.                             *)
LEMMA ReleasesKeeps ==
  ASSUME ChunkInv, AppendInv, NEW c \in Chunks, c # cur,
         pc = "space", c \in scan, Releases(c), out # None,
         \A x \in Chunks \ {c} :
           /\ owner'[x] = owner[x] /\ task'[x] = task[x] /\ locked'[x] = locked[x]
           /\ \A o \in Outputs : x \in queue[o] => x \in queue'[o]
  PROVE  AppendInv'
<1>1. cur \in Chunks \ {c} /\ out \in Outputs /\ scan \subseteq Chunks
  BY DEF AppendInv, AppendTypes, IncomingSurvives
<1>2. req - size[c] \in Int
  BY DEF ChunkInv, ChunkTypes, AppendInv, AppendTypes
<1>3. AppendTypes'
  BY <1>2 DEF AppendInv, AppendTypes, Releases
<1>4. Walk'
  BY <1>1 DEF AppendInv, Walk, Releases, Listed
<1>5. IncomingSurvives'
  BY <1>1 DEF AppendInv, IncomingSurvives, Releases
<1> QED
  BY <1>3, <1>4, <1>5 DEF AppendInv

LEMMA ReleaseGlobalStep ==
  ASSUME IInv, NEW c \in Chunks, ReleaseGlobal(c)
  PROVE  IInv'
<1>1. ChunkInv /\ AppendInv
  BY InvSplit
<1>2. Listed(c) /\ c # cur /\ out # None /\ pc = "space" /\ c \in scan
  BY <1>1 DEF ReleaseGlobal, Scans, safe_delete, AppendInv, Walk
<1>3. task' = [task EXCEPT ![c] = "none"]
  BY <1>1 DEF ReleaseGlobal, TaskDropped, NoUsers, ChunkInv, ChunkTypes
<1>4. destroy(c) /\ fs' = Unbooked(c) /\ UNCHANGED <<bl, queue, drifted>> /\ Releases(c)
  BY DEF ReleaseGlobal
<1>5. ChunkInv'
  BY <1>1, <1>2, <1>3, <1>4, UnbookedShares, DestroyKeeps
<1>6. AppendInv'
  BY <1>1, <1>2, <1>3, <1>4, ReleasesKeeps DEF ChunkInv, ChunkTypes, destroy, Closed
<1> QED
  BY <1>5, <1>6, InvJoin

(* The size is taken out of the counter together with the route.            *)
LEMMA ReleaseLocalStep ==
  ASSUME IInv, NEW c \in Chunks, ReleaseLocal(c)
  PROVE  IInv'
<1>1. ChunkInv /\ AppendInv
  BY InvSplit
<1>2. /\ Listed(c) /\ c # cur /\ out # None /\ out \in Outputs /\ out \in mask[c]
      /\ pc = "space" /\ c \in scan
  BY <1>1 DEF ReleaseLocal, Scans, safe_delete, AppendInv, AppendTypes, Walk
<1>3. /\ UNCHANGED <<bl, queue>> /\ Releases(c)
      /\ fs' = Booked(c, {out}, 0 - size[c])
      /\ drifted' = IF counted[c] THEN drifted ELSE drifted \cup {c}
  BY DEF ReleaseLocal
<1>4. /\ fs' \in [Outputs -> [Chunks -> Int]]
      /\ \A o \in Outputs, x \in Chunks :
           fs'[o][x] = IF x = c /\ o \in {out} \cap Limited THEN fs[o][x] - size[c]
                       ELSE fs[o][x]
  <2>1. 0 - size[c] \in Int /\ ChunkTypes /\ fs \in [Outputs -> [Chunks -> Int]]
        /\ size[c] \in Nat
    BY <1>1 DEF ChunkInv, ChunkTypes
  <2> QED
    BY <2>1, <1>3, BookedShares
<1>5. c \notin drifted' =>
        \A o \in Outputs : fs'[o][c] = IF o \in (mask[c] \ {out}) \cap Limited THEN size[c] ELSE 0
  <2> SUFFICES ASSUME c \notin drifted', NEW o \in Outputs
               PROVE  fs'[o][c] = IF o \in (mask[c] \ {out}) \cap Limited THEN size[c] ELSE 0
    OBVIOUS
  <2>1. counted[c] /\ c \notin drifted
    BY <1>3
  <2>2. content[c]
    BY <1>1, <2>1 DEF ChunkInv, Fields
  <2>3. fs[o][c] = IF o \in mask[c] \cap Limited THEN size[c] ELSE 0
    BY <1>1, <1>2, <2>1, <2>2 DEF ChunkInv, FsExact, Share
  <2>4. size[c] \in Nat
    BY <1>1 DEF ChunkInv, ChunkTypes
  <2> QED
    BY <1>2, <1>4, <2>3, <2>4
<1>6. CASE mask[c] = {out} /\ NoUsers(c)
  <2>1. destroy(c) /\ task' = [task EXCEPT ![c] = "none"]
    BY <1>1, <1>6 DEF ReleaseLocal, TaskDropped, NoUsers, ChunkInv, ChunkTypes
  <2>2. drifted \subseteq drifted' /\ drifted' \subseteq drifted \cup {c}
    BY <1>3
  <2>3. \A o \in Outputs, x \in Chunks :
          /\ x # c => fs'[o][x] = fs[o][x]
          /\ x = c /\ c \notin drifted' => fs'[o][x] = 0
    BY <1>4, <1>5, <1>6
  <2>4. ChunkInv'
    BY <1>1, <1>2, <1>3, <1>4, <2>1, <2>2, <2>3, DestroyKeeps
  <2>5. AppendInv'
    BY <1>1, <1>2, <1>3, <2>1, ReleasesKeeps DEF ChunkInv, ChunkTypes, destroy, Closed
  <2> QED
    BY <2>4, <2>5, InvJoin
<1>7. CASE ~(mask[c] = {out} /\ NoUsers(c))
  <2>1. /\ mask' = [mask EXCEPT ![c] = @ \ {out}]
        /\ UNCHANGED <<owner, tag, size, content, counted, locked, last, task>>
    BY <1>7 DEF ReleaseLocal
  <2>2. ChunkTypes'
    BY <1>1, <1>3, <1>4, <2>1 DEF ChunkInv, ChunkTypes
  <2>3. Fields'
    BY <1>1, <1>3, <2>1 DEF ChunkInv, ChunkTypes, Fields, Listed
  <2>4. FsExact'
    <3> SUFFICES ASSUME NEW o \in Outputs, NEW x \in Chunks, x \notin drifted'
                 PROVE  fs'[o][x] = Share(o, x)'
      BY DEF FsExact
    <3>1. CASE x = c
      <4>1. mask'[c] = mask[c] \ {out} /\ owner'[c] = owner[c] /\ content'[c] = content[c]
        BY <1>1, <2>1 DEF ChunkInv, ChunkTypes
      <4>2. content[c]
        BY <1>1, <1>3, <3>1 DEF ChunkInv, Fields
      <4> QED
        BY <1>2, <1>5, <2>1, <3>1, <4>1, <4>2 DEF Share, Listed
    <3>2. CASE x # c
      BY <1>1, <1>3, <1>4, <2>1, <3>2 DEF ChunkInv, ChunkTypes, FsExact, Share, Listed
    <3> QED
      BY <3>1, <3>2
  <2>5. QueueExact' /\ UsedSurvives' /\ TableLive'
    BY <1>1, <1>3, <2>1 DEF ChunkInv, QueueExact, UsedSurvives, TableLive, Listed
  <2>6. ChunkInv'
    BY <2>2, <2>3, <2>4, <2>5 DEF ChunkInv
  <2>7. AppendInv'
    BY <1>1, <1>2, <1>3, <2>1, ReleasesKeeps
  <2> QED
    BY <2>6, <2>7, InvJoin
<1> QED
  BY <1>6, <1>7

(* A chunk that nobody has a task for is destroyed at the end of an append. *)
LEMMA DestroyCur ==
  ASSUME ChunkInv, AppendInv, pc # "idle",
         destroy(cur) \/ destroy_up(cur),
         fs' = Unbooked(cur), UNCHANGED <<task, bl, queue, drifted>>
  PROVE  ChunkInv'
<1>1. cur \in Chunks /\ Listed(cur) /\ task[cur] = "none"
  BY DEF AppendInv, IncomingSurvives, Listed
<1>2. task' = [task EXCEPT ![cur] = "none"]
  BY <1>1 DEF ChunkInv, ChunkTypes
<1>3. destroy(cur)
  BY DEF destroy, destroy_up
<1> QED
  BY <1>1, <1>2, <1>3, UnbookedShares, DestroyKeeps

LEMMA AppendRefusedStep ==
  ASSUME IInv, AppendRefused
  PROVE  IInv'
<1>1. ChunkInv /\ AppendInv /\ pc = "space" /\ out = None
  BY InvSplit DEF AppendRefused
<1>2. AppendInv'
  BY <1>1, AppendEndsKeeps DEF AppendRefused
<1>3. CASE fresh
  BY <1>1, <1>2, <1>3, DestroyCur, InvJoin DEF AppendRefused
<1>4. CASE ~fresh
  BY <1>1, <1>2, <1>4, ChunkSame, InvJoin DEF AppendRefused, book
<1> QED
  BY <1>3, <1>4

LEMMA WriteFilteredStep ==
  ASSUME IInv, WriteFiltered
  PROVE  IInv'
<1>1. ChunkInv /\ AppendInv /\ pc = "write"
  BY InvSplit DEF WriteFiltered
<1>2. AppendInv'
  BY <1>1, AppendEndsKeeps DEF WriteFiltered
<1>3. CASE content[cur]
  BY <1>1, <1>2, <1>3, ChunkSame, InvJoin DEF WriteFiltered, book
<1>4. CASE ~content[cur]
  BY <1>1, <1>2, <1>4, DestroyCur, InvJoin DEF WriteFiltered
<1> QED
  BY <1>3, <1>4

LEMMA FlushUnroutedStep ==
  ASSUME IInv, NEW c \in Chunks, FlushUnrouted(c)
  PROVE  IInv'
<1>1. ChunkInv /\ AppendInv /\ pc = "idle"
  BY InvSplit DEF FlushUnrouted
<1>2. AppendInv'
  BY <1>1, IdleKeeps DEF FlushUnrouted
<1>3. task' = [task EXCEPT ![c] = "none"]
  BY <1>1 DEF FlushUnrouted, ChunkInv, ChunkTypes
<1>4. ChunkInv'
  <2>1. destroy(c)
    BY DEF FlushUnrouted, destroy, destroy_up
  <2> QED
    BY <1>1, <1>3, <2>1, UnbookedShares, DestroyKeeps DEF FlushUnrouted
<1> QED
  BY <1>2, <1>4, InvJoin

LEMMA TaskEndsStep ==
  ASSUME IInv, NEW c \in Chunks, TaskEnds(c)
  PROVE  IInv'
<1>1. ChunkInv /\ AppendInv /\ pc = "idle"
  BY InvSplit DEF TaskEnds
<1>2. Listed(c)
  BY <1>1 DEF TaskEnds, ChunkInv, UsedSurvives
<1>3. AppendInv'
  BY <1>1, IdleKeeps DEF TaskEnds
<1>4. ChunkInv'
  BY <1>1, <1>2, UnbookedShares, DestroyKeeps DEF TaskEnds
<1> QED
  BY <1>3, <1>4, InvJoin

LEMMA RetrySteps ==
  ASSUME IInv, NEW c \in Chunks, Retry(c) \/ FlushRetry(c)
  PROVE  IInv'
<1>1. ChunkInv /\ AppendInv /\ pc = "idle"
  BY InvSplit DEF Retry, FlushRetry
<1>2. AppendInv'
  BY <1>1, IdleKeeps DEF Retry, FlushRetry
<1>3. /\ UNCHANGED <<chunk, book>> /\ task[c] # "none"
      /\ \A x \in Chunks : task'[x] # "none" => task[x] # "none"
      /\ task' \in [Chunks -> {"none", "users", "idle"}]
  BY <1>1 DEF Retry, FlushRetry, ChunkInv, ChunkTypes
<1>4. ChunkTypes' /\ Fields' /\ FsExact'
  BY <1>1, <1>3 DEF ChunkInv, ChunkTypes, Fields, FsExact, Share, Listed, chunk, book
<1>5. QueueExact' /\ UsedSurvives' /\ TableLive'
  BY <1>1, <1>3 DEF ChunkInv, QueueExact, UsedSurvives, TableLive, Listed, chunk, book
<1> QED
  BY <1>2, <1>4, <1>5, InvJoin DEF ChunkInv

-----------------------------------------------------------------------------
(* A chunk is created.                                                     *)

(* The append goes on with a chunk that is listed and that nobody uses.     *)
LEMMA AppendKeeps ==
  ASSUME AppendInv, pc = "idle", NEW i \in Inputs \ {Backlog}, NEW n \in Sizes,
         NEW c \in Chunks, NEW m \in SUBSET Outputs, NEW f,
         Append(i, c, n, TRUE, m, f),
         owner'[c] = i, task'[c] = "none", ~locked'[c], UNCHANGED restarts
  PROVE  AppendInv'
<1> USE StorageLimits
<1>1. scan = {} /\ scan' = {} /\ UNCHANGED <<out, stage, req>>
  BY DEF AppendInv, Walk, Append, release
<1>2. over' \subseteq Outputs
  BY OverIsOutputs DEF Append
<1>3. AppendTypes'
  BY <1>1, <1>2 DEF AppendInv, AppendTypes, Append
<1>4. Walk' /\ IncomingSurvives'
  BY <1>1 DEF Walk, IncomingSurvives, Append
<1> QED
  BY <1>3, <1>4 DEF AppendInv

(* A name that is free becomes an empty chunk that is counted nowhere.      *)
LEMMA CreateKeeps ==
  ASSUME ChunkInv, NEW i \in Inputs \ {Backlog}, NEW t \in Tags,
         NEW c \in Chunks, Free(c), Created(c, i, t),
         owner' = [owner EXCEPT ![c] = i], UNCHANGED <<content, counted, locked, task, book>>
  PROVE  ChunkInv'
<1> USE StorageInputs, StorageLimits
<1>1. /\ owner[c] = None /\ task[c] = "none" /\ c \notin drifted
      /\ ~content[c] /\ ~counted[c] /\ ~locked[c]
  BY DEF Free, ChunkInv, Fields
<1>2. Route[t] \in SUBSET Outputs
  OBVIOUS
<1>3. ChunkTypes'
  <2>1. last' \in [Inputs -> [Tags -> Chunks \cup {None, Freed}]]
    BY DEF ChunkInv, ChunkTypes, Created
  <2>2. \A x \in Chunks : owner'[x] \in Fs \cup {Backlog, "file", "queued"} => size'[x] > 0
    BY DEF ChunkInv, ChunkTypes, Created
  <2>3. /\ tag' \in [Chunks -> Tags \cup {None}] /\ size' \in [Chunks -> Nat]
        /\ owner' \in [Chunks -> Inputs \cup {None, "file", "queued"}]
        /\ mask' \in [Chunks -> SUBSET Outputs]
    BY <1>2 DEF ChunkInv, ChunkTypes, Created
  <2> QED
    BY <2>1, <2>2, <2>3 DEF ChunkInv, ChunkTypes, book
<1>4. Fields'
  BY <1>1 DEF ChunkInv, ChunkTypes, Fields, Created, Listed, book
<1>5. FsExact'
  <2> SUFFICES ASSUME NEW o \in Outputs, NEW x \in Chunks, x \notin drifted
               PROVE  fs[o][x] = Share(o, x)'
    BY DEF FsExact, book
  <2>1. CASE x = c
    BY <1>1, <2>1 DEF ChunkInv, ChunkTypes, FsExact, Share, Listed
  <2>2. CASE x # c
    BY <2>2 DEF ChunkInv, ChunkTypes, FsExact, Share, Listed, Created, book
  <2> QED
    BY <2>1, <2>2
<1>6. QueueExact'
  BY <1>1 DEF ChunkInv, ChunkTypes, QueueExact, Created, book
<1>7. UsedSurvives'
  BY <1>1 DEF ChunkInv, ChunkTypes, UsedSurvives, Listed, Created
<1>8. TableLive'
  BY <1>1 DEF ChunkInv, ChunkTypes, TableLive, Created
<1> QED
  BY <1>3, <1>4, <1>5, <1>6, <1>7, <1>8 DEF ChunkInv

LEMMA AppendCreateStep ==
  ASSUME IInv, NEW i \in Inputs \ {Backlog}, NEW t \in Tags, NEW n \in Sizes,
         AppendCreate(i, t, n)
  PROVE  IInv'
<1>1. ChunkInv /\ AppendInv /\ pc = "idle"
  BY InvSplit DEF AppendCreate
<1>2. PICK c \in Chunks : /\ Free(c) /\ Created(c, i, t)
                          /\ owner' = [owner EXCEPT ![c] = i]
                          /\ Append(i, c, n, TRUE, Route[t], fs)
  BY DEF AppendCreate
<1>3. UNCHANGED <<content, counted, locked, task, book, restarts>>
  BY DEF AppendCreate
<1>4. ChunkInv'
  BY <1>1, <1>2, <1>3, CreateKeeps
<1>5. owner'[c] = i /\ task'[c] = "none" /\ ~locked'[c]
  BY <1>1, <1>2, <1>3 DEF Free, ChunkInv, ChunkTypes, Fields
<1>6. Route[t] \in SUBSET Outputs
  BY StorageLimits
<1>7. AppendInv'
  BY <1>1, <1>2, <1>3, <1>5, <1>6, AppendKeeps
<1> QED
  BY <1>4, <1>7, InvJoin

(* A file that is not loaded is the one of the input and the tag, and no    *)
(* task has it.                                                            *)
LEMMA UsableFile ==
  ASSUME ChunkInv, NEW i \in Fs, NEW t \in Tags, Usable(i, t)
  PROVE  LET d == last[i][t] IN
         /\ d \in Chunks /\ owner[d] = i /\ Listed(d) /\ ~locked[d] /\ task[d] = "none"
         /\ tag[d] = t /\ size[d] > 0
BY StorageInputs DEF Usable, ChunkInv, ChunkTypes, TableLive, Fields, Listed

LEMMA AppendLostStep ==
  ASSUME IInv, NEW i \in Inputs \ {Backlog}, NEW t \in Tags, AppendLost(i, t)
  PROVE  IInv'
<1>1. ChunkInv /\ AppendInv /\ pc = "idle" /\ i \in Fs /\ Usable(i, t)
  BY InvSplit DEF AppendLost
<1>2. AppendInv'
  BY <1>1, IdleKeeps DEF AppendLost
<1>3. PICK d \in Chunks : d = last[i][t] /\ Listed(d) /\ task[d] = "none" /\ size[d] > 0
  BY <1>1, UsableFile
<1>4. fs' = Unbooked(d) /\ UNCHANGED <<task, bl, queue, drifted>>
  BY <1>3 DEF AppendLost
<1>5. task' = [task EXCEPT ![d] = "none"]
  BY <1>1, <1>3, <1>4 DEF ChunkInv, ChunkTypes
<1>6. PICK k \in {None, "file"} : Closed(d, k)
  BY <1>3 DEF AppendLost
<1>7. PICK e \in {None, Freed} : last' = Entries(d, e) /\ (e = Freed => MayDangle)
  <2>1. CASE DelBad
    BY <1>3, <2>1, StorageInputs DEF AppendLost, Unlinked
  <2>2. CASE ~DelBad
    BY <1>3, <2>2 DEF AppendLost, MayDangle
  <2> QED
    BY <2>1, <2>2
<1>8. /\ fs' \in [Outputs -> [Chunks -> Int]]
      /\ \A o \in Outputs, x \in Chunks :
           /\ x # d => fs'[o][x] = fs[o][x]
           /\ x = d /\ d \notin drifted' => fs'[o][x] = 0
  BY <1>1, <1>3, <1>4, UnbookedShares
<1>9. drifted \subseteq drifted' /\ drifted' \subseteq drifted \cup {d}
  BY <1>4
<1>10. ChunkInv'
  <2>1. ChunkInv /\ Listed(d) /\ (k = "file" => size[d] > 0) /\ UNCHANGED <<bl, queue>>
    BY <1>1, <1>3, <1>4
  <2> QED
    BY <1>5, <1>6, <1>7, <1>8, <1>9, <2>1, CloseKeeps
<1> QED
  BY <1>2, <1>10, InvJoin

LEMMA AppendCorruptedStep ==
  ASSUME IInv, NEW i \in Inputs \ {Backlog}, NEW t \in Tags, NEW n \in Sizes,
         AppendCorrupted(i, t, n)
  PROVE  IInv'
<1> USE StorageInputs, StorageLimits
<1> DEFINE d == last[i][t]
<1>1. ChunkInv /\ AppendInv /\ pc = "idle" /\ i \in Fs /\ Usable(i, t)
  BY InvSplit DEF AppendCorrupted
<1>2. PICK c \in Chunks :
        /\ Free(c)
        /\ owner' = [owner EXCEPT ![d] = IF DelBad THEN None ELSE "file", ![c] = i]
        /\ tag' = [tag EXCEPT ![d] = IF DelBad THEN None ELSE @, ![c] = t]
        /\ size' = [size EXCEPT ![d] = IF DelBad THEN 0 ELSE @, ![c] = 1]
        /\ content' = [content EXCEPT ![d] = @ /\ ~DelBad]
        /\ mask' = [mask EXCEPT ![d] = {}, ![c] = Route[t]]
        /\ counted' = [counted EXCEPT ![d] = FALSE]
        /\ last' = [last EXCEPT ![i][t] = c]
        /\ fs' = Unbooked(d)
        /\ Append(i, c, n, TRUE, Route[t], fs')
  BY DEF AppendCorrupted
<1>3. UNCHANGED <<locked, task, bl, queue, drifted, restarts>>
  BY DEF AppendCorrupted
<1>4. /\ d \in Chunks /\ owner[d] = i /\ Listed(d) /\ ~locked[d] /\ task[d] = "none"
      /\ tag[d] = t /\ size[d] > 0
  BY <1>1, UsableFile
<1>5. /\ owner[c] = None /\ task[c] = "none" /\ c \notin drifted /\ c # d
      /\ ~content[c] /\ ~counted[c] /\ ~locked[c]
  BY <1>1, <1>2, <1>4 DEF Free, ChunkInv, Fields
<1>6. /\ fs' \in [Outputs -> [Chunks -> Int]]
      /\ \A o \in Outputs, x \in Chunks :
           /\ x # d => fs'[o][x] = fs[o][x]
           /\ x = d /\ d \notin drifted => fs'[o][x] = 0
  BY <1>1, <1>2, <1>4, UnbookedShares
<1>7. /\ owner'[c] = i /\ tag'[c] = t /\ size'[c] = 1 /\ content'[c] = content[c]
      /\ mask'[c] = Route[t] /\ counted'[c] = counted[c]
      /\ owner'[d] \in {None, "file"} /\ tag'[d] \in {None, t} /\ size'[d] \in Nat
      /\ owner'[d] = "file" => tag'[d] = t /\ size'[d] > 0
      /\ owner'[d] = None => ~content'[d]
      /\ mask'[d] = {} /\ ~counted'[d]
  BY <1>1, <1>2, <1>4, <1>5 DEF ChunkInv, ChunkTypes
<1>8. \A x \in Chunks \ {c, d} :
        /\ owner'[x] = owner[x] /\ tag'[x] = tag[x] /\ size'[x] = size[x]
        /\ content'[x] = content[x] /\ mask'[x] = mask[x] /\ counted'[x] = counted[x]
  BY <1>1, <1>2 DEF ChunkInv, ChunkTypes
<1>9. /\ last' \in [Inputs -> [Tags -> Chunks \cup {None, Freed}]]
      /\ \A j \in Inputs, u \in Tags :
           last'[j][u] = IF j = i /\ u = t THEN c ELSE last[j][u]
  BY <1>1, <1>2 DEF ChunkInv, ChunkTypes
<1>10. ChunkTypes'
  <2>1. \A x \in Chunks : owner'[x] \in Fs \cup {Backlog, "file", "queued"} => size'[x] > 0
    BY <1>1, <1>7, <1>8 DEF ChunkInv, ChunkTypes
  <2>2. /\ tag' \in [Chunks -> Tags \cup {None}] /\ size' \in [Chunks -> Nat]
        /\ owner' \in [Chunks -> Inputs \cup {None, "file", "queued"}]
        /\ mask' \in [Chunks -> SUBSET Outputs]
    BY <1>1, <1>2 DEF ChunkInv, ChunkTypes
  <2>3. content' \in [Chunks -> BOOLEAN] /\ counted' \in [Chunks -> BOOLEAN]
    BY <1>1, <1>2 DEF ChunkInv, ChunkTypes
  <2> QED
    BY <1>1, <1>3, <1>6, <1>9, <2>1, <2>2, <2>3 DEF ChunkInv, ChunkTypes
<1>11. Fields'
  <2> SUFFICES ASSUME NEW x \in Chunks
               PROVE  /\ owner'[x] = None => ~content'[x] /\ ~counted'[x] /\ ~locked[x]
                      /\ owner'[x] # None => tag'[x] \in Tags
                      /\ Listed(x)' /\ content'[x] /\ mask'[x] \cap Limited # {} => counted'[x]
                      /\ x \notin drifted /\ ~content'[x] => ~counted'[x]
                      /\ task[x] # "none" \/ owner'[x] = Backlog => locked[x]
    BY <1>3 DEF Fields
  <2>1. CASE x = c
    BY <1>5, <1>7, <2>1
  <2>2. CASE x = d
    BY <1>4, <1>7, <2>2
  <2>3. CASE x # c /\ x # d
    BY <1>1, <1>8, <2>3 DEF ChunkInv, Fields, Listed
  <2> QED
    BY <2>1, <2>2, <2>3
<1>12. FsExact'
  <2> SUFFICES ASSUME NEW o \in Outputs, NEW x \in Chunks, x \notin drifted
               PROVE  fs'[o][x] = Share(o, x)'
    BY <1>3 DEF FsExact
  <2>1. CASE x = c
    BY <1>1, <1>5, <1>6, <1>7, <2>1 DEF ChunkInv, FsExact, Share
  <2>2. CASE x = d
    BY <1>6, <1>7, <2>2 DEF Share
  <2>3. CASE x # c /\ x # d
    BY <1>1, <1>6, <1>8, <2>3 DEF ChunkInv, FsExact, Share, Listed
  <2> QED
    BY <2>1, <2>2, <2>3
<1>13. QueueExact'
  <2> SUFFICES ASSUME NEW o \in Outputs, NEW x \in Chunks
               PROVE  LET waits == owner'[x] = "queued" /\ o \in Route[tag'[x]] IN
                      /\ x \in queue[o] <=> waits
                      /\ bl[o][x] = IF waits THEN size'[x] ELSE 0
    BY <1>3 DEF QueueExact
  <2>1. CASE x \in {c, d}
    BY <1>1, <1>4, <1>5, <1>7, <2>1 DEF ChunkInv, QueueExact
  <2>2. CASE x \notin {c, d}
    BY <1>1, <1>8, <2>2 DEF ChunkInv, QueueExact
  <2> QED
    BY <2>1, <2>2
<1>14. UsedSurvives'
  BY <1>1, <1>3, <1>4, <1>5, <1>8 DEF ChunkInv, UsedSurvives, Listed
<1>15. TableLive'
  BY <1>1, <1>4, <1>5, <1>7, <1>8, <1>9 DEF ChunkInv, TableLive
<1>16. task'[c] = "none" /\ ~locked'[c]
  BY <1>3, <1>5
<1>17. Route[t] \in SUBSET Outputs
  OBVIOUS
<1>18. AppendInv'
  BY <1>1, <1>2, <1>3, <1>7, <1>16, <1>17, AppendKeeps
<1> QED
  BY <1>10, <1>11, <1>12, <1>13, <1>14, <1>15, <1>18, InvJoin DEF ChunkInv

-----------------------------------------------------------------------------
(* A chunk is written or flushed.                                          *)

(* The counters follow a change of size.                                    *)
LEMMA UpdateShares ==
  ASSUME ChunkTypes, NEW c \in Chunks, NEW d \in Int, update_output_instances(c, d)
  PROVE  /\ fs' \in [Outputs -> [Chunks -> Int]]
         /\ counted' \in [Chunks -> BOOLEAN]
         /\ \A o \in Outputs, x \in Chunks :
              fs'[o][x] = IF x = c /\ o \in mask[c] \cap Limited THEN fs[o][x] + d
                          ELSE fs[o][x]
         /\ \A x \in Chunks :
              counted'[x] <=> counted[x] \/ (x = c /\ d # 0 /\ mask[c] \cap Limited # {})
<1>1. fs \in [Outputs -> [Chunks -> Int]] /\ counted \in [Chunks -> BOOLEAN]
  BY DEF ChunkTypes
<1>2. /\ counted' \in [Chunks -> BOOLEAN]
      /\ \A x \in Chunks :
           counted'[x] <=> counted[x] \/ (x = c /\ d # 0 /\ mask[c] \cap Limited # {})
  BY <1>1 DEF update_output_instances
<1>3. CASE d = 0
  BY <1>1, <1>2, <1>3 DEF update_output_instances
<1>4. CASE d # 0
  <2>1. fs' = Booked(c, mask[c], d)
    BY <1>4 DEF update_output_instances
  <2> QED
    BY <1>2, <2>1, BookedShares
<1> QED
  BY <1>3, <1>4

LEMMA WriteDoneStep ==
  ASSUME IInv, WriteDone
  PROVE  IInv'
<1> USE StorageInputs, StorageLimits
<1>1. ChunkInv /\ AppendInv /\ pc = "write"
  BY InvSplit DEF WriteDone
<1>2. AppendInv'
  BY <1>1, AppendEndsKeeps DEF WriteDone
<1>3. /\ cur \in Chunks /\ Listed(cur) /\ task[cur] = "none" /\ len \in Nat /\ len > 0
      /\ owner[cur] # Backlog
  BY <1>1 DEF AppendInv, AppendTypes, Walk, IncomingSurvives, Listed
<1>4. PICK s \in Grown(cur, len) :
         /\ size' = [size EXCEPT ![cur] = s]
         /\ locked' = [locked EXCEPT ![cur] = s >= MaxSize]
         /\ update_output_instances(cur, s - (IF content[cur] THEN size[cur] ELSE 0))
  BY DEF WriteDone
<1>5. /\ content' = [content EXCEPT ![cur] = TRUE]
      /\ UNCHANGED <<owner, tag, mask, last, task, bl, queue, drifted>>
  BY DEF WriteDone
<1>6. size[cur] \in Nat /\ (owner[cur] \in Fs => size[cur] > 0)
  BY <1>1, <1>3 DEF ChunkInv, ChunkTypes
<1>7. s \in Nat /\ s > 0
  BY <1>3, <1>6 DEF Grown
<1>8. PICK e \in Int : /\ e = s - (IF content[cur] THEN size[cur] ELSE 0)
                      /\ update_output_instances(cur, e)
  <2>1. s - (IF content[cur] THEN size[cur] ELSE 0) \in Int
    BY <1>6, <1>7
  <2> QED
    BY <1>4, <2>1
<1>9. /\ fs' \in [Outputs -> [Chunks -> Int]]
      /\ counted' \in [Chunks -> BOOLEAN]
      /\ \A o \in Outputs, x \in Chunks :
           fs'[o][x] = IF x = cur /\ o \in mask[cur] \cap Limited THEN fs[o][x] + e
                       ELSE fs[o][x]
      /\ \A x \in Chunks :
           counted'[x] <=> counted[x] \/ (x = cur /\ e # 0 /\ mask[cur] \cap Limited # {})
  <2>1. ChunkTypes
    BY <1>1 DEF ChunkInv
  <2>2. PICK c \in Chunks : c = cur
    BY <1>3
  <2>3. update_output_instances(c, e)
    BY <1>8, <2>2 DEF update_output_instances, Booked
  <2> QED
    BY <2>1, <2>2, <2>3, UpdateShares
<1>10. ChunkTypes'
  <2>1. size' \in [Chunks -> Nat] /\ content' \in [Chunks -> BOOLEAN]
        /\ locked' \in [Chunks -> BOOLEAN]
    <3>1. PICK b \in BOOLEAN : locked' = [locked EXCEPT ![cur] = b]
      <4>1. (s >= MaxSize) \in BOOLEAN
        BY <1>7
      <4> QED
        BY <1>4, <4>1
    <3>2. locked' \in [Chunks -> BOOLEAN]
      BY <1>1, <3>1 DEF ChunkInv, ChunkTypes
    <3> QED
      BY <1>1, <1>4, <1>5, <1>7, <3>2 DEF ChunkInv, ChunkTypes
  <2>2. \A x \in Chunks : owner'[x] \in Fs \cup {Backlog, "file", "queued"} => size'[x] > 0
    BY <1>1, <1>4, <1>5, <1>7 DEF ChunkInv, ChunkTypes
  <2> QED
    BY <1>1, <1>5, <1>9, <2>1, <2>2 DEF ChunkInv, ChunkTypes
<1>11. Fields'
  <2> SUFFICES ASSUME NEW x \in Chunks
               PROVE  /\ owner[x] = None => ~content'[x] /\ ~counted'[x] /\ ~locked'[x]
                      /\ owner[x] # None => tag[x] \in Tags
                      /\ Listed(x) /\ content'[x] /\ mask[x] \cap Limited # {} => counted'[x]
                      /\ x \notin drifted /\ ~content'[x] => ~counted'[x]
                      /\ task[x] # "none" \/ owner[x] = Backlog => locked'[x]
    BY <1>5 DEF Fields, Listed
  <2>1. CASE x = cur
    <3>1. Listed(x) /\ mask[x] \cap Limited # {} => counted'[x]
      <4>1. CASE e # 0
        BY <1>9, <2>1, <4>1
      <4>2. CASE e = 0
        BY <1>1, <1>6, <1>7, <1>8, <1>9, <2>1, <4>2 DEF ChunkInv, Fields
      <4> QED
        BY <4>1, <4>2
    <3>2. content'[x] /\ owner[x] # None
      BY <1>1, <1>3, <1>5, <2>1 DEF ChunkInv, ChunkTypes, Listed
    <3> QED
      BY <1>1, <1>3, <2>1, <3>1, <3>2 DEF ChunkInv, Fields
  <2>2. CASE x # cur
    BY <1>1, <1>4, <1>5, <1>9, <2>2 DEF ChunkInv, ChunkTypes, Fields
  <2> QED
    BY <2>1, <2>2
<1>12. FsExact'
  <2> SUFFICES ASSUME NEW o \in Outputs, NEW x \in Chunks, x \notin drifted
               PROVE  fs'[o][x] = Share(o, x)'
    BY <1>5 DEF FsExact
  <2>1. CASE x = cur
    <3>1. fs[o][x] = Share(o, x) /\ size'[x] = s /\ content'[x]
      BY <1>1, <1>3, <1>4, <1>5, <2>1 DEF ChunkInv, ChunkTypes, FsExact
    <3> QED
      BY <1>3, <1>5, <1>6, <1>7, <1>8, <1>9, <2>1, <3>1 DEF Share, Listed
  <2>2. CASE x # cur
    BY <1>1, <1>3, <1>4, <1>5, <1>9, <2>2 DEF ChunkInv, ChunkTypes, FsExact, Share, Listed
  <2> QED
    BY <2>1, <2>2
<1>13. QueueExact'
  BY <1>1, <1>3, <1>4, <1>5 DEF ChunkInv, ChunkTypes, QueueExact, Listed
<1>14. UsedSurvives' /\ TableLive'
  BY <1>1, <1>3, <1>5 DEF ChunkInv, ChunkTypes, UsedSurvives, TableLive, Listed
<1> QED
  BY <1>2, <1>10, <1>11, <1>12, <1>13, <1>14, InvJoin DEF ChunkInv

(* The first flush of a chunk locks it; a trimmed file is still one.        *)
LEMMA FlushStep ==
  ASSUME IInv, NEW c \in Chunks, Flush(c)
  PROVE  IInv'
<1> USE StorageInputs, StorageLimits
<1>1. ChunkInv /\ AppendInv /\ pc = "idle" /\ Listed(c) /\ task[c] = "none"
  BY InvSplit DEF Flush
<1>2. AppendInv'
  BY <1>1, IdleKeeps DEF Flush
<1>3. PICK s \in Trimmed(c) :
         /\ size' = [size EXCEPT ![c] = s]
         /\ update_output_instances(c, s - size[c])
         /\ drifted' = IF ~content[c] /\ s # size[c] /\ mask[c] \cap Limited # {}
                       THEN drifted \cup {c} ELSE drifted
  BY DEF Flush
<1>4. /\ locked' = [locked EXCEPT ![c] = TRUE]
      /\ task' = task \/ (content[c] /\ task' = [task EXCEPT ![c] = "users"])
      /\ UNCHANGED <<owner, tag, content, mask, last, bl, queue>>
  BY DEF Flush
<1>5. /\ size[c] \in Nat /\ s \in Nat /\ owner[c] # None /\ owner[c] # "queued"
      /\ size[c] > 0 => s > 0
  BY <1>1, <1>3 DEF ChunkInv, ChunkTypes, Trimmed, Listed
<1>6. PICK e \in Int : e = s - size[c] /\ update_output_instances(c, e)
  <2>1. s - size[c] \in Int
    BY <1>5
  <2> QED
    BY <1>3, <2>1
<1>7. /\ fs' \in [Outputs -> [Chunks -> Int]]
      /\ counted' \in [Chunks -> BOOLEAN]
      /\ \A o \in Outputs, x \in Chunks :
           fs'[o][x] = IF x = c /\ o \in mask[c] \cap Limited THEN fs[o][x] + e
                       ELSE fs[o][x]
      /\ \A x \in Chunks :
           counted'[x] <=> counted[x] \/ (x = c /\ e # 0 /\ mask[c] \cap Limited # {})
  <2>1. ChunkTypes
    BY <1>1 DEF ChunkInv
  <2> QED
    BY <1>6, <2>1, UpdateShares
<1>8. ChunkTypes'
  <2>1. size' \in [Chunks -> Nat] /\ locked' \in [Chunks -> BOOLEAN]
        /\ task' \in [Chunks -> {"none", "users", "idle"}] /\ drifted' \subseteq Chunks
    BY <1>1, <1>3, <1>4, <1>5 DEF ChunkInv, ChunkTypes
  <2>2. \A x \in Chunks : owner'[x] \in Fs \cup {Backlog, "file", "queued"} => size'[x] > 0
    BY <1>1, <1>3, <1>4, <1>5 DEF ChunkInv, ChunkTypes
  <2> QED
    BY <1>1, <1>4, <1>7, <2>1, <2>2 DEF ChunkInv, ChunkTypes
<1>9. Fields'
  <2> SUFFICES ASSUME NEW x \in Chunks
               PROVE  /\ owner[x] = None => ~content[x] /\ ~counted'[x] /\ ~locked'[x]
                      /\ owner[x] # None => tag[x] \in Tags
                      /\ Listed(x) /\ content[x] /\ mask[x] \cap Limited # {} => counted'[x]
                      /\ x \notin drifted' /\ ~content[x] => ~counted'[x]
                      /\ task'[x] # "none" \/ owner[x] = Backlog => locked'[x]
    BY <1>4 DEF Fields, Listed
  <2>1. CASE x = c
    <3>1. c \notin drifted' /\ ~content[c] => ~counted'[c]
      BY <1>1, <1>3, <1>5, <1>6, <1>7 DEF ChunkInv, Fields
    <3>2. counted[c] => counted'[c]
      BY <1>7
    <3>3. locked'[c]
      BY <1>1, <1>4 DEF ChunkInv, ChunkTypes
    <3> QED
      BY <1>1, <1>5, <2>1, <3>1, <3>2, <3>3 DEF ChunkInv, Fields
  <2>2. CASE x # c
    <3>1. (counted'[x] <=> counted[x]) /\ locked'[x] = locked[x] /\ task'[x] = task[x]
          /\ (x \in drifted <=> x \in drifted')
      BY <1>1, <1>3, <1>4, <1>7, <2>2 DEF ChunkInv, ChunkTypes
    <3> QED
      BY <1>1, <3>1 DEF ChunkInv, Fields
  <2> QED
    BY <2>1, <2>2
<1>10. FsExact'
  <2> SUFFICES ASSUME NEW o \in Outputs, NEW x \in Chunks, x \notin drifted'
               PROVE  fs'[o][x] = Share(o, x)'
    BY DEF FsExact
  <2>1. fs[o][x] = Share(o, x)
    BY <1>1, <1>3 DEF ChunkInv, FsExact
  <2>2. CASE x = c
    <3>1. size'[x] = s
      BY <1>1, <1>3, <2>2 DEF ChunkInv, ChunkTypes
    <3>2. ~content[c] /\ mask[c] \cap Limited # {} => s = size[c]
      BY <1>3, <2>2
    <3> QED
      BY <1>1, <1>4, <1>5, <1>6, <1>7, <2>1, <2>2, <3>1, <3>2 DEF Share, Listed
  <2>3. CASE x # c
    BY <1>1, <1>3, <1>4, <1>7, <2>1, <2>3 DEF ChunkInv, ChunkTypes, Share, Listed
  <2> QED
    BY <2>2, <2>3
<1>11. QueueExact'
  BY <1>1, <1>3, <1>4, <1>5 DEF ChunkInv, ChunkTypes, QueueExact
<1>12. UsedSurvives' /\ TableLive'
  BY <1>1, <1>4 DEF ChunkInv, ChunkTypes, UsedSurvives, TableLive, Listed
<1> QED
  BY <1>2, <1>8, <1>9, <1>10, <1>11, <1>12, InvJoin DEF ChunkInv

-----------------------------------------------------------------------------
(* The backlog.                                                            *)

(* A file leaves the queues of all outputs and all their counters.          *)
LEMMA UnqueuedAll ==
  ASSUME ChunkInv, NEW c \in Chunks, Unqueued(c)
  PROVE  /\ queue' \in [Outputs -> SUBSET Chunks]
         /\ bl' \in [Outputs -> [Chunks -> Int]]
         /\ \A o \in Outputs, x \in Chunks :
              /\ x # c => (x \in queue'[o] <=> x \in queue[o]) /\ bl'[o][x] = bl[o][x]
              /\ x = c => x \notin queue'[o] /\ bl'[o][x] = 0
<1>1. size[c] \in Nat /\ queue \in [Outputs -> SUBSET Chunks]
      /\ bl \in [Outputs -> [Chunks -> Int]]
  BY DEF ChunkInv, ChunkTypes
<1>2. \A o \in Outputs : bl[o][c] = IF c \in queue[o] THEN size[c] ELSE 0
  BY DEF ChunkInv, QueueExact
<1>3. queue' \in [Outputs -> SUBSET Chunks] /\ bl' \in [Outputs -> [Chunks -> Int]]
  BY <1>1 DEF Unqueued
<1>4. \A o \in Outputs, x \in Chunks :
        x # c => (x \in queue'[o] <=> x \in queue[o]) /\ bl'[o][x] = bl[o][x]
  BY <1>1 DEF Unqueued
<1>5. \A o \in Outputs : c \notin queue'[o] /\ bl'[o][c] = 0
  BY <1>1, <1>2 DEF Unqueued
<1> QED
  BY <1>3, <1>4, <1>5

(* A queued file belongs to no list, no task and no table.                  *)
LEMMA QueuedAlone ==
  ASSUME ChunkInv, NEW c \in Chunks, NEW o \in Outputs, c \in queue[o]
  PROVE  /\ owner[c] = "queued" /\ ~Listed(c) /\ task[c] = "none" /\ tag[c] \in Tags
         /\ size[c] \in Nat /\ size[c] > 0
         /\ \A i \in Inputs, t \in Tags : last[i][t] # c
         /\ c \notin drifted => \A p \in Outputs : fs[p][c] = 0
<1> USE StorageInputs
<1>1. owner[c] = "queued" /\ ~Listed(c)
  BY DEF ChunkInv, QueueExact, Listed
<1>2. task[c] = "none" /\ tag[c] \in Tags /\ size[c] \in Nat /\ size[c] > 0
  BY <1>1 DEF ChunkInv, ChunkTypes, UsedSurvives, Fields
<1>3. \A i \in Inputs, t \in Tags : last[i][t] # c
  BY <1>1 DEF ChunkInv, TableLive
<1>4. c \notin drifted => \A p \in Outputs : fs[p][c] = 0
  BY <1>1 DEF ChunkInv, FsExact, Share
<1> QED
  BY <1>1, <1>2, <1>3, <1>4

(* Taking a file out of the backlog for good, deleted or not.               *)
LEMMA UnqueueKeeps ==
  ASSUME ChunkInv, NEW c \in Chunks, NEW o \in Outputs, c \in queue[o],
         NEW k \in {None, "file"},
         Unqueued(c), Closed(c, k), UNCHANGED <<last, task, fs, drifted>>
  PROVE  ChunkInv'
<1> USE StorageInputs
<1>1. /\ owner[c] = "queued" /\ ~Listed(c) /\ task[c] = "none" /\ tag[c] \in Tags
      /\ size[c] \in Nat /\ size[c] > 0
      /\ \A i \in Inputs, t \in Tags : last[i][t] # c
      /\ c \notin drifted => \A p \in Outputs : fs[p][c] = 0
  BY QueuedAlone
<1>2. /\ queue' \in [Outputs -> SUBSET Chunks]
      /\ bl' \in [Outputs -> [Chunks -> Int]]
      /\ \A p \in Outputs, x \in Chunks :
           /\ x # c => (x \in queue'[p] <=> x \in queue[p]) /\ bl'[p][x] = bl[p][x]
           /\ x = c => x \notin queue'[p] /\ bl'[p][x] = 0
  BY UnqueuedAll
<1>3. ChunkTypes'
  <2>1. /\ tag' \in [Chunks -> Tags \cup {None}] /\ size' \in [Chunks -> Nat]
        /\ owner' \in [Chunks -> Inputs \cup {None, "file", "queued"}]
        /\ mask' \in [Chunks -> SUBSET Outputs]
    BY DEF ChunkInv, ChunkTypes, Closed
  <2>2. content' \in [Chunks -> BOOLEAN] /\ counted' \in [Chunks -> BOOLEAN]
        /\ locked' \in [Chunks -> BOOLEAN]
    BY DEF ChunkInv, ChunkTypes, Closed
  <2>3. \A x \in Chunks : owner'[x] \in Fs \cup {Backlog, "file", "queued"} => size'[x] > 0
    BY <1>1 DEF ChunkInv, ChunkTypes, Closed
  <2> QED
    BY <1>2, <2>1, <2>2, <2>3 DEF ChunkInv, ChunkTypes
<1>4. Fields'
  BY <1>1 DEF ChunkInv, ChunkTypes, Fields, Listed, Closed
<1>5. FsExact'
  <2> SUFFICES ASSUME NEW p \in Outputs, NEW x \in Chunks, x \notin drifted
               PROVE  fs[p][x] = Share(p, x)'
    BY DEF FsExact
  <2>1. CASE x = c
    BY <1>1, <2>1 DEF ChunkInv, ChunkTypes, Share, Listed, Closed
  <2>2. CASE x # c
    BY <2>2 DEF ChunkInv, ChunkTypes, FsExact, Share, Listed, Closed
  <2> QED
    BY <2>1, <2>2
<1>6. QueueExact'
  <2> SUFFICES ASSUME NEW p \in Outputs, NEW x \in Chunks
               PROVE  LET waits == owner'[x] = "queued" /\ p \in Route[tag'[x]] IN
                      /\ x \in queue'[p] <=> waits
                      /\ bl'[p][x] = IF waits THEN size'[x] ELSE 0
    BY DEF QueueExact
  <2>1. CASE x = c
    BY <1>2, <2>1 DEF ChunkInv, ChunkTypes, Closed
  <2>2. CASE x # c
    BY <1>2, <2>2 DEF ChunkInv, ChunkTypes, QueueExact, Closed
  <2> QED
    BY <2>1, <2>2
<1>7. UsedSurvives' /\ TableLive'
  BY <1>1 DEF ChunkInv, ChunkTypes, UsedSurvives, TableLive, Listed, Closed
<1> QED
  BY <1>3, <1>4, <1>5, <1>6, <1>7 DEF ChunkInv

LEMMA ReleaseQueueStep ==
  ASSUME IInv, NEW c \in Chunks, ReleaseQueue(c)
  PROVE  IInv'
<1> USE StorageInputs
<1>1. ChunkInv /\ AppendInv
  BY InvSplit
<1>2. /\ pc = "space" /\ c \in scan /\ out # None /\ out \in Outputs /\ c \in queue[out]
  BY <1>1 DEF ReleaseQueue, Scans, AppendInv, AppendTypes, Walk
<1>3. c # cur
  BY <1>1, <1>2, QueuedAlone DEF AppendInv, IncomingSurvives, Listed
<1>4. /\ Unqueued(c) /\ Closed(c, None) /\ UNCHANGED <<last, task, fs, drifted>>
      /\ Releases(c)
  BY DEF ReleaseQueue
<1>5. ChunkInv'
  BY <1>1, <1>2, <1>4, UnqueueKeeps
<1>6. \A x \in Chunks \ {c} :
        /\ owner'[x] = owner[x] /\ task'[x] = task[x] /\ locked'[x] = locked[x]
        /\ \A o \in Outputs : x \in queue[o] => x \in queue'[o]
  BY <1>1, <1>4, UnqueuedAll DEF ChunkInv, ChunkTypes, Closed
<1>7. AppendInv'
  BY <1>1, <1>2, <1>3, <1>4, <1>6, ReleasesKeeps
<1> QED
  BY <1>5, <1>7, InvJoin

LEMMA QueueRemoveStep ==
  ASSUME IInv, NEW c \in Chunks, QueueRemove(c)
  PROVE  IInv'
<1>1. ChunkInv /\ AppendInv /\ pc = "idle"
  BY InvSplit DEF QueueRemove
<1>2. PICK o \in Outputs : c \in queue[o]
  BY DEF QueueRemove
<1>3. PICK k \in {None, "file"} : Closed(c, k)
  BY DEF QueueRemove
<1>4. Unqueued(c) /\ UNCHANGED <<last, task, fs, drifted, append, restarts>>
  BY DEF QueueRemove
<1>5. ChunkInv'
  BY <1>1, <1>2, <1>3, <1>4, UnqueueKeeps
<1>6. AppendInv'
  BY <1>1, <1>4, IdleKeeps
<1> QED
  BY <1>5, <1>6, InvJoin

(* A file that is loaded was counted in the backlog only, and is now counted *)
(* among the chunks instead.                                               *)
LEMMA QueueMapStep ==
  ASSUME IInv, NEW c \in Chunks, QueueMap(c)
  PROVE  IInv'
<1> USE StorageInputs, StorageLimits
<1>1. ChunkInv /\ AppendInv /\ pc = "idle"
  BY InvSplit DEF QueueMap
<1>2. PICK o \in Outputs : c \in queue[o]
  BY DEF QueueMap
<1>3. /\ owner[c] = "queued" /\ ~Listed(c) /\ task[c] = "none" /\ tag[c] \in Tags
      /\ size[c] \in Nat /\ size[c] > 0
      /\ \A i \in Inputs, t \in Tags : last[i][t] # c
      /\ c \notin drifted => \A p \in Outputs : fs[p][c] = 0
  BY <1>1, <1>2, QueuedAlone
<1>4. PICK r \in SUBSET Outputs : r = Route[tag[c]]
  BY <1>3
<1>5. /\ Unqueued(c) /\ content[c]
      /\ owner' = [owner EXCEPT ![c] = Backlog]
      /\ mask' = [mask EXCEPT ![c] = r]
      /\ counted' = [counted EXCEPT ![c] = r \cap Limited # {}]
      /\ locked' = [locked EXCEPT ![c] = TRUE]
      /\ fs' = Booked(c, r, size[c])
      /\ UNCHANGED <<tag, size, content, last, task, drifted, append, restarts>>
  BY <1>4 DEF QueueMap
<1>6. AppendInv'
  BY <1>1, <1>5, IdleKeeps
<1>7. /\ queue' \in [Outputs -> SUBSET Chunks]
      /\ bl' \in [Outputs -> [Chunks -> Int]]
      /\ \A p \in Outputs, x \in Chunks :
           /\ x # c => (x \in queue'[p] <=> x \in queue[p]) /\ bl'[p][x] = bl[p][x]
           /\ x = c => x \notin queue'[p] /\ bl'[p][x] = 0
  BY <1>1, <1>5, UnqueuedAll
<1>8. /\ fs' \in [Outputs -> [Chunks -> Int]]
      /\ \A p \in Outputs, x \in Chunks :
           fs'[p][x] = IF x = c /\ p \in r \cap Limited THEN fs[p][x] + size[c]
                       ELSE fs[p][x]
  <2>1. ChunkTypes /\ size[c] \in Int
    BY <1>1, <1>3 DEF ChunkInv
  <2> QED
    BY <1>5, <2>1, BookedShares
<1>9. /\ counted' \in [Chunks -> BOOLEAN] /\ locked' \in [Chunks -> BOOLEAN]
      /\ (counted'[c] <=> r \cap Limited # {}) /\ locked'[c]
      /\ owner'[c] = Backlog /\ mask'[c] = r
      /\ \A x \in Chunks \ {c} : /\ owner'[x] = owner[x] /\ mask'[x] = mask[x]
                                 /\ counted'[x] = counted[x] /\ locked'[x] = locked[x]
  BY <1>1, <1>5 DEF ChunkInv, ChunkTypes
<1>10. ChunkTypes'
  <2>1. /\ owner' \in [Chunks -> Inputs \cup {None, "file", "queued"}]
        /\ mask' \in [Chunks -> SUBSET Outputs]
    BY <1>1, <1>5 DEF ChunkInv, ChunkTypes
  <2>2. \A x \in Chunks : owner'[x] \in Fs \cup {Backlog, "file", "queued"} => size'[x] > 0
    BY <1>1, <1>3, <1>5 DEF ChunkInv, ChunkTypes
  <2> QED
    BY <1>1, <1>5, <1>7, <1>8, <1>9, <2>1, <2>2 DEF ChunkInv, ChunkTypes
<1>11. Fields'
  <2> SUFFICES ASSUME NEW x \in Chunks
               PROVE  /\ owner'[x] = None => ~content[x] /\ ~counted'[x] /\ ~locked'[x]
                      /\ owner'[x] # None => tag[x] \in Tags
                      /\ Listed(x)' /\ content[x] /\ mask'[x] \cap Limited # {} => counted'[x]
                      /\ x \notin drifted /\ ~content[x] => ~counted'[x]
                      /\ task[x] # "none" \/ owner'[x] = Backlog => locked'[x]
    BY <1>5 DEF Fields
  <2>1. CASE x = c
    BY <1>3, <1>5, <1>9, <2>1
  <2>2. CASE x # c
    BY <1>1, <1>9, <2>2 DEF ChunkInv, Fields, Listed
  <2> QED
    BY <2>1, <2>2
<1>12. FsExact'
  <2> SUFFICES ASSUME NEW p \in Outputs, NEW x \in Chunks, x \notin drifted
               PROVE  fs'[p][x] = Share(p, x)'
    BY <1>5 DEF FsExact
  <2>1. CASE x = c
    BY <1>3, <1>5, <1>8, <1>9, <2>1 DEF Share, Listed
  <2>2. CASE x # c
    BY <1>1, <1>5, <1>8, <1>9, <2>2 DEF ChunkInv, FsExact, Share, Listed
  <2> QED
    BY <2>1, <2>2
<1>13. QueueExact'
  <2> SUFFICES ASSUME NEW p \in Outputs, NEW x \in Chunks
               PROVE  LET waits == owner'[x] = "queued" /\ p \in Route[tag[x]] IN
                      /\ x \in queue'[p] <=> waits
                      /\ bl'[p][x] = IF waits THEN size[x] ELSE 0
    BY <1>5 DEF QueueExact
  <2>1. CASE x = c
    BY <1>7, <1>9, <2>1
  <2>2. CASE x # c
    BY <1>1, <1>7, <1>9, <2>2 DEF ChunkInv, QueueExact
  <2> QED
    BY <2>1, <2>2
<1>14. UsedSurvives' /\ TableLive'
  BY <1>1, <1>3, <1>5, <1>9 DEF ChunkInv, ChunkTypes, UsedSurvives, TableLive, Listed
<1> QED
  BY <1>6, <1>10, <1>11, <1>12, <1>13, <1>14, InvJoin DEF ChunkInv

(* After a restart every file that is found waits in the queues of the      *)
(* outputs of its tag, and nothing else is left.                           *)
LEMMA RestartStep ==
  ASSUME IInv, Restart
  PROVE  IInv'
<1> USE StorageInputs, StorageLimits
<1> DEFINE files == {c \in Chunks : owner[c] \in Fs \cup {Backlog, "queued", "file"}}
<1>1. ChunkInv /\ AppendInv
  BY InvSplit
<1>2. PICK bad \in SUBSET files :
        LET found == {c \in files \ bad : Route[tag[c]] # {}} IN
        /\ owner' = [c \in Chunks |-> IF c \in found THEN "queued"
                                      ELSE IF c \in files THEN "file" ELSE None]
        /\ tag' = [c \in Chunks |-> IF c \in files THEN tag[c] ELSE None]
        /\ size' = [c \in Chunks |-> IF c \in files THEN size[c] ELSE 0]
        /\ content' = [c \in Chunks |-> c \in files /\ content[c]]
        /\ queue' = [o \in Outputs |-> {c \in found : o \in Route[tag[c]]}]
        /\ bl' = [o \in Outputs |-> [c \in Chunks |->
                    IF c \in found /\ o \in Route[tag[c]] THEN size[c] ELSE 0]]
  BY DEF Restart
<1>3. /\ mask' = [c \in Chunks |-> {}]
      /\ counted' = [c \in Chunks |-> FALSE]
      /\ locked' = [c \in Chunks |-> FALSE]
      /\ task' = [c \in Chunks |-> "none"]
      /\ last' = [i \in Inputs |-> [t \in Tags |-> None]]
      /\ fs' = [o \in Outputs |-> [c \in Chunks |-> 0]]
      /\ drifted' = {}
  BY DEF Restart
<1> DEFINE found == {c \in files \ bad : Route[tag[c]] # {}}
<1>4. found \subseteq files /\ files \subseteq Chunks
  OBVIOUS
<1>5. \A c \in files : owner[c] # None /\ tag[c] \in Tags /\ size[c] \in Nat /\ size[c] > 0
  BY <1>1 DEF ChunkInv, ChunkTypes, Fields
<1>6. AppendInv'
  <2>1. AppendTypes'
    <3>1. fresh' \in BOOLEAN /\ failed' \in BOOLEAN
      BY Zenon DEF Restart
    <3>2. /\ pc' \in {"idle", "space", "write"} /\ cur' \in Chunks \cup {None}
          /\ len' \in Nat /\ req' \in Int /\ over' \subseteq Outputs
          /\ out' \in Outputs \cup {None} /\ scan' \subseteq Chunks
          /\ stage' \in {"global", "queue", "own", "others"} /\ restarts' \in Nat
      BY <1>1 DEF Restart, AppendInv, AppendTypes
    <3> QED
      BY <3>1, <3>2, Zenon DEF AppendTypes
  <2>2. Walk' /\ IncomingSurvives'
    BY DEF Restart, Walk, IncomingSurvives
  <2> QED
    BY <2>1, <2>2 DEF AppendInv
<1>7. ChunkTypes'
  <2>1. /\ owner' \in [Chunks -> Inputs \cup {None, "file", "queued"}]
        /\ \A c \in Chunks : owner'[c] \in Fs \cup {Backlog, "file", "queued"} => c \in files
    BY <1>2
  <2>2. size' \in [Chunks -> Nat] /\ \A c \in files : size'[c] > 0
    BY <1>2, <1>5
  <2>3. content' \in [Chunks -> BOOLEAN] /\ tag' \in [Chunks -> Tags \cup {None}]
    BY <1>2, <1>5
  <2>4. queue' \in [Outputs -> SUBSET Chunks]
    BY <1>2, <1>4
  <2>5. bl' \in [Outputs -> [Chunks -> Int]]
    BY <1>2, <1>4, <1>5
  <2>6. /\ mask' \in [Chunks -> SUBSET Outputs] /\ counted' \in [Chunks -> BOOLEAN]
        /\ locked' \in [Chunks -> BOOLEAN] /\ task' \in [Chunks -> {"none", "users", "idle"}]
        /\ last' \in [Inputs -> [Tags -> Chunks \cup {None, Freed}]]
        /\ fs' \in [Outputs -> [Chunks -> Int]] /\ drifted' \subseteq Chunks
    BY <1>3
  <2> QED
    BY <2>1, <2>2, <2>3, <2>4, <2>5, <2>6 DEF ChunkTypes
<1>8. \A c \in Chunks : owner'[c] \notin Inputs /\ (owner'[c] # None <=> c \in files)
                       /\ (owner'[c] = "queued" <=> c \in found)
  BY <1>2, <1>4
<1>9. Fields'
  BY <1>2, <1>3, <1>5, <1>8 DEF Fields, Listed
<1>10. FsExact'
  BY <1>3, <1>8 DEF FsExact, Share, Listed
<1>11. QueueExact'
  <2> SUFFICES ASSUME NEW o \in Outputs, NEW c \in Chunks
               PROVE  LET waits == owner'[c] = "queued" /\ o \in Route[tag'[c]] IN
                      /\ c \in queue'[o] <=> waits
                      /\ bl'[o][c] = IF waits THEN size'[c] ELSE 0
    BY DEF QueueExact
  <2>1. queue'[o] = {x \in found : o \in Route[tag[x]]}
        /\ bl'[o][c] = IF c \in found /\ o \in Route[tag[c]] THEN size[c] ELSE 0
    BY <1>2
  <2>2. c \in found => tag'[c] = tag[c] /\ size'[c] = size[c]
    BY <1>2, <1>4
  <2> QED
    BY <1>8, <2>1, <2>2
<1>12. UsedSurvives' /\ TableLive'
  BY <1>3 DEF UsedSurvives, TableLive
<1> QED
  BY <1>6, <1>7, <1>9, <1>10, <1>11, <1>12, InvJoin DEF ChunkInv

-----------------------------------------------------------------------------
(* Every step, and the theorems.                                           *)

LEMMA StutterStep ==
  ASSUME IInv, UNCHANGED vars
  PROVE  IInv'
<1>1. ChunkInv /\ AppendInv
  BY InvSplit
<1>2. ChunkInv'
  BY <1>1, ChunkSame DEF vars
<1>3. AppendTypes' /\ Walk' /\ IncomingSurvives'
  BY <1>1 DEF AppendInv, AppendTypes, Walk, IncomingSurvives, Listed, vars, append,
              release, chunk, book
<1> QED
  BY <1>2, <1>3, InvJoin DEF AppendInv

LEMMA NextIInv == IInv /\ [Next]_vars => IInv'
<1> SUFFICES ASSUME IInv, [Next]_vars PROVE IInv'
  OBVIOUS
<1>1. CASE \E i \in Inputs \ {Backlog}, t \in Tags, n \in Sizes :
             AppendReuse(i, t, n) \/ AppendCreate(i, t, n) \/ AppendCorrupted(i, t, n)
  BY <1>1, AppendReuseStep, AppendCreateStep, AppendCorruptedStep
<1>2. CASE \/ \E i \in Inputs \ {Backlog}, t \in Tags : AppendLost(i, t)
           \/ \E o \in Outputs : ReleaseFor(o)
  BY <1>2, AppendLostStep, ReleaseForStep
<1>3. CASE ReleaseNext \/ ReleaseEnds \/ AppendPlaced \/ AppendRefused
  BY <1>3, ReleaseNextStep, ReleaseEndsStep, AppendPlacedStep, AppendRefusedStep
<1>4. CASE WriteFiltered \/ WriteFails \/ WriteDone
  BY <1>4, WriteFilteredStep, WriteFailsStep, WriteDoneStep
<1>5. CASE \E c \in Chunks : ReleasePasses(c) \/ ReleaseGlobal(c) \/ ReleaseLocal(c)
                             \/ ReleaseQueue(c)
  BY <1>5, ReleasePassesStep, ReleaseGlobalStep, ReleaseLocalStep, ReleaseQueueStep
<1>6. CASE \E c \in Chunks : Flush(c) \/ FlushUnrouted(c) \/ Retry(c) \/ FlushRetry(c)
                             \/ TaskEnds(c)
  BY <1>6, FlushStep, FlushUnroutedStep, RetrySteps, TaskEndsStep
<1>7. CASE \E c \in Chunks : QueueMap(c) \/ QueueRemove(c)
  BY <1>7, QueueMapStep, QueueRemoveStep
<1>8. CASE Restart
  BY <1>8, RestartStep
<1>9. CASE UNCHANGED vars
  BY <1>9, StutterStep
<1> QED
  BY <1>1, <1>2, <1>3, <1>4, <1>5, <1>6, <1>7, <1>8, <1>9 DEF Next

LEMMA AlwaysIInv == Spec => []IInv
BY InitIInv, NextIInv, PTL DEF Spec

(* The types hold and no file shrinks below its first unit, however often   *)
(* it is written, trimmed, released and loaded again.                      *)
THEOREM StorageTypes == Spec => []TypeOK
<1>1. IInv => TypeOK
  BY DEF IInv
<1> QED
  BY <1>1, AlwaysIInv, PTL

(* fs_chunks_size is the size of what is routed to an output, for any       *)
(* number of chunks and outputs, with and without limits.                  *)
THEOREM StorageCountersExact == Spec => []FsExact
<1>1. IInv => FsExact
  BY DEF IInv
<1> QED
  BY <1>1, AlwaysIInv, PTL

(* The queues and counters of the backlog agree with the files in it.       *)
THEOREM StorageQueueExact == Spec => []QueueExact
<1>1. IInv => QueueExact
  BY DEF IInv
<1> QED
  BY <1>1, AlwaysIInv, PTL

(* Making room for an append never releases the chunk of the append.        *)
THEOREM StorageIncomingSurvives == Spec => []IncomingSurvives
<1>1. IInv => IncomingSurvives
  BY DEF IInv
<1> QED
  BY <1>1, AlwaysIInv, PTL

(* Making room never takes the data of a chunk from the task that has it.   *)
THEOREM StorageUsedSurvives == Spec => []UsedSurvives
<1>1. IInv => UsedSurvives
  BY DEF IInv
<1> QED
  BY <1>1, AlwaysIInv, PTL

(* No append finds a destroyed chunk, or one of another tag, in the table,  *)
(* whatever is released, closed or loaded, if every chunk's tag can be read *)
(* when it is destroyed and a chunk can always be created in the place of a *)
(* corrupted one whose file is kept.                                       *)
THEOREM StorageTableLive == Spec => []TableLive
<1>1. IInv => TableLive
  BY DEF IInv
<1> QED
  BY <1>1, AlwaysIInv, PTL
=============================================================================
