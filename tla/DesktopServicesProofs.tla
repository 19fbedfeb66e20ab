------------------------ MODULE DesktopServicesProofs -------------------------
(***************************************************************************)
(* Proofs about the services of the desktop. Each part is an instance of   *)
(* its module, about whose constants nothing is assumed but what its       *)
(* theorem says: the theorem holds for every value of them and every       *)
(* number of steps, whatever the bounds of the runs. Each has its          *)
(* variables by the names of its module, and three sections: the sets its  *)
(* state is in and the inductive invariant; one lemma per step; the        *)
(* theorem.                                                                *)
(***************************************************************************)
EXTENDS DesktopServices, Integers, FiniteSets, FiniteSetTheorems, SequenceTheorems,
        NaturalsInduction, TLAPS

installed == x1
part == x2
chosen == x3
listed == x4
cancellation == x5
fetch == x6
removing == x7
selecting == x8
doubled == x9
setbacks == x10
USE DEF installed, part, chosen, listed, cancellation, fetch, removing, selecting,
        doubled, setbacks

(***************************************************************************)
(* ModelDownload: what is chosen was verified.                             *)
(*                                                                         *)
(* The property looks at the setting and the installed file only.  A file  *)
(* gets there from the part, which other commands remove and other sources *)
(* write: its content is known because the hash was fed what the part was. *)
(***************************************************************************)
File == [len : Nat, good : BOOLEAN]
FetchSteps == {"idle", "reserved", "present", "source", "request", "stream", "corrupt",
               "verified", "install", "choose", "done", "failed", "leaving"}
Fetch == [pc : FetchSteps, source : Nat, hash : File]

DownloadShapes ==
    /\ installed \in [Models -> File \cup {None}] /\ part \in [Models -> File \cup {None}]
    /\ fetch \in [Models -> Fetch] /\ selecting \in [Models -> {"idle", "verified"}]

\* What is in use, or about to be, is the whole model or not there any more.
InstalledIsWhole(m) ==
    chosen = m \/ fetch[m].pc = "choose" \/ selecting[m] = "verified" =>
        installed[m] = None \/ Downloads!Whole(installed[m])
\* The hash is that of the part, where an uninstall has left it.
HashedPart(m) ==
    /\ fetch[m].pc \in {"stream", "verified"} => part[m] = None \/ part[m] = fetch[m].hash
    /\ fetch[m].pc = "verified" => Downloads!Whole(fetch[m].hash)
    /\ fetch[m].pc = "install" => part[m] = None \/ Downloads!Whole(part[m])
FollowedInv(m) == InstalledIsWhole(m) /\ HashedPart(m)
DownloadInv == DownloadShapes /\ \A m \in Models \ doubled : FollowedInv(m)

DownloadAssumption == None \notin Models \cup File /\ ModelSize \in Nat

\* A step of a download changes where it is, and nothing else of it.
LEMMA FetchGoes ==
    ASSUME fetch \in [Models -> Fetch], NEW m \in Models, NEW pc \in FetchSteps,
           Downloads!Fetches(m, pc)
    PROVE  /\ fetch' \in [Models -> Fetch]
           /\ fetch'[m].pc = pc /\ fetch'[m].hash = fetch[m].hash
           /\ \A n \in Models : n # m => fetch'[n] = fetch[n]
<1>1. fetch[m] \in [pc : FetchSteps, source : Nat, hash : File]
    BY DEF Fetch
<1> DEFINE after == [fetch[m] EXCEPT !.pc = pc]
<1>2. after \in Fetch /\ after.pc = pc /\ after.hash = fetch[m].hash
    BY <1>1, Zenon DEF Fetch
<1>3. fetch' = [fetch EXCEPT ![m] = after]
    BY DEF Downloads!Fetches
<1> QED
    <2> HIDE DEF after
    <2> QED BY <1>2, <1>3

\* The next source is asked, or the download has failed.
LEMMA AfterSource ==
    ASSUME fetch \in [Models -> Fetch], NEW m \in Models, Downloads!NextSource(m)
    PROVE  /\ fetch' \in [Models -> Fetch] /\ fetch'[m].pc \in {"source", "failed"}
           /\ \A n \in Models : n # m => fetch'[n] = fetch[n]
<1>1. fetch[m] \in [pc : FetchSteps, source : Nat, hash : File]
    BY DEF Fetch
<1> DEFINE next == [fetch[m] EXCEPT !.source = fetch[m].source + 1, !.pc = "source"]
           last == [fetch[m] EXCEPT !.pc = "failed"]
<1>2. fetch[m].source + 1 \in Nat
    BY <1>1
<1>3. next \in Fetch /\ next.pc = "source"
    BY <1>1, <1>2, Zenon DEF Fetch, FetchSteps
<1>4. last \in Fetch /\ last.pc = "failed"
    BY <1>1, Zenon DEF Fetch, FetchSteps
<1>5. fetch' = [fetch EXCEPT ![m] = IF fetch[m].source < Len(Downloads!Sources)
                                    THEN next ELSE last]
    BY DEF Downloads!NextSource
<1> QED
    <2> HIDE DEF next, last
    <2> QED BY <1>3, <1>4, <1>5

\* The stream starts with the hash of what the part holds.
LEMMA StreamStarts ==
    ASSUME fetch \in [Models -> Fetch], NEW m \in Models, NEW file \in File,
           fetch' = [fetch EXCEPT ![m].pc = "stream", ![m].hash = file]
    PROVE  /\ fetch' \in [Models -> Fetch]
           /\ fetch'[m].pc = "stream" /\ fetch'[m].hash = file
           /\ \A n \in Models : n # m => fetch'[n] = fetch[n]
<1>1. fetch[m] \in [pc : FetchSteps, source : Nat, hash : File]
    BY DEF Fetch
<1> DEFINE after == [[fetch[m] EXCEPT !.pc = "stream"] EXCEPT !.hash = file]
<1>2. after \in Fetch /\ after.pc = "stream" /\ after.hash = file
    BY <1>1, Zenon DEF Fetch, FetchSteps
<1>3. fetch' = [fetch EXCEPT ![m] = after]
    OBVIOUS
<1> QED
    <2> HIDE DEF after
    <2> QED BY <1>2, <1>3

\* One piece is hashed as it is written.
LEMMA PieceHashed ==
    ASSUME fetch \in [Models -> Fetch], NEW m \in Models, NEW good \in BOOLEAN,
           fetch' = [fetch EXCEPT ![m].hash = [len |-> @.len + 1, good |-> @.good /\ good]]
    PROVE  /\ fetch' \in [Models -> Fetch]
           /\ fetch'[m].pc = fetch[m].pc
           /\ fetch'[m].hash = [len  |-> fetch[m].hash.len + 1,
                                good |-> fetch[m].hash.good /\ good]
           /\ \A n \in Models : n # m => fetch'[n] = fetch[n]
<1>1. fetch[m] \in [pc : FetchSteps, source : Nat, hash : File]
    BY DEF Fetch
<1> DEFINE hash  == [len |-> fetch[m].hash.len + 1, good |-> fetch[m].hash.good /\ good]
           after == [fetch[m] EXCEPT !.hash = hash]
<1>2. fetch[m].hash \in File /\ fetch[m].hash.len + 1 \in Nat
    BY <1>1 DEF File
<1>3. hash \in File
    BY <1>2 DEF File
<1>4. after \in Fetch /\ after.pc = fetch[m].pc /\ after.hash = hash
    <2> HIDE DEF hash
    <2> QED BY <1>1, <1>3, Zenon DEF Fetch
<1>5. fetch' = [fetch EXCEPT ![m] = after]
    OBVIOUS
<1> QED
    <2>1. fetch' \in [Models -> Fetch] /\ fetch'[m] = after
          /\ \A n \in Models : n # m => fetch'[n] = fetch[n]
        <3> HIDE DEF after
        <3> QED BY <1>4, <1>5
    <2> QED BY <2>1, <1>4

\* What a model's own step leaves alone keeps what is known of the other models.
LEMMA OthersFollowed ==
    ASSUME NEW m \in Models, NEW n \in Models, n # m, FollowedInv(n),
           chosen' \in {chosen, m, None}, n # None,
           installed'[n] = installed[n], part'[n] = part[n],
           fetch'[n] = fetch[n], selecting'[n] = selecting[n]
    PROVE  FollowedInv(n)'
BY DEF FollowedInv, InstalledIsWhole, HashedPart, Downloads!Whole

\* A step of a model that moves no file.
LEMMA FilesRest ==
    ASSUME DownloadAssumption, DownloadInv, NEW m \in Models \ doubled,
           UNCHANGED <<installed, part, chosen, selecting>>, doubled \subseteq doubled',
           fetch' \in [Models -> Fetch], \A n \in Models : n # m => fetch'[n] = fetch[n],
           FollowedInv(m)'
    PROVE  DownloadInv'
<1> USE DEF DownloadInv
<1>1. DownloadShapes'
    BY DEF DownloadShapes
<1>2. ASSUME NEW n \in Models \ doubled' PROVE FollowedInv(n)'
    BY <1>2, OthersFollowed DEF DownloadAssumption
<1> QED BY <1>1, <1>2

\* A model whose download goes on to a step that promises nothing of its files.
LEMMA PromisesNothing ==
    ASSUME NEW m \in Models, FollowedInv(m), UNCHANGED <<installed, part, chosen,
           selecting>>,
           fetch'[m].pc \notin {"stream", "verified", "install", "choose"}
    PROVE  FollowedInv(m)'
BY DEF FollowedInv, InstalledIsWhole, HashedPart, Downloads!Whole

\* The steps of a download that move no file.
LEMMA QuietSteps ==
    ASSUME DownloadAssumption, DownloadInv, NEW m \in Models \ doubled,
           \/ Downloads!Reserve(m) \/ Downloads!Spawn(m) \/ Downloads!TrySource(m)
           \/ Downloads!Resumes(m) \/ Downloads!RequestFails(m) \/ Downloads!StreamEnds(m)
           \/ Downloads!StreamBreaks(m) \/ Downloads!LastCancelCheck(m)
           \/ Downloads!ListDone(m) \/ Downloads!ListFailed(m) \/ Downloads!Leave(m)
           \/ Downloads!CancelDownload(m)
    PROVE  DownloadInv'
<1> USE DEF DownloadInv
<1>0. fetch \in [Models -> Fetch] /\ FollowedInv(m)
    BY DEF DownloadShapes
<1>1. CASE Downloads!Reserve(m)
    <2>1. CASE fetch[m].pc = "idle"
        <3>1. /\ Downloads!Fetches(m, "reserved")
              /\ UNCHANGED <<installed, part, chosen, selecting, doubled>>
            BY <1>1, <2>1 DEF Downloads!Reserve
        <3> QED BY <1>0, <3>1, FetchGoes, PromisesNothing, FilesRest DEF FetchSteps
    <2>2. CASE fetch[m].pc # "idle"
        <3>1. UNCHANGED <<installed, part, chosen, selecting, fetch>>
              /\ doubled \subseteq doubled'
            BY <1>1, <2>2 DEF Downloads!Reserve
        <3>2. FollowedInv(m)'
            BY <1>0, <3>1 DEF FollowedInv, InstalledIsWhole, HashedPart, Downloads!Whole
        <3> QED BY <1>0, <3>1, <3>2, FilesRest
    <2> QED BY <2>1, <2>2
<1>2. CASE Downloads!Spawn(m) \/ Downloads!Leave(m)
    <2> DEFINE after == IF Downloads!Spawn(m) THEN [Downloads!Resting EXCEPT !.pc = "present"]
                        ELSE Downloads!Resting
    <2>1. Downloads!Resting \in [pc : FetchSteps, source : Nat, hash : File]
        BY DEF Downloads!Resting, Downloads!Empty, FetchSteps, File
    <2>2. [Downloads!Resting EXCEPT !.pc = "present"] \in Fetch
          /\ [Downloads!Resting EXCEPT !.pc = "present"].pc = "present"
        BY <2>1, Zenon DEF Fetch, FetchSteps
    <2>3. Downloads!Resting.pc = "idle"
        BY DEF Downloads!Resting
    <2>4. PICK f \in Fetch : f.pc \in {"idle", "present"} /\ fetch' = [fetch EXCEPT ![m] = f]
        <3>1. CASE Downloads!Spawn(m)
            BY <2>2, <3>1 DEF Downloads!Spawn
        <3>2. CASE Downloads!Leave(m)
            BY <2>1, <2>3, <3>2 DEF Downloads!Leave, Fetch
        <3> QED BY <1>2, <3>1, <3>2
    <2>5. UNCHANGED <<installed, part, chosen, selecting, doubled>>
        BY <1>2 DEF Downloads!Spawn, Downloads!Leave
    <2>6. fetch' \in [Models -> Fetch] /\ fetch'[m] = f
          /\ \A n \in Models : n # m => fetch'[n] = fetch[n]
        BY <1>0, <2>4
    <2> QED BY <1>0, <2>4, <2>5, <2>6, PromisesNothing, FilesRest
<1>3. CASE Downloads!TrySource(m)
    <2>1. PICK pc \in {"failed", "request"} : Downloads!Fetches(m, pc)
        BY <1>3 DEF Downloads!TrySource
    <2>2. UNCHANGED <<installed, part, chosen, selecting, doubled>>
        BY <1>3 DEF Downloads!TrySource
    <2> QED BY <1>0, <2>1, <2>2, FetchGoes, PromisesNothing, FilesRest DEF FetchSteps
<1>4. CASE Downloads!Resumes(m)
    <2>1. part[m] \in File
        BY <1>4 DEF Downloads!Resumes, DownloadShapes
    <2>2. fetch' = [fetch EXCEPT ![m].pc = "stream", ![m].hash = part[m]]
          /\ UNCHANGED <<installed, part, chosen, selecting, doubled>>
        BY <1>4 DEF Downloads!Resumes
    <2>3. /\ fetch' \in [Models -> Fetch]
          /\ fetch'[m].pc = "stream" /\ fetch'[m].hash = part[m]
          /\ \A n \in Models : n # m => fetch'[n] = fetch[n]
        BY <1>0, <2>1, <2>2, StreamStarts
    <2>4. FollowedInv(m)'
        BY <1>0, <2>2, <2>3 DEF FollowedInv, InstalledIsWhole, HashedPart, Downloads!Whole
    <2> QED BY <2>2, <2>3, <2>4, FilesRest
<1>5. CASE Downloads!RequestFails(m) \/ Downloads!StreamBreaks(m)
    <2>1. Downloads!NextSource(m) /\ UNCHANGED <<installed, part, chosen, selecting, doubled>>
        BY <1>5 DEF Downloads!RequestFails, Downloads!StreamBreaks
    <2> QED BY <1>0, <2>1, AfterSource, PromisesNothing, FilesRest
<1>6. CASE Downloads!StreamEnds(m)
    <2>1. PICK pc \in {"verified", "corrupt"} :
             /\ Downloads!Fetches(m, pc)
             /\ pc = "verified" => Downloads!Whole(fetch[m].hash)
        BY <1>6 DEF Downloads!StreamEnds
    <2>2. fetch[m].pc = "stream" /\ UNCHANGED <<installed, part, chosen, selecting, doubled>>
        BY <1>6 DEF Downloads!StreamEnds
    <2>3. /\ fetch' \in [Models -> Fetch]
          /\ fetch'[m].pc = pc /\ fetch'[m].hash = fetch[m].hash
          /\ \A n \in Models : n # m => fetch'[n] = fetch[n]
        BY <1>0, <2>1, FetchGoes DEF FetchSteps
    <2>4. FollowedInv(m)'
        BY <1>0, <2>1, <2>2, <2>3 DEF FollowedInv, InstalledIsWhole, HashedPart,
               Downloads!Whole
    <2> QED BY <2>2, <2>3, <2>4, FilesRest
<1>7. CASE Downloads!LastCancelCheck(m)
    <2>1. fetch[m].pc = "verified" /\ UNCHANGED <<installed, part, chosen, selecting, doubled>>
        BY <1>7 DEF Downloads!LastCancelCheck
    <2>2. CASE Downloads!NextSource(m)
        BY <1>0, <2>1, <2>2, AfterSource, PromisesNothing, FilesRest
    <2>3. CASE Downloads!Fetches(m, "install")
        <3>1. /\ fetch' \in [Models -> Fetch]
              /\ fetch'[m].pc = "install" /\ fetch'[m].hash = fetch[m].hash
              /\ \A n \in Models : n # m => fetch'[n] = fetch[n]
            BY <1>0, <2>3, FetchGoes DEF FetchSteps
        <3>2. FollowedInv(m)'
            BY <1>0, <2>1, <3>1
            DEF FollowedInv, InstalledIsWhole, HashedPart, Downloads!Whole
        <3> QED BY <2>1, <3>1, <3>2, FilesRest
    <2> QED BY <1>7, <2>2, <2>3 DEF Downloads!LastCancelCheck
<1>8. CASE Downloads!ListDone(m) \/ Downloads!ListFailed(m)
    <2>1. /\ Downloads!Fetches(m, "leaving")
          /\ UNCHANGED <<installed, part, chosen, selecting, doubled>>
        BY <1>8 DEF Downloads!ListDone, Downloads!ListFailed
    <2> QED BY <1>0, <2>1, FetchGoes, PromisesNothing, FilesRest DEF FetchSteps
<1>9. CASE Downloads!CancelDownload(m)
    <2>1. UNCHANGED <<installed, part, chosen, selecting, fetch, doubled>>
        BY <1>9 DEF Downloads!CancelDownload
    <2>2. FollowedInv(m)'
        BY <1>0, <2>1 DEF FollowedInv, InstalledIsWhole, HashedPart, Downloads!Whole
    <2> QED BY <1>0, <2>1, <2>2, FilesRest
<1> QED BY <1>1, <1>2, <1>3, <1>4, <1>5, <1>6, <1>7, <1>8, <1>9

\* A step of a model that moves its files or decides on it.
LEMMA FilesMove ==
    ASSUME DownloadAssumption, DownloadInv, NEW m \in Models \ doubled, doubled' = doubled,
           chosen' \in {chosen, m, None}, DownloadShapes', FollowedInv(m)',
           \A n \in Models : n # m => /\ installed'[n] = installed[n] /\ part'[n] = part[n]
                                      /\ fetch'[n] = fetch[n] /\ selecting'[n] = selecting[n]
    PROVE  DownloadInv'
<1>1. ASSUME NEW n \in Models \ doubled' PROVE FollowedInv(n)'
    BY <1>1, OthersFollowed DEF DownloadAssumption, DownloadInv
<1> QED BY <1>1 DEF DownloadInv

\* The steps of a download that write, remove or install files.
LEMMA FileSteps ==
    ASSUME DownloadAssumption, DownloadInv, NEW m \in Models \ doubled,
           \/ Downloads!UsePresent(m) \/ Downloads!Restarts(m) \/ Downloads!RangeRefused(m)
           \/ (\E good \in BOOLEAN : Downloads!Receive(m, good))
           \/ Downloads!DiscardCorrupt(m) \/ Downloads!InstallPart(m)
           \/ Downloads!ChooseInstalled(m) \/ Downloads!PlaceFile(m)
    PROVE  DownloadInv'
<1> USE DEF DownloadInv
<1>0. fetch \in [Models -> Fetch] /\ FollowedInv(m) /\ DownloadShapes
    BY DEF DownloadShapes
<1>1. CASE Downloads!UsePresent(m)
    <2>0. UNCHANGED <<part, chosen, selecting, doubled>>
        BY <1>1 DEF Downloads!UsePresent
    <2>1. CASE /\ installed[m] # None /\ Downloads!Whole(installed[m])
               /\ Downloads!Fetches(m, "choose") /\ UNCHANGED installed
        <3>1. /\ fetch' \in [Models -> Fetch] /\ fetch'[m].pc = "choose"
              /\ \A n \in Models : n # m => fetch'[n] = fetch[n]
            BY <1>0, <2>1, FetchGoes DEF FetchSteps
        <3>2. FollowedInv(m)'
            BY <1>0, <2>0, <2>1, <3>1
            DEF FollowedInv, InstalledIsWhole, HashedPart, Downloads!Whole
        <3> QED BY <2>0, <2>1, <3>1, <3>2, FilesRest
    <2>2. CASE /\ Downloads!Fetches(m, "source")
               /\ installed' = [installed EXCEPT ![m] = None]
        <3>1. /\ fetch' \in [Models -> Fetch] /\ fetch'[m].pc = "source"
              /\ \A n \in Models : n # m => fetch'[n] = fetch[n]
            BY <1>0, <2>2, FetchGoes DEF FetchSteps
        <3>2. DownloadShapes' /\ installed'[m] = None
              /\ \A n \in Models : n # m => installed'[n] = installed[n]
            BY <1>0, <2>0, <2>2, <3>1 DEF DownloadShapes
        <3>3. FollowedInv(m)'
            BY <3>1, <3>2 DEF FollowedInv, InstalledIsWhole, HashedPart
        <3> QED BY <2>0, <3>1, <3>2, <3>3, FilesMove
    <2> QED BY <1>1, <2>1, <2>2 DEF Downloads!UsePresent
<1>2. CASE Downloads!Restarts(m)
    <2>0. UNCHANGED <<installed, chosen, selecting, doubled>>
          /\ part' = [part EXCEPT ![m] = Downloads!Empty]
          /\ fetch[m].pc = "request"
        BY <1>2 DEF Downloads!Restarts
    <2>1. Downloads!Empty \in File
        BY DEF Downloads!Empty, File
    <2>2. /\ fetch' \in [Models -> Fetch]
          /\ fetch'[m].pc = "stream" /\ fetch'[m].hash = Downloads!Empty
          /\ \A n \in Models : n # m => fetch'[n] = fetch[n]
        BY <1>0, <1>2, <2>1, StreamStarts DEF Downloads!Restarts
    <2>3. DownloadShapes' /\ part'[m] = Downloads!Empty
          /\ \A n \in Models : n # m => part'[n] = part[n]
        BY <1>0, <2>0, <2>1, <2>2 DEF DownloadShapes
    <2>4. FollowedInv(m)'
        BY <1>0, <2>0, <2>2, <2>3
        DEF FollowedInv, InstalledIsWhole, HashedPart, Downloads!Whole
    <2> QED BY <2>0, <2>2, <2>3, <2>4, FilesMove
<1>3. CASE Downloads!RangeRefused(m)
    <2>0. UNCHANGED <<installed, chosen, selecting, doubled>>
        BY <1>3 DEF Downloads!RangeRefused
    <2>1. CASE /\ Downloads!Whole(part[m]) /\ Downloads!Fetches(m, "install")
               /\ UNCHANGED part
        <3>1. /\ fetch' \in [Models -> Fetch] /\ fetch'[m].pc = "install"
              /\ \A n \in Models : n # m => fetch'[n] = fetch[n]
            BY <1>0, <2>1, FetchGoes DEF FetchSteps
        <3>2. FollowedInv(m)'
            BY <1>0, <2>0, <2>1, <3>1
            DEF FollowedInv, InstalledIsWhole, HashedPart, Downloads!Whole
        <3> QED BY <2>0, <2>1, <3>1, <3>2, FilesRest
    <2>2. CASE part' = [part EXCEPT ![m] = None] /\ Downloads!NextSource(m)
        <3>1. /\ fetch' \in [Models -> Fetch] /\ fetch'[m].pc \in {"source", "failed"}
              /\ \A n \in Models : n # m => fetch'[n] = fetch[n]
            BY <1>0, <2>2, AfterSource
        <3>2. DownloadShapes' /\ \A n \in Models : n # m => part'[n] = part[n]
            BY <1>0, <2>0, <2>2, <3>1 DEF DownloadShapes
        <3>3. FollowedInv(m)'
            BY <1>0, <2>0, <3>1 DEF FollowedInv, InstalledIsWhole, HashedPart,
                   Downloads!Whole
        <3> QED BY <2>0, <3>1, <3>2, <3>3, FilesMove
    <2> QED BY <1>3, <2>1, <2>2 DEF Downloads!RangeRefused
<1>4. ASSUME NEW good \in BOOLEAN, Downloads!Receive(m, good) PROVE DownloadInv'
    <2>0. UNCHANGED <<installed, chosen, selecting, doubled>> /\ fetch[m].pc = "stream"
        BY <1>4 DEF Downloads!Receive
    <2>1. CASE Downloads!NextSource(m) /\ UNCHANGED part
        BY <1>0, <2>0, <2>1, AfterSource, PromisesNothing, FilesRest
    <2>2. CASE /\ fetch' = [fetch EXCEPT ![m].hash =
                                [len |-> @.len + 1, good |-> @.good /\ good]]
               /\ part' = [part EXCEPT ![m] = IF @ = None THEN None ELSE
                                [len |-> @.len + 1, good |-> @.good /\ good]]
        <3>1. /\ fetch' \in [Models -> Fetch]
              /\ fetch'[m].pc = "stream"
              /\ fetch'[m].hash = [len  |-> fetch[m].hash.len + 1,
                                   good |-> fetch[m].hash.good /\ good]
              /\ \A n \in Models : n # m => fetch'[n] = fetch[n]
            BY <1>0, <2>0, <2>2, PieceHashed
        <3>2. part[m] = None \/ part[m] = fetch[m].hash
            BY <1>0, <2>0 DEF FollowedInv, HashedPart
        <3>3. fetch[m].hash \in File /\ fetch'[m].hash \in File
            BY <1>0, <3>1 DEF Fetch
        <3>4. part' = [part EXCEPT ![m] = IF part[m] = None THEN None ELSE fetch'[m].hash]
            BY <2>2, <3>1, <3>2
        <3>5. /\ DownloadShapes' /\ part'[m] \in {None, fetch'[m].hash}
              /\ \A n \in Models : n # m => part'[n] = part[n]
            BY <1>0, <2>0, <3>1, <3>3, <3>4 DEF DownloadShapes
        <3>6. FollowedInv(m)'
            BY <1>0, <2>0, <3>1, <3>5
            DEF FollowedInv, InstalledIsWhole, HashedPart, Downloads!Whole
        <3> QED BY <2>0, <3>1, <3>5, <3>6, FilesMove
    <2> QED BY <1>4, <2>1, <2>2 DEF Downloads!Receive
<1>5. CASE Downloads!DiscardCorrupt(m)
    <2>0. /\ UNCHANGED <<installed, chosen, selecting, doubled>>
          /\ part' = [part EXCEPT ![m] = None] /\ Downloads!NextSource(m)
        BY <1>5 DEF Downloads!DiscardCorrupt
    <2>1. /\ fetch' \in [Models -> Fetch] /\ fetch'[m].pc \in {"source", "failed"}
          /\ \A n \in Models : n # m => fetch'[n] = fetch[n]
        BY <1>0, <2>0, AfterSource
    <2>2. DownloadShapes' /\ \A n \in Models : n # m => part'[n] = part[n]
        BY <1>0, <2>0, <2>1 DEF DownloadShapes
    <2>3. FollowedInv(m)'
        BY <1>0, <2>0, <2>1 DEF FollowedInv, InstalledIsWhole, HashedPart, Downloads!Whole
    <2> QED BY <2>0, <2>1, <2>2, <2>3, FilesMove
<1>6. CASE Downloads!InstallPart(m)
    <2>0. UNCHANGED <<chosen, selecting, doubled>> /\ fetch[m].pc = "install"
        BY <1>6 DEF Downloads!InstallPart
    <2>1. CASE Downloads!NextSource(m) /\ UNCHANGED <<installed, part>>
        BY <1>0, <2>0, <2>1, AfterSource, PromisesNothing, FilesRest
    <2>2. CASE /\ part[m] # None /\ installed' = [installed EXCEPT ![m] = part[m]]
               /\ part' = [part EXCEPT ![m] = None] /\ Downloads!Fetches(m, "choose")
        <3>1. /\ fetch' \in [Models -> Fetch] /\ fetch'[m].pc = "choose"
              /\ \A n \in Models : n # m => fetch'[n] = fetch[n]
            BY <1>0, <2>2, FetchGoes DEF FetchSteps
        <3>2. /\ DownloadShapes' /\ installed'[m] = part[m]
              /\ \A n \in Models : n # m => installed'[n] = installed[n] /\ part'[n] = part[n]
            BY <1>0, <2>0, <2>2, <3>1 DEF DownloadShapes
        <3>3. Downloads!Whole(part[m])
            BY <1>0, <2>0, <2>2 DEF FollowedInv, HashedPart
        <3>4. FollowedInv(m)'
            BY <3>1, <3>2, <3>3 DEF FollowedInv, InstalledIsWhole, HashedPart,
                   Downloads!Whole
        <3> QED BY <2>0, <3>1, <3>2, <3>4, FilesMove
    <2> QED BY <1>6, <2>1, <2>2 DEF Downloads!InstallPart
<1>7. CASE Downloads!ChooseInstalled(m)
    <2>0. /\ UNCHANGED <<installed, part, selecting, doubled>> /\ fetch[m].pc = "choose"
          /\ chosen' = m /\ Downloads!Fetches(m, "done")
        BY <1>7 DEF Downloads!ChooseInstalled
    <2>1. /\ fetch' \in [Models -> Fetch] /\ fetch'[m].pc = "done"
          /\ \A n \in Models : n # m => fetch'[n] = fetch[n]
        BY <1>0, <2>0, FetchGoes DEF FetchSteps
    <2>2. DownloadShapes'
        BY <1>0, <2>0, <2>1 DEF DownloadShapes
    <2>3. FollowedInv(m)'
        BY <1>0, <2>0, <2>1 DEF FollowedInv, InstalledIsWhole, HashedPart, Downloads!Whole
    <2> QED BY <2>0, <2>1, <2>2, <2>3, FilesMove
<1>8. CASE Downloads!PlaceFile(m)
    <2> DEFINE file == [len |-> ModelSize, good |-> FALSE]
    <2>0. /\ UNCHANGED <<part, chosen, selecting, fetch, doubled>>
          /\ fetch[m].pc = "idle" /\ selecting[m] = "idle" /\ chosen # m
          /\ installed' = [installed EXCEPT ![m] = file]
        BY <1>8 DEF Downloads!PlaceFile
    <2>1. file \in File
        BY DEF File, DownloadAssumption
    <2>2. DownloadShapes' /\ \A n \in Models : n # m => installed'[n] = installed[n]
        <3> HIDE DEF file
        <3> QED BY <1>0, <2>0, <2>1 DEF DownloadShapes
    <2>3. FollowedInv(m)'
        BY <1>0, <2>0 DEF FollowedInv, InstalledIsWhole, HashedPart, Downloads!Whole
    <2> QED BY <2>0, <2>2, <2>3, FilesMove
<1> QED BY <1>1, <1>2, <1>3, <1>4, <1>5, <1>6, <1>7, <1>8

\* The commands that remove a model or select it.
LEMMA CommandSteps ==
    ASSUME DownloadAssumption, DownloadInv, NEW m \in Models \ doubled,
           \/ Downloads!Uninstall(m) \/ Downloads!UninstallStep(m)
           \/ Downloads!SelectModel(m) \/ Downloads!SaveSelection(m)
    PROVE  DownloadInv'
<1> USE DEF DownloadInv
<1>0. fetch \in [Models -> Fetch] /\ FollowedInv(m) /\ DownloadShapes
    BY DEF DownloadShapes
<1>1. CASE Downloads!Uninstall(m) \/ Downloads!RemoveEntry(m) \/ Downloads!ClearSetting(m)
    <2>1. UNCHANGED <<installed, part, selecting, fetch, doubled>> /\ chosen' \in {chosen, None}
        BY <1>1 DEF Downloads!Uninstall, Downloads!RemoveEntry, Downloads!ClearSetting
    <2>2. FollowedInv(m)' /\ DownloadShapes'
        BY <1>0, <2>1
        DEF FollowedInv, InstalledIsWhole, HashedPart, Downloads!Whole, DownloadShapes,
            DownloadAssumption
    <2> QED BY <2>1, <2>2, FilesMove
<1>2. CASE Downloads!RemoveFile(m)
    <2>1. /\ UNCHANGED <<part, chosen, selecting, fetch, doubled>>
          /\ installed' = [installed EXCEPT ![m] = None]
        BY <1>2 DEF Downloads!RemoveFile
    <2>2. /\ DownloadShapes' /\ installed'[m] = None
          /\ \A n \in Models : n # m => installed'[n] = installed[n]
        BY <1>0, <2>1 DEF DownloadShapes
    <2>3. FollowedInv(m)'
        BY <1>0, <2>1, <2>2 DEF FollowedInv, InstalledIsWhole, HashedPart, Downloads!Whole
    <2> QED BY <2>1, <2>2, <2>3, FilesMove
<1>3. CASE Downloads!RemovePart(m)
    <2>1. /\ UNCHANGED <<installed, chosen, selecting, fetch, doubled>>
          /\ part' = [part EXCEPT ![m] = None]
        BY <1>3 DEF Downloads!RemovePart
    <2>2. /\ DownloadShapes' /\ part'[m] = None
          /\ \A n \in Models : n # m => part'[n] = part[n]
        BY <1>0, <2>1 DEF DownloadShapes
    <2>3. FollowedInv(m)'
        BY <1>0, <2>1, <2>2 DEF FollowedInv, InstalledIsWhole, HashedPart, Downloads!Whole
    <2> QED BY <2>1, <2>2, <2>3, FilesMove
<1>4. CASE Downloads!SelectModel(m) \/ Downloads!SaveSelection(m)
    <2>1. /\ UNCHANGED <<installed, part, fetch, doubled>> /\ chosen' \in {chosen, m}
          /\ installed[m] = None \/ Downloads!Whole(installed[m])
        BY <1>0, <1>4
        DEF Downloads!SelectModel, Downloads!SaveSelection, FollowedInv, InstalledIsWhole
    <2>2. /\ selecting' \in [Models -> {"idle", "verified"}]
          /\ \A n \in Models : n # m => selecting'[n] = selecting[n]
        BY <1>0, <1>4 DEF Downloads!SelectModel, Downloads!SaveSelection, DownloadShapes
    <2>3. FollowedInv(m)' /\ DownloadShapes'
        BY <1>0, <2>1, <2>2
        DEF FollowedInv, InstalledIsWhole, HashedPart, Downloads!Whole, DownloadShapes
    <2> QED BY <2>1, <2>2, <2>3, FilesMove
<1> QED BY <1>1, <1>2, <1>3, <1>4 DEF Downloads!UninstallStep

\* After a crash the files and the setting are what they were; nothing runs.
LEMMA CrashStep ==
    ASSUME DownloadInv, Downloads!CrashDownloads PROVE DownloadInv'
<1> USE DEF DownloadInv
<1>1. /\ Downloads!Resting \in Fetch /\ Downloads!Resting.pc = "idle"
    BY DEF Downloads!Resting, Downloads!Empty, Fetch, FetchSteps, File
<1>2. UNCHANGED <<installed, part, chosen, doubled>>
      /\ fetch' = [n \in Models |-> Downloads!Resting]
      /\ selecting' = [n \in Models |-> "idle"]
    BY DEF Downloads!CrashDownloads
<1>3. DownloadShapes'
    BY <1>1, <1>2 DEF DownloadShapes
<1>4. ASSUME NEW n \in Models \ doubled' PROVE FollowedInv(n)'
    <2>1. FollowedInv(n) /\ fetch'[n].pc = "idle" /\ selecting'[n] = "idle"
        BY <1>1, <1>2
    <2> QED BY <1>2, <2>1 DEF FollowedInv, InstalledIsWhole, HashedPart, Downloads!Whole
<1> QED BY <1>3, <1>4

\* The model in use, where its file exists, is the file the catalog names, for any models of
\* any size, through every source, resumption, cancellation, crash and uninstall; set
\* apart are models that were downloaded twice at a time (model_download.rs).
THEOREM ChosenWasVerified ==
    ASSUME DownloadAssumption
    PROVE  Downloads!ModelSpec => []Downloads!ChosenIsVerified
<1>1. Downloads!ModelInit => DownloadInv
    <2> SUFFICES ASSUME Downloads!ModelInit PROVE DownloadInv
        OBVIOUS
    <2>1. /\ Downloads!Resting \in Fetch /\ Downloads!Resting.pc = "idle"
        BY DEF Downloads!Resting, Downloads!Empty, Fetch, FetchSteps, File
    <2>2. DownloadShapes
        BY <2>1 DEF Downloads!ModelInit, DownloadShapes
    <2>3. ASSUME NEW m \in Models PROVE FollowedInv(m)
        BY <2>1 DEF Downloads!ModelInit, FollowedInv, InstalledIsWhole, HashedPart
    <2> QED BY <2>2, <2>3 DEF DownloadInv
<1>2. DownloadInv /\ [Downloads!ModelNext]_(Downloads!modelVars) => DownloadInv'
    <2> SUFFICES ASSUME DownloadInv, [Downloads!ModelNext]_(Downloads!modelVars)
                 PROVE  DownloadInv'
        OBVIOUS
    <2>1. ASSUME NEW m \in Models \ doubled,
                 \/ Downloads!Reserve(m) \/ Downloads!DownloadStep(m)
                 \/ Downloads!CancelDownload(m) \/ Downloads!PlaceFile(m)
                 \/ Downloads!Uninstall(m) \/ Downloads!UninstallStep(m)
                 \/ Downloads!SelectModel(m) \/ Downloads!SaveSelection(m)
          PROVE  DownloadInv'
        BY <2>1, QuietSteps, FileSteps, CommandSteps DEF Downloads!DownloadStep
    <2>2. CASE Downloads!CrashDownloads
        BY <2>2, CrashStep
    <2>3. CASE UNCHANGED Downloads!modelVars
        BY <2>3
        DEF Downloads!modelVars, DownloadInv, DownloadShapes, FollowedInv, InstalledIsWhole,
            HashedPart, Downloads!Whole
    <2> QED BY <2>1, <2>2, <2>3 DEF Downloads!ModelNext
<1>3. DownloadInv => Downloads!ChosenIsVerified
    BY DEF DownloadInv, FollowedInv, InstalledIsWhole, Downloads!ChosenIsVerified
<1> QED BY <1>1, <1>2, <1>3, PTL DEF Downloads!ModelSpec

saved == x5
keychain == x6
cached == x7
marker == x8
active == x9
saving == x4
checking == x10
testing == x11
refreshing == x12
validation == x13
changes == x3
USE DEF saved, keychain, cached, marker, revision, active, saving, checking, testing,
        refreshing, validation, lapses, changes

(***************************************************************************)
(* DesktopSettings: what is shown as verified was tested.                  *)
(*                                                                         *)
(* A test names the revision of the credential it began with.  Its key is  *)
(* the stored one as long as that revision stands, because every change of *)
(* the key ends with a new revision, or with a lapse.                      *)
(***************************************************************************)
SaveSteps == {"idle", "profile", "keychain", "cache", "marker", "revision", "provider"}
TestSteps == {"idle", "profile", "key", "answer", "record"}

Secrets == Keys \cup {None}
Prints == [profile : Profiles, revision : Nat]
Savings == [pc : SaveSteps, profile : Profiles \cup {None}, key : Secrets \cup {"clear"}]
Checkings == [pc : {"idle", "cache", "marker"}, secret : Secrets]
Testings == [pc : TestSteps, print : Prints \cup {None}, profile : Profiles \cup {None},
             key : Secrets \cup {Environment}, ok : BOOLEAN]

SettingsShapes ==
    /\ saved \in Profiles /\ keychain \in Secrets /\ revision \in Nat
    /\ cached \in [loaded : BOOLEAN, secret : Secrets]
    /\ saving \in Savings /\ checking \in Checkings /\ testing \in Testings
    /\ saving.pc # "idle" => saving.profile \in Profiles
    /\ saving.pc = "keychain" => saving.key # None
    /\ testing.pc # "idle" => testing.print \in Prints
    /\ validation # None => validation.print \in Prints

\* Without a lapse, the cache is the store's key, but for the moment of a change.
CacheFollows ==
    "stale" \notin lapses /\ saving.pc # "cache" /\ cached.loaded => cached.secret = keychain

\* No result is of a revision to come; one of the present revision has the stored key.
Quiet == lapses = {} /\ ~Settings!Unrevised
TestIsCurrent ==
    /\ testing.pc # "idle" => testing.print.revision <= revision
    /\ testing.pc \in {"answer", "record"} /\ testing.print.revision = revision /\ Quiet =>
          testing.key = Settings!StoredKey
ValidationIsCurrent ==
    validation # None =>
        /\ validation.print.revision <= revision
        /\ validation.print.revision = revision /\ Quiet => validation.key = Settings!StoredKey

SettingsInv == SettingsShapes /\ CacheFollows /\ TestIsCurrent /\ ValidationIsCurrent

ProfilesAssumption == Profiles # {}

\* Nothing is saved or tested at first.
LEMMA SettingsInitially ==
    ASSUME ProfilesAssumption PROVE Settings!SettingsInit => SettingsInv
<1> SUFFICES ASSUME Settings!SettingsInit PROVE SettingsInv
    OBVIOUS
<1>1. Settings!First \in Profiles
    BY DEF ProfilesAssumption, Settings!First
<1> USE DEF Settings!SettingsInit, Settings!NoSave, Settings!NoCheck, Settings!NoTest,
            Settings!Unloaded
<1>2. SettingsShapes
    BY <1>1 DEF SettingsShapes, Secrets, Savings, Checkings, Testings, SaveSteps, TestSteps
<1> QED BY <1>2 DEF SettingsInv, CacheFollows, TestIsCurrent, ValidationIsCurrent

\* A save goes on to its next step.
LEMMA SaveGoes ==
    ASSUME saving \in Savings, NEW pc \in SaveSteps, saving' = [saving EXCEPT !.pc = pc]
    PROVE  /\ saving' \in Savings /\ saving'.pc = pc
           /\ saving'.profile = saving.profile /\ saving'.key = saving.key
BY Zenon DEF Savings

\* The steps of a save that are not about the key.
LEMMA ProfileSteps ==
    ASSUME SettingsInv,
           \/ \E p \in Profiles, k \in Keys \cup {None, "clear"} : Settings!Save(p, k)
           \/ Settings!SaveProfile \/ Settings!SaveReturns
    PROVE  SettingsInv'
<1> USE DEF SettingsInv
<1>0. UNCHANGED <<keychain, cached, revision, checking, testing, validation, lapses>>
    BY DEF Settings!Save, Settings!SaveProfile, Settings!SaveReturns
<1> DEFINE Goal == /\ saving' \in Savings /\ saved' \in Profiles
                   /\ saving'.pc # "idle" => saving'.profile \in Profiles
                   /\ saving'.pc = "keychain" => saving'.key # None
                   /\ saving'.pc \in {"idle", "profile", "keychain", "provider"}
                   /\ saving.pc \in {"idle", "profile", "provider"}
<1>1. Goal
    <2>1. ASSUME NEW p \in Profiles, NEW k \in Keys \cup {None, "clear"}, Settings!Save(p,
                 k)
          PROVE  Goal
        BY <2>1 DEF Settings!Save, SettingsShapes, Savings, SaveSteps, Secrets
    <2>2. CASE Settings!SaveProfile
        <3>1. PICK pc \in {"provider", "keychain"} :
                 /\ saving' = [saving EXCEPT !.pc = pc]
                 /\ pc = "keychain" => saving.key # None
            BY <2>2 DEF Settings!SaveProfile
        <3>2. /\ saving' \in Savings /\ saving'.pc = pc
              /\ saving'.profile = saving.profile /\ saving'.key = saving.key
            BY <3>1, SaveGoes DEF SettingsShapes, SaveSteps
        <3>3. saving.pc = "profile" /\ saved' = saving.profile
            BY <2>2 DEF Settings!SaveProfile
        <3> QED BY <3>1, <3>2, <3>3 DEF SettingsShapes
    <2>3. CASE Settings!SaveReturns
        BY <2>3 DEF Settings!SaveReturns, Settings!NoSave, SettingsShapes, Savings,
           SaveSteps, Secrets
    <2> QED BY <2>1, <2>2, <2>3
<1>2. SettingsShapes'
    BY <1>0, <1>1 DEF SettingsShapes
<1> QED
    BY <1>0, <1>1, <1>2
    DEF CacheFollows, TestIsCurrent, ValidationIsCurrent, Quiet, Settings!Unrevised,
        Settings!StoredKey

\* The steps of a change of the key: from the store to the new revision.
LEMMA KeySteps ==
    ASSUME SettingsInv,
           \/ Settings!SetKeychain \/ Settings!SetCache \/ Settings!SetMarker
           \/ Settings!SetRevision
    PROVE  SettingsInv'
<1> USE DEF SettingsInv
<1>0. UNCHANGED <<saved, checking, testing, validation>>
    BY DEF Settings!SetKeychain, Settings!SetCache, Settings!SetMarker, Settings!SetRevision
<1>1. CASE Settings!SetKeychain
    <2>0. UNCHANGED <<cached, revision, lapses>> /\ saving.pc = "keychain"
        BY <1>1 DEF Settings!SetKeychain
    <2>1. CASE /\ keychain' = IF saving.key = "clear" THEN None ELSE saving.key
               /\ saving' = [saving EXCEPT !.pc = "cache"]
        <3>1. /\ saving' \in Savings /\ saving'.pc = "cache"
              /\ saving'.profile = saving.profile
            BY <2>1, SaveGoes DEF SettingsShapes, SaveSteps
        <3>2. keychain' \in Secrets
            BY <2>1 DEF SettingsShapes, Savings, Secrets
        <3>3. SettingsShapes'
            BY <1>0, <2>0, <3>1, <3>2 DEF SettingsShapes
        <3> QED
            BY <1>0, <2>0, <3>1, <3>3
            DEF CacheFollows, TestIsCurrent, ValidationIsCurrent, Quiet, Settings!Unrevised
    <2>2. CASE saving' = Settings!NoSave /\ UNCHANGED keychain
        <3>1. saving' \in Savings /\ saving'.pc = "idle"
            BY <2>2 DEF Settings!NoSave, Savings, SaveSteps, Secrets
        <3>2. SettingsShapes'
            BY <1>0, <2>0, <2>2, <3>1 DEF SettingsShapes
        <3> QED
            BY <1>0, <2>0, <2>2, <3>1, <3>2
            DEF CacheFollows, TestIsCurrent, ValidationIsCurrent, Quiet, Settings!Unrevised,
                Settings!StoredKey
    <2> QED BY <1>1, <2>1, <2>2 DEF Settings!SetKeychain
<1>2. CASE Settings!SetCache
    <2>1. /\ saving' \in Savings /\ saving'.pc = "marker" /\ saving'.profile = saving.profile
        BY <1>2, SaveGoes DEF Settings!SetCache, SettingsShapes, SaveSteps
    <2>2. /\ UNCHANGED <<keychain, revision, lapses>> /\ saving.pc = "cache"
          /\ cached' = Settings!Loaded(keychain)
        BY <1>2 DEF Settings!SetCache
    <2>3. SettingsShapes' /\ cached'.secret = keychain
        BY <1>0, <2>1, <2>2 DEF SettingsShapes, Settings!Loaded
    <2> QED
        BY <1>0, <2>1, <2>2, <2>3
        DEF CacheFollows, TestIsCurrent, ValidationIsCurrent, Quiet, Settings!Unrevised
<1>3. CASE Settings!SetMarker
    <2>1. saving' \in Savings /\ saving'.pc = "revision" /\ saving'.profile = saving.profile
        BY <1>3, SaveGoes DEF Settings!SetMarker, SettingsShapes, SaveSteps
    <2>2. UNCHANGED <<keychain, cached, revision, lapses>> /\ saving.pc = "marker"
        BY <1>3 DEF Settings!SetMarker
    <2>3. SettingsShapes'
        BY <1>0, <2>1, <2>2 DEF SettingsShapes
    <2> QED
        BY <1>0, <2>1, <2>2, <2>3
        DEF CacheFollows, TestIsCurrent, ValidationIsCurrent, Quiet, Settings!Unrevised
<1>4. CASE Settings!SetRevision
    <2>1. saving' \in Savings /\ saving'.pc = "provider" /\ saving'.profile = saving.profile
        BY <1>4, SaveGoes DEF Settings!SetRevision, SettingsShapes, SaveSteps
    <2>2. /\ UNCHANGED <<keychain, cached>> /\ saving.pc = "revision"
          /\ revision' = revision + 1 /\ lapses' = lapses \ {"cut"}
        BY <1>4 DEF Settings!SetRevision
    <2>3. SettingsShapes'
        BY <1>0, <2>1, <2>2 DEF SettingsShapes
    <2>4. /\ testing.pc # "idle" => testing.print.revision < revision'
          /\ validation # None => validation.print.revision < revision'
        BY <2>2 DEF SettingsShapes, TestIsCurrent, ValidationIsCurrent, Prints
    <2>5. CacheFollows'
        BY <1>0, <2>1, <2>2 DEF CacheFollows
    <2>6. TestIsCurrent' /\ ValidationIsCurrent'
        <3>1. /\ testing.pc # "idle" => testing.print.revision \in Nat
              /\ validation # None => validation.print.revision \in Nat /\ revision' \in Nat
            BY <2>2 DEF SettingsShapes, Prints
        <3> QED BY <1>0, <2>2, <2>4, <3>1 DEF SettingsShapes, TestIsCurrent,
                       ValidationIsCurrent
    <2> QED BY <2>3, <2>5, <2>6
<1> QED BY <1>1, <1>2, <1>3, <1>4

\* A save that is cut leaves a lapse where the key was changed.
LEMMA SaveErrsStep ==
    ASSUME SettingsInv, Settings!SaveErrs PROVE SettingsInv'
<1> USE DEF SettingsInv
<1>0. /\ UNCHANGED <<saved, keychain, cached, revision, checking, testing, validation>>
      /\ saving.pc \in {"profile", "marker", "revision"}
      /\ lapses' = lapses \cup IF Settings!Unrevised THEN {"cut"} ELSE {}
    BY DEF Settings!SaveErrs
<1>1. saving' \in Savings /\ saving'.pc = "idle"
    BY DEF Settings!SaveErrs, Settings!NoSave, Savings, SaveSteps, Secrets
<1>2. SettingsShapes'
    BY <1>0, <1>1 DEF SettingsShapes
<1>3. CacheFollows'
    BY <1>0, <1>1 DEF CacheFollows
<1>4. Quiet' => Quiet
    BY <1>0 DEF Quiet, Settings!Unrevised
<1> QED
    BY <1>0, <1>2, <1>3, <1>4 DEF TestIsCurrent, ValidationIsCurrent, Settings!StoredKey

\* The check of a key, and the provider made again from the rows.
LEMMA CheckSteps ==
    ASSUME SettingsInv,
           \/ Settings!CheckKey \/ (\E yes \in BOOLEAN : Settings!CheckCaches(yes))
           \/ Settings!CheckMarks \/ Settings!Refresh \/ Settings!RefreshReplaces
    PROVE  SettingsInv'
<1> USE DEF SettingsInv
<1>0. UNCHANGED <<saved, keychain, revision, saving, testing, validation>>
    BY DEF Settings!CheckKey, Settings!CheckCaches, Settings!CheckMarks, Settings!Refresh,
       Settings!RefreshReplaces
<1>1. checking' \in Checkings
    <2>1. CASE Settings!CheckKey
        BY <2>1 DEF Settings!CheckKey, SettingsShapes, Checkings
    <2>2. ASSUME NEW yes \in BOOLEAN, Settings!CheckCaches(yes)
          PROVE  checking' \in Checkings
        <3>1. Settings!NoCheck \in Checkings
            BY DEF Settings!NoCheck, Checkings, Secrets
        <3>2. [checking EXCEPT !.pc = "marker"] \in Checkings
            BY Zenon DEF SettingsShapes, Checkings
        <3> QED BY <2>2, <3>1, <3>2, Zenon DEF Settings!CheckCaches
    <2>3. CASE Settings!CheckMarks
        BY <2>3 DEF Settings!CheckMarks, Settings!NoCheck, Checkings, Secrets
    <2>4. CASE Settings!Refresh \/ Settings!RefreshReplaces
        BY <2>4 DEF Settings!Refresh, Settings!RefreshReplaces, SettingsShapes
    <2> QED BY <2>1, <2>2, <2>3, <2>4
<1> DEFINE Cache == /\ cached' \in [loaded : BOOLEAN, secret : Secrets]
                    /\ lapses \subseteq lapses'
                    /\ "stale" \notin lapses' =>
                          cached' = cached \/ (cached'.secret = keychain /\ lapses' = lapses)
<1>2. Cache
    <2>1. ASSUME NEW yes \in BOOLEAN, Settings!CheckCaches(yes) PROVE Cache
        <3>1. PICK s \in Secrets : cached' = Settings!Loaded(s)
            BY <2>1 DEF Settings!CheckCaches, SettingsShapes, Checkings, Secrets
        <3>2. cached' \in [loaded : BOOLEAN, secret : Secrets] /\ cached'.secret = s
            BY <3>1 DEF Settings!Loaded
        <3> QED BY <2>1, <3>2 DEF Settings!CheckCaches
    <2>2. CASE \/ Settings!CheckKey \/ Settings!CheckMarks \/ Settings!Refresh
               \/ Settings!RefreshReplaces
        BY <2>2 DEF Settings!CheckKey, Settings!CheckMarks, Settings!Refresh,
           Settings!RefreshReplaces, SettingsShapes
    <2> QED BY <2>1, <2>2
<1>3. SettingsShapes'
    BY <1>0, <1>1, <1>2 DEF SettingsShapes
<1>4. CacheFollows'
    BY <1>0, <1>2 DEF CacheFollows
<1>5. Quiet' => Quiet
    BY <1>0, <1>2 DEF Quiet, Settings!Unrevised
<1> QED
    BY <1>0, <1>3, <1>4, <1>5 DEF TestIsCurrent, ValidationIsCurrent, Settings!StoredKey

\* The steps of the connection test.
LEMMA TestingSteps ==
    ASSUME SettingsInv,
           \/ Settings!TestConnection \/ Settings!TestBuilds
           \/ (\E yes \in BOOLEAN : Settings!TestResolves(yes) \/ Settings!TestAnswered(yes))
           \/ Settings!TestRecords
    PROVE  SettingsInv'
<1> USE DEF SettingsInv
<1>0. /\ UNCHANGED <<saved, keychain, revision, saving, checking>>
      /\ testing \in [pc : TestSteps, print : Prints \cup {None},
                      profile : Profiles \cup {None}, key : Secrets \cup {Environment},
                      ok : BOOLEAN]
    BY DEF Settings!TestConnection, Settings!TestBuilds, Settings!TestResolves,
       Settings!TestAnswered, Settings!TestRecords, SettingsShapes, Testings
<1>1. CASE Settings!TestConnection
    <2> DEFINE print == Settings!Fingerprint
    <2>1. print \in Prints /\ print.revision = revision
        BY DEF Settings!Fingerprint, Prints, SettingsShapes
    <2>2. testing' \in Testings /\ testing'.pc = "profile" /\ testing'.print = print
        <3>1. Settings!NoTest \in [pc : TestSteps, print : Prints \cup {None},
                      profile : Profiles \cup {None}, key : Secrets \cup {Environment},
                      ok : BOOLEAN]
            BY DEF Settings!NoTest, TestSteps, Secrets
        <3> HIDE DEF print
        <3>2. testing' = [Settings!NoTest EXCEPT !.pc = "profile", !.print = print]
            BY <1>1 DEF Settings!TestConnection, print
        <3> QED BY <2>1, <3>1, <3>2, Zenon DEF Testings, TestSteps
    <2>3. UNCHANGED <<cached, validation, lapses>>
        BY <1>1 DEF Settings!TestConnection
    <2> HIDE DEF print
    <2>4. SettingsShapes'
        BY <1>0, <2>1, <2>2, <2>3 DEF SettingsShapes
    <2> QED
        BY <1>0, <2>1, <2>2, <2>3, <2>4
        DEF CacheFollows, TestIsCurrent, ValidationIsCurrent, Quiet, Settings!Unrevised,
            Settings!StoredKey, SettingsShapes
<1>2. CASE Settings!TestBuilds
    <2>1. /\ testing' \in Testings /\ testing'.pc = "key" /\ testing'.print = testing.print
        <3>1. testing' = [testing EXCEPT !.pc = "key", !.profile = saved]
              /\ saved \in Profiles \cup {None}
            BY <1>2 DEF Settings!TestBuilds, SettingsShapes
        <3> QED BY <1>0, <3>1, Zenon DEF Testings, TestSteps
    <2>2. UNCHANGED <<cached, validation, lapses>> /\ testing.pc = "profile"
        BY <1>2 DEF Settings!TestBuilds
    <2>3. SettingsShapes'
        BY <1>0, <2>1, <2>2 DEF SettingsShapes
    <2> QED
        BY <1>0, <2>1, <2>2, <2>3
        DEF CacheFollows, TestIsCurrent, ValidationIsCurrent, Quiet, Settings!Unrevised,
            Settings!StoredKey
<1>3. ASSUME NEW yes \in BOOLEAN, Settings!TestResolves(yes) PROVE SettingsInv'
    <2> DEFINE key == IF cached'.secret # None THEN cached'.secret ELSE Environment
    <2>1. /\ cached' \in [loaded : BOOLEAN, secret : Secrets]
          /\ lapses \subseteq lapses'
          /\ "stale" \notin lapses' =>
                cached' = cached \/ (cached'.secret = keychain /\ lapses' = lapses)
          /\ "stale" \notin lapses' /\ ~cached.loaded => cached'.secret = keychain
          /\ cached.loaded => cached' = cached
        <3>1. CASE cached.loaded
            BY <1>3, <3>1 DEF Settings!TestResolves, SettingsShapes
        <3>2. CASE ~cached.loaded
            <4>1. PICK s \in Secrets : cached' = Settings!Loaded(s)
                BY <1>3, <3>2 DEF Settings!TestResolves, SettingsShapes, Secrets
            <4>2. cached' \in [loaded : BOOLEAN, secret : Secrets] /\ cached'.secret = s
                BY <4>1 DEF Settings!Loaded
            <4> QED BY <1>3, <3>2, <4>2 DEF Settings!TestResolves
        <3> QED BY <3>1, <3>2
    <2>2. key \in Secrets \cup {Environment}
        BY <2>1 DEF Secrets
    <2>3. testing' \in Testings /\ testing'.pc = "answer" /\ testing'.print = testing.print
          /\ testing'.key = key
        <3>1. testing' = [testing EXCEPT !.pc = "answer", !.key = key]
            BY <1>3 DEF Settings!TestResolves
        <3> HIDE DEF key
        <3> QED BY <1>0, <2>2, <3>1, Zenon DEF Testings, TestSteps
    <2>4. UNCHANGED validation /\ testing.pc = "key"
        BY <1>3 DEF Settings!TestResolves
    <2>5. SettingsShapes'
        BY <1>0, <2>1, <2>3, <2>4 DEF SettingsShapes
    <2>6. CacheFollows'
        BY <1>0, <2>1 DEF CacheFollows
    <2>7. Quiet' => Quiet /\ "stale" \notin lapses' /\ saving.pc # "cache"
        BY <1>0, <2>1 DEF Quiet, Settings!Unrevised
    <2>8. Quiet' => key = Settings!StoredKey
        BY <2>1, <2>7 DEF CacheFollows, Quiet, Settings!StoredKey
    <2> HIDE DEF key
    <2> QED
        BY <1>0, <2>3, <2>4, <2>5, <2>6, <2>7, <2>8
        DEF TestIsCurrent, ValidationIsCurrent, Settings!StoredKey
<1>4. ASSUME NEW ok \in BOOLEAN, Settings!TestAnswered(ok) PROVE SettingsInv'
    <2>1. /\ testing' \in Testings /\ testing'.pc = "record" /\ testing'.print = testing.print
          /\ testing'.key = testing.key
        <3>1. testing' = [testing EXCEPT !.pc = "record", !.ok = ok]
            BY <1>4 DEF Settings!TestAnswered
        <3> QED BY <1>0, <3>1, Zenon DEF Testings, TestSteps
    <2>2. UNCHANGED <<cached, validation, lapses>> /\ testing.pc = "answer"
        BY <1>4 DEF Settings!TestAnswered
    <2>3. SettingsShapes'
        BY <1>0, <2>1, <2>2 DEF SettingsShapes
    <2> QED
        BY <1>0, <2>1, <2>2, <2>3
        DEF CacheFollows, TestIsCurrent, ValidationIsCurrent, Quiet, Settings!Unrevised,
            Settings!StoredKey
<1>5. CASE Settings!TestRecords
    <2>1. /\ UNCHANGED <<cached, lapses>> /\ testing.pc = "record"
          /\ validation'.print = testing.print /\ validation'.key = testing.key
        BY <1>5 DEF Settings!TestRecords, Settings!Recorded
    <2>2. testing' \in Testings /\ testing'.pc = "idle"
        BY <1>5 DEF Settings!TestRecords, Settings!NoTest, Testings, TestSteps, Secrets
    <2>3. SettingsShapes'
        BY <1>0, <2>1, <2>2 DEF SettingsShapes
    <2> QED
        BY <1>0, <2>1, <2>2, <2>3
        DEF CacheFollows, TestIsCurrent, ValidationIsCurrent, Quiet, Settings!Unrevised,
            Settings!StoredKey
<1> QED BY <1>1, <1>2, <1>3, <1>4, <1>5

\* A crash loses the cache and what is under way.
LEMMA CrashSettingsStep ==
    ASSUME SettingsInv, Settings!CrashSettings PROVE SettingsInv'
<1> USE DEF SettingsInv
<1>1. /\ UNCHANGED <<saved, keychain, revision, validation>>
      /\ lapses' = lapses \cup IF Settings!Unrevised THEN {"cut"} ELSE {}
      /\ cached' = Settings!Unloaded /\ saving' = Settings!NoSave
      /\ checking' = Settings!NoCheck /\ testing' = Settings!NoTest
    BY DEF Settings!CrashSettings
<1>2. /\ cached' \in [loaded : BOOLEAN, secret : Secrets] /\ ~cached'.loaded
      /\ saving' \in Savings /\ saving'.pc = "idle"
      /\ checking' \in Checkings /\ testing' \in Testings /\ testing'.pc = "idle"
    BY <1>1
    DEF Settings!Unloaded, Settings!NoSave, Settings!NoCheck, Settings!NoTest, Savings,
        Checkings, Testings, Secrets, SaveSteps, TestSteps
<1>3. SettingsShapes'
    BY <1>1, <1>2 DEF SettingsShapes
<1>4. Quiet' => Quiet
    BY <1>1 DEF Quiet, Settings!Unrevised
<1> QED
    BY <1>1, <1>2, <1>3, <1>4
    DEF CacheFollows, TestIsCurrent, ValidationIsCurrent, Settings!StoredKey

\* A provider is shown as verified only while the store holds the key that a successful test
\* has translated with, for any profiles and keys, however the test, saves, checks and
\* crashes fall; set apart are the moments of a key change itself and the two lapses
\* (desktop_settings.rs, translation_readiness).
THEOREM VerifiedKeyWasTested ==
    ASSUME ProfilesAssumption
    PROVE  Settings!SettingsSpec => []Settings!VerifiedWasTested
<1>1. Settings!SettingsInit => SettingsInv
    BY SettingsInitially
<1>2. SettingsInv /\ [Settings!SettingsNext]_(Settings!settingsVars) => SettingsInv'
    <2> SUFFICES ASSUME SettingsInv, [Settings!SettingsNext]_(Settings!settingsVars)
                 PROVE  SettingsInv'
        OBVIOUS
    <2>1. CASE Settings!SettingsNext
        BY <2>1, ProfileSteps, KeySteps, SaveErrsStep, CheckSteps, TestingSteps,
           CrashSettingsStep
        DEF Settings!SettingsNext
    <2>2. CASE UNCHANGED Settings!settingsVars
        BY <2>2
        DEF Settings!settingsVars, SettingsInv, SettingsShapes, CacheFollows, TestIsCurrent,
            ValidationIsCurrent, Quiet, Settings!Unrevised, Settings!StoredKey
    <2> QED BY <2>1, <2>2
<1>3. SettingsInv => Settings!VerifiedWasTested
    <2> SUFFICES ASSUME SettingsInv, Settings!Readiness = "verified", Quiet
                 PROVE  validation.key = Settings!StoredKey
        BY DEF Settings!VerifiedWasTested, Quiet
    <2>1. validation # None /\ validation.print = Settings!Fingerprint
        BY DEF Settings!Readiness
    <2>2. validation.print.revision = revision
        BY <2>1 DEF Settings!Fingerprint
    <2> QED BY <2>1, <2>2 DEF SettingsInv, ValidationIsCurrent
<1> QED BY <1>1, <1>2, <1>3, PTL DEF Settings!SettingsSpec

cues == x2
generated == x3
directory == x5
export == x6
automatic == x7
outcome == x4
owned == x9
shared == x8
USE DEF cues, generated, directory, export, automatic, outcome, owned, shared, troubles

(***************************************************************************)
(* SubtitleExport: the user's files are kept, and an export is of one      *)
(* reading.                                                                *)
(*                                                                         *)
(* What is opened for writing is never a file the user keeps: that is      *)
(* decided at the opening, not when the export is planned.  What was       *)
(* copied so far is of the one reading, as long as no other export writes  *)
(* the generated files.                                                    *)
(***************************************************************************)
Contents == Nat \cup {None, Torn, Foreign}
ExportSteps == {"read", "next", "write", "open", "copy"}
Exporting == [pc : ExportSteps, overwrite : BOOLEAN, selected : SUBSET Artifacts,
              left : SUBSET Artifacts, current : Artifacts \cup {None},
              read : Nat \cup {None}]

ExportShapes ==
    /\ cues.revision \in Nat
    /\ generated \in [Artifacts -> Contents] /\ directory \in [Artifacts -> Contents]
    /\ export # None => export \in Exporting
    /\ export # None => export.left \subseteq export.selected
    /\ export # None /\ export.pc = "read" => export.left = export.selected
    /\ export # None /\ export.pc \in {"write", "open", "copy"} =>
          export.current \in export.selected
    /\ automatic # None => automatic \in [read : Nat, left : SUBSET Artifacts]
    /\ owned \subseteq Artifacts \X (Contents \ {None})

\* A file the user keeps is as it was, is no file the export may overwrite, and is not
\* the one that is open.
OwnedKept ==
    \A o \in owned :
        /\ directory[o[1]] = o[2]
        /\ export # None => /\ export.overwrite => o[1] \notin export.selected
                            /\ export.pc = "copy" => o[1] # export.current

\* Beside no other export, what is generated and copied is of the reading.
OneReading ==
    /\ ~shared => automatic = None
    /\ export # None => outcome = None
    /\ export # None /\ ~shared /\ export.pc \in {"open", "copy"} =>
          generated[export.current] = export.read
    /\ export # None /\ ~shared /\ export.pc # "read" =>
          \A a \in export.selected \ export.left :
             \/ export.pc # "next" /\ a = export.current
             \/ directory[a] \in {export.read, Foreign}
    /\ outcome # None /\ ~shared =>
          \A a \in outcome.selected : directory[a] \in {outcome.read, Foreign}

ExportInv == ExportShapes /\ OwnedKept /\ OneReading

ForeignAssumption == None # Foreign

\* Nothing is owned before the first export.
LEMMA ExportInitially == Exports!ExportInit => ExportInv
<1> SUFFICES ASSUME Exports!ExportInit PROVE ExportInv
    OBVIOUS
<1>1. cues.revision \in Nat
    BY DEF Exports!ExportInit
<1>2. /\ generated \in [Artifacts -> Contents] /\ directory \in [Artifacts -> Contents]
      /\ export = None /\ automatic = None /\ outcome = None /\ owned = {}
    BY DEF Exports!ExportInit, Contents
<1> QED BY <1>1, <1>2 DEF ExportInv, ExportShapes, OwnedKept, OneReading

\* An export goes on to its next step.
LEMMA ExportGoes ==
    ASSUME export \in Exporting, NEW pc \in ExportSteps, export' = [export EXCEPT !.pc = pc]
    PROVE  /\ export' \in Exporting /\ export'.pc = pc
           /\ export'.overwrite = export.overwrite /\ export'.selected = export.selected
           /\ export'.left = export.left /\ export'.current = export.current
           /\ export'.read = export.read
BY Zenon DEF Exporting

\* An export begins with nothing written, and owns what it may not overwrite.
LEMMA PlanStep ==
    ASSUME ExportInv, NEW selected \in SUBSET Artifacts, NEW overwrite \in BOOLEAN,
           Exports!PlanExport(selected, overwrite)
    PROVE  ExportInv'
<1> USE DEF ExportInv
<1>0. /\ UNCHANGED <<cues, generated, directory, automatic>> /\ outcome' = None
      /\ shared' = (automatic # None)
      /\ overwrite \/ selected \cap Exports!Existing = {}
    BY DEF Exports!PlanExport
<1>1. /\ export' \in Exporting /\ export'.pc = "read" /\ export'.overwrite = overwrite
      /\ export'.selected = selected /\ export'.left = selected
    BY DEF Exports!PlanExport, Exporting, ExportSteps
<1>2. \A o \in owned' : /\ o \in Artifacts \X (Contents \ {None})
                        /\ directory[o[1]] = o[2]
                        /\ overwrite => o[1] \notin selected
    BY DEF Exports!PlanExport, Exports!Existing, ExportShapes
<1>3. ExportShapes'
    BY <1>0, <1>1, <1>2 DEF ExportShapes
<1>4. OwnedKept'
    BY <1>0, <1>1, <1>2 DEF OwnedKept
<1>5. OneReading'
    BY <1>0, <1>1 DEF OneReading
<1> QED BY <1>3, <1>4, <1>5

\* What is planned is read once, or not at all.
LEMMA ReadStep ==
    ASSUME ExportInv, Exports!ReadWorkspace PROVE ExportInv'
<1> USE DEF ExportInv
<1>0. /\ UNCHANGED <<cues, generated, directory, automatic, outcome, owned, shared>>
      /\ export \in Exporting /\ export # None /\ export.pc = "read"
    BY DEF Exports!ReadWorkspace, ExportShapes
<1>1. CASE export' = [export EXCEPT !.pc = "next", !.read = cues.revision]
    <2>0. cues.revision \in Nat
        BY DEF ExportShapes
    <2>1. /\ export' \in Exporting /\ export'.pc = "next"
          /\ export'.overwrite = export.overwrite /\ export'.selected = export.selected
          /\ export'.left = export.left
        <3>1. "next" \in ExportSteps /\ cues.revision \in Nat \cup {None}
            BY <2>0 DEF ExportSteps
        <3> QED BY <1>0, <1>1, <3>1, Zenon DEF Exporting
    <2>2. ExportShapes'
        BY <1>0, <2>1 DEF ExportShapes
    <2>3. OwnedKept'
        BY <1>0, <2>1 DEF OwnedKept
    <2>4. OneReading'
        BY <1>0, <2>1 DEF OneReading, ExportShapes
    <2> QED BY <2>2, <2>3, <2>4
<1>2. CASE export' = None
    BY <1>0, <1>2 DEF ExportShapes, OwnedKept, OneReading
<1> QED BY <1>1, <1>2 DEF Exports!ReadWorkspace

\* The next file is truncated in the task's directory, and written.
LEMMA GenerateSteps ==
    ASSUME ExportInv,
           \/ \E a \in Artifacts : Exports!OpenGenerated(a)
           \/ Exports!WriteGenerated
    PROVE  ExportInv'
<1> USE DEF ExportInv
<1>0. /\ UNCHANGED <<cues, directory, automatic, outcome, owned, shared>>
      /\ export \in Exporting /\ export # None
    BY DEF Exports!OpenGenerated, Exports!WriteGenerated, ExportShapes
<1>1. ASSUME NEW a \in Artifacts, Exports!OpenGenerated(a) PROVE ExportInv'
    <2>0. /\ export.pc = "next" /\ a \in export.left
          /\ generated' = [generated EXCEPT ![a] = Torn]
          /\ export' = [export EXCEPT !.pc = "write", !.current = a, !.left = @ \ {a}]
        BY <1>1 DEF Exports!OpenGenerated
    <2>1. /\ export' \in Exporting /\ export'.pc = "write" /\ export'.current = a
          /\ export'.overwrite = export.overwrite /\ export'.selected = export.selected
          /\ export'.left = export.left \ {a} /\ export'.read = export.read
        <3>1. "write" \in ExportSteps /\ a \in Artifacts \cup {None}
              /\ export.left \ {a} \in SUBSET Artifacts
            BY <1>0 DEF ExportSteps, Exporting
        <3> QED BY <1>0, <2>0, <3>1, Zenon DEF Exporting
    <2> HIDE <1>1
    <2>2. generated' \in [Artifacts -> Contents]
        BY <2>0 DEF ExportShapes, Contents
    <2>3. a \in export.selected
        BY <1>0, <2>0 DEF ExportShapes
    <2>4. ExportShapes'
        BY <1>0, <2>0, <2>1, <2>2, <2>3 DEF ExportShapes
    <2>5. OwnedKept'
        BY <1>0, <2>1 DEF OwnedKept
    <2>6. OneReading'
        BY <1>0, <2>0, <2>1 DEF OneReading
    <2> QED BY <2>4, <2>5, <2>6
<1>2. CASE Exports!WriteGenerated
    <2>0. /\ export.pc = "write" /\ export' = [export EXCEPT !.pc = "open"]
          /\ generated' = [generated EXCEPT ![export.current] = export.read]
        BY <1>2 DEF Exports!WriteGenerated
    <2>1. /\ export' \in Exporting /\ export'.pc = "open"
          /\ export'.overwrite = export.overwrite /\ export'.selected = export.selected
          /\ export'.left = export.left /\ export'.current = export.current
          /\ export'.read = export.read
        BY <1>0, <2>0, ExportGoes DEF ExportSteps
    <2>2. export.current \in export.selected /\ export.current \in Artifacts
        BY <1>0, <2>0 DEF ExportShapes, Exporting
    <2>3. generated' \in [Artifacts -> Contents] /\ generated'[export.current] = export.read
        BY <1>0, <2>0, <2>2 DEF ExportShapes, Contents, Exporting
    <2>4. ExportShapes'
        BY <1>0, <2>1, <2>2, <2>3 DEF ExportShapes
    <2>5. OwnedKept'
        BY <1>0, <2>1 DEF OwnedKept
    <2>6. OneReading'
        BY <1>0, <2>0, <2>1, <2>3 DEF OneReading
    <2> QED BY <2>4, <2>5, <2>6
<1> QED BY <1>1, <1>2

\* What is opened in the user's directory is nobody's, and is copied from the one reading.
LEMMA CopySteps ==
    ASSUME ExportInv, Exports!OpenDestination \/ Exports!CopyFile PROVE ExportInv'
<1> USE DEF ExportInv
<1>0. /\ UNCHANGED <<cues, generated, automatic, outcome, owned, shared>>
      /\ export \in Exporting /\ export # None /\ export.pc \in {"open", "copy"}
    BY DEF Exports!OpenDestination, Exports!CopyFile, ExportShapes
<1>1. export.current \in export.selected /\ export.current \in Artifacts
    BY <1>0 DEF ExportShapes, Exporting
<1>2. \A o \in owned : /\ o[1] \in Artifacts /\ o[2] # None /\ directory[o[1]] = o[2]
                       /\ export.overwrite => o[1] \notin export.selected
    BY <1>0 DEF ExportShapes, OwnedKept
<1>3. CASE export' = None /\ UNCHANGED directory
    BY <1>0, <1>3 DEF ExportShapes, OwnedKept, OneReading
<1>4. CASE /\ export.overwrite \/ directory[export.current] = None
           /\ directory' = [directory EXCEPT ![export.current] = Torn]
           /\ export' = [export EXCEPT !.pc = "copy"] /\ export.pc = "open"
    <2>1. /\ export' \in Exporting /\ export'.pc = "copy"
          /\ export'.overwrite = export.overwrite /\ export'.selected = export.selected
          /\ export'.left = export.left /\ export'.current = export.current
          /\ export'.read = export.read
        BY <1>0, <1>4, ExportGoes DEF ExportSteps
    <2>2. /\ directory' \in [Artifacts -> Contents]
          /\ \A a \in Artifacts \ {export.current} : directory'[a] = directory[a]
        BY <1>1, <1>4 DEF ExportShapes, Contents
    <2>3. \A o \in owned : o[1] # export.current
        BY <1>1, <1>2, <1>4
    <2>4. ExportShapes'
        BY <1>0, <1>1, <2>1, <2>2 DEF ExportShapes
    <2>5. OwnedKept'
        BY <1>0, <1>2, <2>1, <2>2, <2>3 DEF OwnedKept
    <2>6. OneReading'
        BY <1>0, <1>1, <1>4, <2>1, <2>2 DEF OneReading, Exporting
    <2> QED BY <2>4, <2>5, <2>6
<1>5. CASE Exports!CopyFile
    <2>0. /\ export.pc = "copy" /\ export' = [export EXCEPT !.pc = "next"]
          /\ directory' = [directory EXCEPT ![export.current] = generated[export.current]]
        BY <1>5 DEF Exports!CopyFile
    <2>1. /\ export' \in Exporting /\ export'.pc = "next"
          /\ export'.overwrite = export.overwrite /\ export'.selected = export.selected
          /\ export'.left = export.left /\ export'.read = export.read
        BY <1>0, <2>0, ExportGoes DEF ExportSteps
    <2>2. /\ directory' \in [Artifacts -> Contents]
          /\ directory'[export.current] = generated[export.current]
          /\ \A a \in Artifacts \ {export.current} : directory'[a] = directory[a]
        BY <1>1, <2>0 DEF ExportShapes
    <2>3. \A o \in owned : o[1] # export.current
        BY <1>0, <2>0 DEF OwnedKept
    <2>4. ExportShapes'
        BY <1>0, <2>1, <2>2 DEF ExportShapes
    <2>5. OwnedKept'
        BY <1>0, <1>2, <2>1, <2>2, <2>3 DEF OwnedKept
    <2>6. OneReading'
        BY <1>0, <1>1, <2>0, <2>1, <2>2 DEF OneReading, Exporting
    <2> QED BY <2>4, <2>5, <2>6
<1> QED BY <1>0, <1>3, <1>4, <1>5 DEF Exports!OpenDestination

\* An export ends with every file copied, or fails.
LEMMA ExportEndSteps ==
    ASSUME ExportInv, Exports!ExportEnds \/ Exports!ExportFails PROVE ExportInv'
<1> USE DEF ExportInv
<1>0. /\ UNCHANGED <<cues, generated, directory, automatic, owned, shared>>
      /\ export # None /\ export' = None
    BY DEF Exports!ExportEnds, Exports!ExportFails
<1>1. ExportShapes' /\ OwnedKept'
    BY <1>0 DEF ExportShapes, OwnedKept
<1>2. CASE Exports!ExportEnds
    <2>1. /\ export.pc = "next" /\ export.left = {}
          /\ outcome'.selected = export.selected /\ outcome'.read = export.read
        BY <1>2 DEF Exports!ExportEnds
    <2> QED BY <1>0, <1>1, <2>1 DEF OneReading
<1>3. CASE Exports!ExportFails
    BY <1>0, <1>1, <1>3 DEF OneReading, Exports!ExportFails
<1> QED BY <1>2, <1>3

\* Edits, the automatic export and other programs leave what is owned alone.
LEMMA WorldSteps ==
    ASSUME ForeignAssumption, ExportInv,
           \/ Exports!EditCues \/ Exports!BeginAutomatic \/ Exports!AutomaticStep
           \/ \E a \in Artifacts : Exports!ForeignWrite(a)
    PROVE  ExportInv'
<1> USE DEF ExportInv
<1>1. CASE Exports!EditCues
    <2>1. /\ UNCHANGED <<generated, directory, export, automatic, outcome, owned, shared>>
          /\ cues'.revision \in Nat
        BY <1>1 DEF Exports!EditCues, ExportShapes
    <2> QED BY <2>1 DEF ExportShapes, OwnedKept, OneReading
<1>2. CASE Exports!BeginAutomatic
    <2>1. /\ UNCHANGED <<cues, generated, directory, export, outcome, owned>> /\ shared'
          /\ automatic' \in [read : Nat, left : SUBSET Artifacts]
        BY <1>2 DEF Exports!BeginAutomatic, ExportShapes
    <2> QED BY <2>1 DEF ExportShapes, OwnedKept, OneReading
<1>3. CASE Exports!AutomaticStep
    <2>0. /\ UNCHANGED <<cues, directory, export, outcome, owned, shared>>
          /\ automatic # None /\ shared
          /\ automatic \in [read : Nat, left : SUBSET Artifacts]
        BY <1>3 DEF Exports!AutomaticStep, ExportShapes, OneReading
    <2>1. generated' \in [Artifacts -> Contents]
        BY <1>3, <2>0 DEF Exports!AutomaticStep, ExportShapes, Contents
    <2>2. automatic' # None => automatic' \in [read : Nat, left : SUBSET Artifacts]
        <3>1. CASE automatic' = None
            BY <3>1
        <3>2. CASE UNCHANGED automatic
            BY <2>0, <3>2
        <3>3. ASSUME NEW a \in automatic.left,
                     automatic' = [automatic EXCEPT !.left = @ \ {a}]
              PROVE  automatic' \in [read : Nat, left : SUBSET Artifacts]
            <4>1. automatic.left \ {a} \in SUBSET Artifacts
                BY <2>0
            <4> QED BY <2>0, <3>3, <4>1, Zenon
        <3> QED BY <1>3, <3>1, <3>2, <3>3 DEF Exports!AutomaticStep
    <2> QED BY <2>0, <2>1, <2>2 DEF ExportShapes, OwnedKept, OneReading
<1>4. ASSUME NEW a \in Artifacts, Exports!ForeignWrite(a) PROVE ExportInv'
    <2>0. /\ UNCHANGED <<cues, generated, export, automatic, outcome, shared>>
          /\ directory' = [directory EXCEPT ![a] = Foreign]
          /\ export # None => export.pc # "copy" \/ export.current # a
        BY <1>4 DEF Exports!ForeignWrite
    <2>1. /\ directory' \in [Artifacts -> Contents] /\ directory'[a] = Foreign
          /\ \A b \in Artifacts \ {a} : directory'[b] = directory[b]
        BY <2>0 DEF ExportShapes, Contents
    <2>2. \A o \in owned' :
             \/ o \in owned /\ o[1] # a
             \/ /\ o = <<a, Foreign>>
                /\ export # None => ~export.overwrite \/ a \notin export.selected
        BY <1>4 DEF Exports!ForeignWrite
    <2>3. Foreign \in Contents \ {None}
        BY DEF Contents, ForeignAssumption
    <2> HIDE <1>4
    <2>4. ExportShapes'
        BY <2>0, <2>1, <2>2, <2>3 DEF ExportShapes
    <2>5. OwnedKept'
        BY <2>0, <2>1, <2>2 DEF OwnedKept, ExportShapes
    <2>6. OneReading'
        BY <2>0, <2>1 DEF OneReading, ExportShapes, Exporting
    <2> QED BY <2>4, <2>5, <2>6
<1> QED BY <1>1, <1>2, <1>3, <1>4

\* Every step of an export, or of the world beside it, keeps the invariant.
LEMMA ExportKept ==
    ASSUME ForeignAssumption, ExportInv, [Exports!ExportNext]_Exports!exportVars
    PROVE  ExportInv'
<1>1. CASE UNCHANGED Exports!exportVars
    <2>1. UNCHANGED <<cues, generated, directory, export, automatic, outcome, owned, shared>>
        BY <1>1 DEF Exports!exportVars
    <2> QED BY <2>1 DEF ExportInv, ExportShapes, OwnedKept, OneReading
<1>2. CASE Exports!ExportNext
    BY <1>2, PlanStep, ReadStep, GenerateSteps, CopySteps, ExportEndSteps, WorldSteps
    DEF Exports!ExportNext
<1> QED BY <1>1, <1>2

\* A file that the user keeps and did not allow to overwrite stays as it is, however many
\* files the export writes, fails at or finds in its way, and an export that ends well has
\* copied every selected file from one reading of the cues, unless an automatic export ran
\* beside it (local_workspace_service.rs:1253).
THEOREM ExportsSafe ==
    ASSUME ForeignAssumption PROVE Exports!ExportSpec => []Exports!ExportSafe
<1>1. Exports!ExportInit => ExportInv
    BY ExportInitially
<1>2. ExportInv /\ [Exports!ExportNext]_Exports!exportVars => ExportInv'
    BY ExportKept
<1>3. ExportInv => Exports!ExportSafe
    BY DEF ExportInv, OwnedKept, OneReading, Exports!ExportSafe
<1> QED BY <1>1, <1>2, <1>3, PTL DEF Exports!ExportSpec

job == x1
cue == x4
items == x5
uses == x6
results == x7
lookup == x8
pick == x9
decided == x10
fetched == x11
USE DEF job, cue, items, made, uses, results, lookup, pick, decided, fetched

(***************************************************************************)
(* LearningNotebook: the notebook stays coherent.                          *)
(*                                                                         *)
(* What a command has read stays true until it writes because nothing that *)
(* was fetched is forgotten, an id is given once, and what hangs on an     *)
(* item goes with it.                                                      *)
(***************************************************************************)
Words == {TextOf[line][span] : line \in Lines, span \in Spans}
ItemKeys == Notebook!Kinds \X {KeyOf[text] : text \in Words}
Meanings == Typed \cup Definitions \cup {TranslationOf[line] : line \in Lines} \cup {None}
Items == [key : ItemKeys, text : Words, meaning : Meanings, provider : Providers \cup {None}]
Uses == [item : Notebook!Ids, segment : Segments \cup {None}, line : Lines, span : Spans]
Results == [item : Notebook!Ids, provider : Providers, senses : SUBSET Definitions,
            expired : BOOLEAN]
Found == Notebook!Ids \X Providers \X Definitions

\* A record is no missing one, and a definition is a text.
NotebookAssumption == None \notin Items \cup Definitions

NotebookShapes ==
    /\ cue \in [Segments -> Lines]
    /\ items \in [Notebook!Ids -> Items \cup {None}]
    /\ made \in Nat /\ \A i \in Notebook!Ids : items[i] # None => i <= made
    /\ uses \subseteq Uses /\ results \subseteq Results /\ fetched \subseteq Found
    /\ lookup # None => lookup \in [item : Notebook!Ids, provider : Providers]
    /\ pick # None => pick \in [item : Notebook!Ids, provider : Providers,
                                definition : Definitions]
    /\ decided \in [Notebook!Ids -> Meanings]

\* No two items have one key, and a new item will be the first of its id.
KeysDiffer ==
    /\ \A i, j \in Notebook!Ids :
          items[i] # None /\ items[j] # None /\ items[i].key = items[j].key => i = j
    /\ \A i \in Notebook!Ids : i > made => decided[i] = None

\* An example is of its item, which is there.
ExamplesFit ==
    \A u \in uses : /\ items[u.item] # None
                    /\ KeyOf[TextOf[u.line][u.span]] = items[u.item].key[2]

\* A result is of an item that is there, the only one of its dictionary, and was fetched;
\* so was the definition that is about to be used.
ResultsFit ==
    /\ \A r \in results : /\ items[r.item] # None
                          /\ \A d \in r.senses : <<r.item, r.provider, d>> \in fetched
    /\ \A q, r \in results : <<q.item, q.provider>> = <<r.item, r.provider>> => q = r
    /\ pick # None => <<pick.item, pick.provider, pick.definition>> \in fetched

\* A meaning is what was decided on, and one of a dictionary was fetched from it.
MeaningsDecided ==
    \A i \in Notebook!Ids : items[i] # None =>
        /\ items[i].meaning = decided[i]
        /\ items[i].provider # None =>
              <<i, items[i].provider, items[i].meaning>> \in fetched

NotebookInv == NotebookShapes /\ KeysDiffer /\ ExamplesFit /\ ResultsFit /\ MeaningsDecided

\* The notebook is empty at first.
LEMMA NotebookInitially == Notebook!NotebookInit => NotebookInv
<1> SUFFICES ASSUME Notebook!NotebookInit PROVE NotebookInv
    OBVIOUS
<1>1. /\ cue \in [Segments -> Lines] /\ items = [i \in Notebook!Ids |-> None] /\ made = 0
      /\ uses = {} /\ results = {} /\ lookup = None /\ pick = None
      /\ decided = [i \in Notebook!Ids |-> None] /\ fetched = {}
    BY DEF Notebook!NotebookInit
<1> QED
    BY <1>1
    DEF NotebookInv, NotebookShapes, KeysDiffer, ExamplesFit, ResultsFit, MeaningsDecided,
        Meanings

\* A result that is dropped is missed by nobody.
LEMMA FewerResults ==
    ASSUME NEW rest \in SUBSET results, NotebookInv
    PROVE  /\ rest \subseteq Results
           /\ \A r \in rest : /\ items[r.item] # None
                              /\ \A d \in r.senses : <<r.item, r.provider, d>> \in fetched
           /\ \A q, r \in rest : <<q.item, q.provider>> = <<r.item, r.provider>> => q = r
BY DEF NotebookInv, NotebookShapes, ResultsFit

\* What has not expired is what is left.
LEMMA UnexpiredAreFewer ==
    ASSUME NEW rows PROVE Notebook!Unexpired(rows) \subseteq rows
BY DEF Notebook!Unexpired

\* A new meaning of an item, that was decided on and fetched when it names a dictionary.
LEMMA NewMeaningKeeps ==
    ASSUME NotebookAssumption, NotebookInv, NEW i \in Notebook!Ids, items[i] # None,
           NEW meaning \in Meanings, NEW provider \in Providers \cup {None},
           items' = [items EXCEPT ![i].meaning = meaning, ![i].provider = provider],
           decided' = [decided EXCEPT ![i] = meaning],
           provider # None => <<i, provider, meaning>> \in fetched,
           results' = Notebook!Unexpired(results),
           UNCHANGED <<cue, made, uses, fetched, lookup>>,
           UNCHANGED pick \/ pick' = None
    PROVE  NotebookInv'
<1> USE DEF NotebookInv
<1> DEFINE changed == [items[i] EXCEPT !.meaning = meaning, !.provider = provider]
<1>1. items[i] \in Items /\ items \in [Notebook!Ids -> Items \cup {None}]
    BY DEF NotebookShapes
<1>2. items' = [items EXCEPT ![i] = changed]
    BY <1>1, Zenon
<1>3. /\ changed \in Items /\ changed.key = items[i].key
      /\ changed.meaning = meaning /\ changed.provider = provider
    BY <1>1, Zenon DEF Items
<1> HIDE DEF changed
<1>4. changed # None
    BY <1>3 DEF NotebookAssumption
<1>5. /\ items' \in [Notebook!Ids -> Items \cup {None}] /\ items'[i] = changed
      /\ \A j \in Notebook!Ids \ {i} : items'[j] = items[j]
    BY <1>1, <1>2, <1>3
<1>6. \A j \in Notebook!Ids : /\ items'[j] # None <=> items[j] # None
                              /\ items[j] # None => items'[j].key = items[j].key
    BY <1>3, <1>4, <1>5
<1>7. /\ decided' \in [Notebook!Ids -> Meanings] /\ decided'[i] = meaning
      /\ \A j \in Notebook!Ids \ {i} : decided'[j] = decided[j]
    BY DEF NotebookShapes
<1>8. results' \in SUBSET results
    BY UnexpiredAreFewer
<1>9. \A r \in Results : r.item \in Notebook!Ids
    BY DEF Results
<1>10. NotebookShapes'
    BY <1>5, <1>6, <1>7, <1>8 DEF NotebookShapes
<1>11. KeysDiffer'
    BY <1>6, <1>7 DEF KeysDiffer, NotebookShapes, Notebook!Ids
<1>12. ExamplesFit'
    BY <1>6 DEF ExamplesFit, NotebookShapes, Uses
<1>13. ResultsFit'
    BY <1>6, <1>8, <1>9, FewerResults DEF ResultsFit
<1>14. MeaningsDecided'
    BY <1>3, <1>5, <1>6, <1>7 DEF MeaningsDecided
<1> QED BY <1>10, <1>11, <1>12, <1>13, <1>14

\* A saved selection is a new item with a first example, or one more example of the item of
\* its key.
LEMMA SaveKeeps ==
    ASSUME NotebookAssumption, NotebookInv,
           NEW s \in Segments, NEW span \in Spans, NEW type \in Notebook!Kinds,
           Notebook!SaveSelection(s, span, type)
    PROVE  NotebookInv'
<1> USE DEF NotebookInv
<1> DEFINE text == TextOf[cue[s]][span]
           key == <<type, KeyOf[text]>>
           same == {i \in Notebook!Ids : items[i] # None /\ items[i].key = key}
           id == IF same = {} THEN made + 1 ELSE CHOOSE i \in same : TRUE
           offered == IF type = "sentence" THEN TranslationOf[cue[s]] ELSE None
           item == IF same = {}
                   THEN [key |-> key, text |-> text, meaning |-> offered, provider |-> None]
                   ELSE [items[id] EXCEPT
                            !.meaning = Notebook!Coalesced(items[id].meaning, offered)]
           example == [item |-> id, segment |-> s, line |-> cue[s], span |-> span]
           Agreed == /\ item \in Items /\ item.key = key /\ item.meaning = decided'[id]
                     /\ item.provider # None =>
                           <<id, item.provider, item.meaning>> \in fetched
                     /\ \A j \in Notebook!Ids : items[j] # None /\ items[j].key = key => j = id
                     /\ items[id] # None => items[id].key = key
                     /\ id <= made' /\ made' \in Nat /\ made <= made'
<1>1. /\ UNCHANGED <<cue, lookup, pick, fetched>> /\ id \in Notebook!Ids
      /\ items' = [items EXCEPT ![id] = item]
      /\ made' = IF same = {} THEN id ELSE made
      /\ uses' = uses \/ uses' = uses \cup {example}
      /\ decided' = [decided EXCEPT ![id] = IF decided[id] = None THEN offered
                                                                 ELSE decided[id]]
      /\ results' = Notebook!Unexpired(results)
    BY DEF Notebook!SaveSelection, Notebook!pending, Notebook!source
<1>2. cue[s] \in Lines /\ text \in Words /\ key \in ItemKeys /\ offered \in Meanings
    <2>1. cue[s] \in Lines
        BY DEF NotebookShapes
    <2>2. text \in Words
        BY <2>1 DEF Words
    <2>3. key \in ItemKeys
        BY <2>2 DEF ItemKeys
    <2>4. offered \in Meanings
        BY <2>1 DEF Meanings
    <2> QED BY <2>1, <2>2, <2>3, <2>4
<1>3. /\ decided' \in [Notebook!Ids -> Meanings]
      /\ decided'[id] = (IF decided[id] = None THEN offered ELSE decided[id])
      /\ \A j \in Notebook!Ids \ {id} : decided'[j] = decided[j]
    BY <1>1, <1>2 DEF NotebookShapes
<1>4. Agreed
    <2>1. CASE same = {}
        <3>1. id = made + 1 /\ made' = id /\ made \in Nat
            BY <1>1, <2>1 DEF NotebookShapes
        <3>2. decided[id] = None /\ items[id] = None
            <4> HIDE DEF id, item, same
            <4> QED BY <1>1, <3>1 DEF NotebookShapes, KeysDiffer, Notebook!Ids
        <3>3. item = [key |-> key, text |-> text, meaning |-> offered, provider |-> None]
            BY <2>1
        <3>4. /\ item \in Items /\ item.key = key /\ item.meaning = offered
              /\ item.provider = None
            BY <1>2, <3>3 DEF Items
        <3>5. \A j \in Notebook!Ids : ~(items[j] # None /\ items[j].key = key)
            BY <2>1
        <3> HIDE DEF item, id, key
        <3> QED BY <1>3, <3>1, <3>2, <3>4, <3>5
    <2>2. CASE same # {}
        <3>1. id \in same /\ made' = made
            BY <1>1, <2>2
        <3>2. /\ id \in Notebook!Ids /\ items[id] # None /\ items[id].key = key
              /\ items[id] \in Items
            BY <3>1 DEF NotebookShapes
        <3>3. Notebook!Coalesced(items[id].meaning, offered) \in Meanings
            BY <1>2, <3>2 DEF Notebook!Coalesced, Items
        <3>4. item = [items[id] EXCEPT
                         !.meaning = Notebook!Coalesced(items[id].meaning, offered)]
            BY <2>2
        <3>5. /\ item \in Items /\ item.key = key /\ item.provider = items[id].provider
              /\ item.meaning = Notebook!Coalesced(items[id].meaning, offered)
            BY <3>2, <3>3, <3>4, Zenon DEF Items
        <3> HIDE DEF item, id, key
        <3>6. items[id].meaning = decided[id]
            BY <3>2 DEF MeaningsDecided
        <3>7. item.meaning = decided'[id]
            BY <1>3, <3>5, <3>6 DEF Notebook!Coalesced
        <3>8. items[id].provider # None => items[id].meaning # None
            BY <3>2 DEF MeaningsDecided, NotebookShapes, Found, NotebookAssumption
        <3>9. item.provider # None => <<id, item.provider, item.meaning>> \in fetched
            BY <3>2, <3>5, <3>8 DEF MeaningsDecided, Notebook!Coalesced
        <3>10. \A j \in Notebook!Ids : items[j] # None /\ items[j].key = key => j = id
            BY <3>2 DEF KeysDiffer
        <3>11. id <= made' /\ made' \in Nat /\ made <= made'
            BY <3>1, <3>2 DEF NotebookShapes
        <3> QED BY <3>2, <3>5, <3>7, <3>9, <3>10, <3>11
    <2> QED BY <2>1, <2>2
<1>5. example \in Uses /\ example.item = id /\ KeyOf[TextOf[example.line][example.span]] = key[2]
    BY <1>1, <1>2 DEF Uses
<1>6. key[2] = KeyOf[text]
    OBVIOUS
<1> HIDE DEF id, item, key, same, example
<1>7. item # None
    BY <1>4 DEF NotebookAssumption
<1>8. /\ items' \in [Notebook!Ids -> Items \cup {None}] /\ items'[id] = item
      /\ \A j \in Notebook!Ids \ {id} : items'[j] = items[j]
    BY <1>1, <1>4 DEF NotebookShapes
<1>9. \A j \in Notebook!Ids : items[j] # None => items'[j] # None /\ items'[j].key = items[j].key
    BY <1>1, <1>4, <1>7, <1>8
<1>10. results' \in SUBSET results
    BY <1>1, UnexpiredAreFewer
<1>11. \A j \in Notebook!Ids : items'[j] # None => j <= made'
    BY <1>1, <1>4, <1>8 DEF NotebookShapes, Notebook!Ids
<1>12. NotebookShapes'
    BY <1>1, <1>3, <1>4, <1>5, <1>8, <1>10, <1>11 DEF NotebookShapes
<1>13. KeysDiffer'
    <2>1. \A j \in Notebook!Ids : j > made' => decided'[j] = None
        BY <1>1, <1>3, <1>4 DEF KeysDiffer, NotebookShapes, Notebook!Ids
    <2>2. \A i, j \in Notebook!Ids :
             items'[i] # None /\ items'[j] # None /\ items'[i].key = items'[j].key => i = j
        BY <1>1, <1>4, <1>8 DEF KeysDiffer
    <2> QED BY <2>1, <2>2 DEF KeysDiffer
<1>14. ExamplesFit'
    BY <1>1, <1>4, <1>5, <1>7, <1>8, <1>9 DEF ExamplesFit, NotebookShapes, Uses
<1>15. ResultsFit'
    <2>1. \A r \in Results : r.item \in Notebook!Ids
        BY DEF Results
    <2> QED BY <1>1, <1>9, <1>10, <2>1, FewerResults DEF ResultsFit
<1>16. MeaningsDecided'
    BY <1>1, <1>3, <1>4, <1>8 DEF MeaningsDecided
<1> QED BY <1>12, <1>13, <1>14, <1>15, <1>16

\* The commands of the user that write a meaning.
LEMMA DecideKeeps ==
    ASSUME NotebookAssumption, NotebookInv,
           \/ \E i \in Notebook!Ids, meaning \in Typed : Notebook!UpdateMeaning(i, meaning)
           \/ Notebook!UseDefinition
    PROVE  NotebookInv'
<1> USE DEF NotebookInv
<1>1. ASSUME NEW i \in Notebook!Ids, NEW meaning \in Typed, Notebook!UpdateMeaning(i,
             meaning)
      PROVE  NotebookInv'
    <2>1. meaning \in Meanings
        BY DEF Meanings
    <2> QED BY <1>1, <2>1, NewMeaningKeeps
            DEF Notebook!UpdateMeaning, Notebook!source, Notebook!pending
<1>2. CASE Notebook!UseDefinition
    <2>1. /\ pick.item \in Notebook!Ids /\ pick.provider \in Providers
          /\ pick.definition \in Meanings
          /\ <<pick.item, pick.provider, pick.definition>> \in fetched
          /\ pick' = None /\ results' = Notebook!Unexpired(results)
          /\ UNCHANGED <<cue, made, uses, fetched, lookup>>
        BY <1>2 DEF Notebook!UseDefinition, Notebook!source, NotebookShapes, ResultsFit,
               Meanings
    <2>2. CASE items[pick.item] = None
        <3>1. UNCHANGED <<items, decided>> /\ results' \in SUBSET results
            BY <1>2, <2>1, <2>2, UnexpiredAreFewer DEF Notebook!UseDefinition
        <3> QED BY <2>1, <3>1, FewerResults
                DEF NotebookShapes, KeysDiffer, ExamplesFit, ResultsFit, MeaningsDecided
    <2>3. CASE items[pick.item] # None
        <3>1. /\ items' = [items EXCEPT ![pick.item].meaning = pick.definition,
                                        ![pick.item].provider = pick.provider]
              /\ decided' = [decided EXCEPT ![pick.item] = pick.definition]
            BY <1>2, <2>3 DEF Notebook!UseDefinition
        <3> QED BY <2>1, <2>3, <3>1, NewMeaningKeeps
    <2> QED BY <2>2, <2>3
<1> QED BY <1>1, <1>2

\* A lookup begins with the item and ends with results of it, or of nothing.
LEMMA LookupKeeps ==
    ASSUME NotebookAssumption, NotebookInv,
           \/ \E i \in Notebook!Ids, p \in Providers : Notebook!BeginLookup(i, p)
           \/ \E senses \in SUBSET Definitions : Notebook!SaveLookup(senses)
           \/ Notebook!LookupFails
    PROVE  NotebookInv'
<1> USE DEF NotebookInv
<1>0. UNCHANGED <<cue, items, made, uses, pick, decided>>
    BY DEF Notebook!BeginLookup, Notebook!SaveLookup, Notebook!LookupFails, Notebook!source,
           Notebook!ghosts
<1>1. ASSUME NEW i \in Notebook!Ids, NEW p \in Providers, Notebook!BeginLookup(i, p)
      PROVE  NotebookInv'
    <2>1. /\ lookup' \in [item : Notebook!Ids, provider : Providers] /\ UNCHANGED fetched
          /\ results' \in SUBSET results
        BY <1>1, UnexpiredAreFewer DEF Notebook!BeginLookup, Notebook!ghosts
    <2> QED BY <1>0, <2>1, FewerResults
            DEF NotebookShapes, KeysDiffer, ExamplesFit, ResultsFit, MeaningsDecided
<1>2. ASSUME NEW senses \in SUBSET Definitions, Notebook!SaveLookup(senses)
      PROVE  NotebookInv'
    <2> DEFINE i == lookup.item
               p == lookup.provider
               others == {r \in results : <<r.item, r.provider>> # <<i, p>>}
               result == [item |-> i, provider |-> p, senses |-> senses, expired |-> FALSE]
    <2>1. i \in Notebook!Ids /\ p \in Providers /\ lookup' = None
        BY <1>2 DEF Notebook!SaveLookup, NotebookShapes
    <2>2. CASE items[i] = None
        <3>1. UNCHANGED <<results, fetched>>
            BY <1>2, <2>2 DEF Notebook!SaveLookup
        <3> QED BY <1>0, <2>1, <3>1
                DEF NotebookShapes, KeysDiffer, ExamplesFit, ResultsFit, MeaningsDecided
    <2>3. CASE items[i] # None
        <3>1. /\ results' = Notebook!Unexpired(others) \cup {result}
              /\ fetched' = fetched \cup {<<i, p, d>> : d \in senses}
            BY <1>2, <2>3 DEF Notebook!SaveLookup
        <3>2. /\ result \in Results /\ result.item = i /\ result.provider = p
              /\ result.senses = senses
            BY <2>1 DEF Results
        <3>3. fetched \subseteq fetched' /\ fetched' \subseteq Found
            BY <2>1, <3>1 DEF NotebookShapes, Found
        <3>4. /\ \A r \in results' : r = result \/ (r \in results /\ r \in others)
              /\ \A d \in senses : <<i, p, d>> \in fetched'
            BY <3>1, UnexpiredAreFewer
        <3> HIDE DEF result, i, p
        <3>5. NotebookShapes'
            BY <1>0, <2>1, <3>2, <3>3, <3>4 DEF NotebookShapes
        <3>6. ResultsFit'
            <4>1. \A r \in results' :
                     /\ items[r.item] # None
                     /\ \A d \in r.senses : <<r.item, r.provider, d>> \in fetched'
                BY <2>3, <3>2, <3>3, <3>4 DEF ResultsFit
            <4>2. \A q, r \in results' :
                     <<q.item, q.provider>> = <<r.item, r.provider>> => q = r
                BY <3>2, <3>4 DEF ResultsFit
            <4> QED BY <1>0, <3>3, <4>1, <4>2 DEF ResultsFit
        <3>7. KeysDiffer' /\ ExamplesFit' /\ MeaningsDecided'
            BY <1>0, <3>3 DEF KeysDiffer, ExamplesFit, MeaningsDecided
        <3> QED BY <3>5, <3>6, <3>7
    <2> QED BY <2>2, <2>3
<1>3. CASE Notebook!LookupFails
    <2>1. lookup' = None /\ UNCHANGED <<results, fetched>>
        BY <1>3 DEF Notebook!LookupFails, Notebook!ghosts
    <2> QED BY <1>0, <2>1
            DEF NotebookShapes, KeysDiffer, ExamplesFit, ResultsFit, MeaningsDecided
<1> QED BY <1>1, <1>2, <1>3

\* What is picked is one of the saved results.
LEMMA PickKeeps ==
    ASSUME NotebookInv, NEW i \in Notebook!Ids, NEW p \in Providers, NEW d \in Definitions,
           Notebook!PickDefinition(i, p, d)
    PROVE  NotebookInv'
<1> USE DEF NotebookInv
<1>1. /\ UNCHANGED <<cue, items, made, uses, lookup, decided, fetched>>
      /\ pick' = [item |-> i, provider |-> p, definition |-> d]
      /\ results' = Notebook!Unexpired(results)
    BY DEF Notebook!PickDefinition, Notebook!source, Notebook!ghosts
<1>2. PICK r \in Notebook!Unexpired(results) : r.item = i /\ r.provider = p /\ d \in r.senses
    BY DEF Notebook!PickDefinition
<1>3. <<i, p, d>> \in fetched /\ results' \in SUBSET results
    BY <1>1, <1>2, UnexpiredAreFewer DEF ResultsFit
<1> QED
    BY <1>1, <1>3, FewerResults
    DEF NotebookShapes, KeysDiffer, ExamplesFit, ResultsFit, MeaningsDecided

\* With an item goes what hangs on it.
LEMMA DeleteItemKeeps ==
    ASSUME NotebookInv, NEW i \in Notebook!Ids, Notebook!DeleteItem(i) PROVE NotebookInv'
<1> USE DEF NotebookInv
<1>1. /\ UNCHANGED <<cue, made, lookup, pick, decided, fetched>>
      /\ items' = [items EXCEPT ![i] = None]
      /\ uses' = {u \in uses : u.item # i} /\ results' = {r \in results : r.item # i}
    BY DEF Notebook!DeleteItem, Notebook!source, Notebook!pending, Notebook!ghosts
<1>2. /\ items' \in [Notebook!Ids -> Items \cup {None}] /\ items'[i] = None
      /\ \A j \in Notebook!Ids \ {i} : items'[j] = items[j]
    BY <1>1 DEF NotebookShapes
<1>3. \A r \in results \cup uses : r.item \in Notebook!Ids
    BY DEF NotebookShapes, Results, Uses
<1>4. NotebookShapes'
    BY <1>1, <1>2 DEF NotebookShapes
<1>5. KeysDiffer' /\ MeaningsDecided'
    BY <1>1, <1>2 DEF KeysDiffer, MeaningsDecided
<1>6. ExamplesFit' /\ ResultsFit'
    BY <1>1, <1>2, <1>3 DEF ExamplesFit, ResultsFit
<1> QED BY <1>4, <1>5, <1>6

\* A result keeps its item when its time is over.
LEMMA ExpireKeeps ==
    ASSUME NotebookInv, NEW r \in results, Notebook!Expire(r) PROVE NotebookInv'
<1> USE DEF NotebookInv
<1> DEFINE expired == [r EXCEPT !.expired = TRUE]
<1>1. /\ UNCHANGED <<cue, items, made, uses, lookup, pick, decided, fetched>>
      /\ results' = (results \ {r}) \cup {expired}
    BY DEF Notebook!Expire, Notebook!source, Notebook!pending, Notebook!ghosts
<1>2. r \in Results
    BY DEF NotebookShapes
<1>3. /\ expired \in Results /\ expired.item = r.item /\ expired.provider = r.provider
      /\ expired.senses = r.senses
    BY <1>2, Zenon DEF Results
<1> HIDE DEF expired
<1>4. NotebookShapes'
    BY <1>1, <1>3 DEF NotebookShapes
<1>5. ResultsFit'
    <2>1. \A q \in results' : /\ items[q.item] # None
                              /\ \A d \in q.senses : <<q.item, q.provider, d>> \in fetched
        BY <1>1, <1>3 DEF ResultsFit
    <2>2. \A p, q \in results' : <<p.item, p.provider>> = <<q.item, q.provider>> => p = q
        BY <1>1, <1>3 DEF ResultsFit
    <2> QED BY <1>1, <2>1, <2>2 DEF ResultsFit
<1> QED BY <1>1, <1>4, <1>5 DEF KeysDiffer, ExamplesFit, MeaningsDecided

\* An example that forgets its cue keeps its line.
LEMMA ForgetKeeps ==
    ASSUME NotebookInv, NEW segments, Notebook!Forget(segments)
    PROVE  /\ uses' \subseteq Uses
           /\ \A u \in uses' : /\ items[u.item] # None
                               /\ KeyOf[TextOf[u.line][u.span]] = items[u.item].key[2]
<1> DEFINE Forgotten(u) == [u EXCEPT !.segment = IF u.segment \in segments THEN None
                                                                         ELSE u.segment]
<1>1. uses' = {Forgotten(u) : u \in uses}
    BY DEF Notebook!Forget
<1>2. ASSUME NEW u \in uses
      PROVE  /\ Forgotten(u) \in Uses /\ Forgotten(u).item = u.item
             /\ Forgotten(u).line = u.line /\ Forgotten(u).span = u.span
    <2>1. u \in Uses
        BY DEF NotebookInv, NotebookShapes
    <2>2. (IF u.segment \in segments THEN None ELSE u.segment) \in Segments \cup {None}
        BY <2>1 DEF Uses
    <2> QED BY <2>1, <2>2, Zenon DEF Uses
<1> HIDE DEF Forgotten
<1> QED BY <1>1, <1>2 DEF NotebookInv, ExamplesFit

\* The changes of the cues leave the notebook as it is.
LEMMA CuesChange ==
    ASSUME NotebookInv,
           \/ \E s \in Segments, line \in Lines : Notebook!EditCue(s, line)
           \/ \E s \in Segments : Notebook!ReplaceCue(s)
           \/ Notebook!DeleteTask
    PROVE  NotebookInv'
<1> USE DEF NotebookInv
<1>1. /\ UNCHANGED <<items, made, results, lookup, pick, decided, fetched>>
      /\ cue' \in [Segments -> Lines]
      /\ UNCHANGED uses \/ \E segments : Notebook!Forget(segments)
    BY DEF Notebook!EditCue, Notebook!ReplaceCue, Notebook!DeleteTask, Notebook!pending,
           Notebook!ghosts, Notebook!source, NotebookShapes
<1>2. /\ uses' \subseteq Uses
      /\ \A u \in uses' : /\ items[u.item] # None
                          /\ KeyOf[TextOf[u.line][u.span]] = items[u.item].key[2]
    <2>1. CASE UNCHANGED uses
        BY <2>1 DEF NotebookShapes, ExamplesFit
    <2>2. ASSUME NEW segments, Notebook!Forget(segments)
          PROVE  /\ uses' \subseteq Uses
                 /\ \A u \in uses' : /\ items[u.item] # None
                                     /\ KeyOf[TextOf[u.line][u.span]] = items[u.item].key[2]
        BY <2>2, ForgetKeeps
    <2> QED BY <1>1, <2>1, <2>2
<1> QED
    BY <1>1, <1>2 DEF NotebookShapes, KeysDiffer, ExamplesFit, ResultsFit, MeaningsDecided

\* Every step of the notebook, and of the cues beside it, keeps the invariant.
LEMMA NotebookStep ==
    ASSUME NotebookAssumption, NotebookInv, [Notebook!NotebookNext]_Notebook!notebookVars
    PROVE  NotebookInv'
<1>1. CASE UNCHANGED Notebook!notebookVars
    <2>1. UNCHANGED <<cue, items, made, uses, results, lookup, pick, decided, fetched>>
        BY <1>1 DEF Notebook!notebookVars
    <2> QED BY <2>1
            DEF NotebookInv, NotebookShapes, KeysDiffer, ExamplesFit, ResultsFit,
                MeaningsDecided
<1>2. CASE Notebook!NotebookNext
    BY <1>2, SaveKeeps, DecideKeeps, LookupKeeps, PickKeeps, DeleteItemKeeps, ExpireKeeps,
       CuesChange
    DEF Notebook!NotebookNext
<1> QED BY <1>1, <1>2

\* The notebook stays coherent for any number of items, cues and dictionaries: no two items
\* of one key, every example says what its item is about, no example or result outlives its
\* item, a meaning that names a dictionary is a definition it gave for that item, and no
\* meaning changes unless the user decides (local_learning_service.rs:88).
THEOREM NotebookCoherent ==
    ASSUME NotebookAssumption PROVE Notebook!NotebookSpec => []Notebook!NotebookKept
<1>1. Notebook!NotebookInit => NotebookInv
    BY NotebookInitially
<1>2. NotebookInv /\ [Notebook!NotebookNext]_Notebook!notebookVars => NotebookInv'
    BY NotebookStep
<1>3. NotebookInv => Notebook!NotebookKept
    <2> SUFFICES ASSUME NotebookInv PROVE Notebook!NotebookKept
        OBVIOUS
    <2> QED BY DEF NotebookInv, KeysDiffer, ExamplesFit, ResultsFit, MeaningsDecided,
                   Notebook!NotebookKept
<1> QED BY <1>1, <1>2, <1>3, PTL DEF Notebook!NotebookSpec

process == x1
handle == x5
lock == x6
sent == x7
upsets == x8
USE DEF process, handle, lock, at, sent, calls, upsets

(***************************************************************************)
(* TranslationServer: one process at the address, which the handle has.    *)
(*                                                                         *)
(* A handle is given up only when its process is dead, so that whoever     *)
(* starts another one finds the address free.  Until something breaks, a   *)
(* server that was found ready stays ready for whoever is about to ask it. *)
(***************************************************************************)
ProcessStates == {"loading", "ready", "hung", "dying", "dead"}
Holding == {"inspect", "health", "stop", "start", "poll", "give up"}
Asking == {"send", "answer", "send again", "answer again"}
Places == {"idle", "lock"} \cup Holding \cup Asking
Outcomes == {None, "failed", "cancelled", "translated"}

\* No caller, no number of a process and no outcome is None.
ServerAssumption == None \notin Callers \cup Nat \cup {"failed"}

ServerShapes ==
    /\ process \in Seq(ProcessStates)
    /\ handle \in DOMAIN process \cup {None} /\ lock \in Callers \cup {None}
    /\ at \in [Callers -> Places] /\ outcome \in [Callers -> Outcomes]
    /\ sent \in [Callers -> Nat \cup {None}] /\ upsets \in Nat

\* Who is about to look at the handle holds its lock, and knows whether it is there.
LockHeld ==
    \A c \in Callers :
        /\ at[c] \in Holding <=> lock = c
        /\ at[c] = "start" => handle = None
        /\ at[c] \in Holding \ {"start"} => handle # None

\* What lives can be stopped.
HandleListens == \A p \in DOMAIN process : process[p] # "dead" => p = handle

\* Until something breaks nobody fails: who starts a server sees it load, and who asks one
\* asks one that is ready.
Unbroken ==
    upsets = 0 =>
        /\ \A p \in DOMAIN process : process[p] # "hung"
        /\ \A c \in Callers :
              /\ outcome[c] # "failed"
              /\ at[c] \notin {"give up", "send again", "answer again"}
              /\ at[c] = "poll" => process[handle] \in {"loading", "ready"}
              /\ at[c] \in {"send", "answer"} => handle # None /\ process[handle] = "ready"
              /\ at[c] = "answer" => sent[c] = handle

ServerInv == ServerShapes /\ LockHeld /\ HandleListens /\ Unbroken

\* Nothing runs at first.
LEMMA ServerInitially ==
    ASSUME ServerAssumption PROVE Server!ServerInit => ServerInv
<1> SUFFICES ASSUME Server!ServerInit PROVE ServerInv
    OBVIOUS
<1> USE DEF Server!ServerInit
<1>1. process \in Seq(ProcessStates) /\ DOMAIN process = {}
    OBVIOUS
<1>2. ServerShapes
    BY <1>1 DEF ServerShapes, Places, Outcomes
<1>3. LockHeld
    BY DEF LockHeld, Holding, ServerAssumption
<1>4. HandleListens /\ Unbroken
    BY <1>1 DEF HandleListens, Unbroken, ServerAssumption
<1> QED BY <1>2, <1>3, <1>4 DEF ServerInv

\* A caller goes on, and the others stay where they are.
LEMMA CallerMoves ==
    ASSUME ServerShapes, NEW c \in Callers, NEW to \in Places, at' = [at EXCEPT ![c] = to]
    PROVE  /\ at' \in [Callers -> Places] /\ at'[c] = to
           /\ \A d \in Callers \ {c} : at'[d] = at[d]
<1>1. at \in [Callers -> Places]
    BY DEF ServerShapes
<1> QED BY <1>1

\* A call ends, and gives its lock back.
LEMMA CallEnds ==
    ASSUME ServerShapes, NEW c \in Callers, NEW how \in Outcomes, Server!Ends(c, how)
    PROVE  /\ at' \in [Callers -> Places] /\ at'[c] = "idle"
           /\ \A d \in Callers \ {c} : at'[d] = at[d]
           /\ outcome' \in [Callers -> Outcomes] /\ outcome'[c] = how
           /\ \A d \in Callers \ {c} : outcome'[d] = outcome[d]
           /\ lock' = IF lock = c THEN None ELSE lock
BY DEF ServerShapes, Server!Ends, Places

\* One process changes its state.
LEMMA ProcessBecomes ==
    ASSUME process \in Seq(ProcessStates), NEW p \in DOMAIN process,
           NEW to \in ProcessStates,
           process' = [process EXCEPT ![p] = to]
    PROVE  /\ process' \in Seq(ProcessStates) /\ DOMAIN process' = DOMAIN process
           /\ process'[p] = to
           /\ \A q \in DOMAIN process \ {p} : process'[q] = process[q]
<1>1. DOMAIN process = 1..Len(process)
    BY LenProperties
<1>2. process' \in Seq(ProcessStates)
    BY <1>1, ExceptSeq
<1> QED BY <1>2

\* The processes have a state, and are numbered.
LEMMA ProcessFacts ==
    ASSUME ServerShapes
    PROVE  /\ \A p \in DOMAIN process : process[p] \in ProcessStates /\ p \in Nat
           /\ DOMAIN process = 1..Len(process) /\ Len(process) \in Nat
BY LenProperties, ElementOfSeq DEF ServerShapes

\* The invariant after a step of a caller that leaves the processes and the handle alone.
LEMMA CallerStep ==
    ASSUME ServerAssumption, ServerInv, NEW c \in Callers,
           UNCHANGED <<process, handle>>,
           at' \in [Callers -> Places], \A d \in Callers \ {c} : at'[d] = at[d],
           outcome' \in [Callers -> Outcomes],
           \A d \in Callers \ {c} : outcome'[d] = outcome[d],
           sent' \in [Callers -> Nat \cup {None}],
           \A d \in Callers \ {c} : sent'[d] = sent[d],
           upsets' \in Nat, upsets' = 0 => upsets = 0,
           \/ lock' = lock /\ (at[c] \in Holding <=> at'[c] \in Holding)
           \/ lock = c /\ lock' = None /\ at'[c] \notin Holding
           \/ lock = None /\ lock' = c /\ at'[c] \in Holding,
           at'[c] = "start" => handle = None,
           at'[c] \in Holding \ {"start"} => handle # None,
           upsets' = 0 =>
               /\ outcome'[c] # "failed"
               /\ at'[c] \notin {"poll", "give up", "send again", "answer again"}
               /\ at'[c] \in {"send", "answer"} => handle # None /\ process[handle] = "ready"
               /\ at'[c] = "answer" => sent'[c] = handle
    PROVE  ServerInv'
<1> USE DEF ServerInv
<1>1. ServerShapes'
    <2>1. process' \in Seq(ProcessStates) /\ handle' \in DOMAIN process' \cup {None}
        BY DEF ServerShapes
    <2>2. lock' \in Callers \cup {None}
        BY DEF ServerShapes
    <2> QED BY <2>1, <2>2 DEF ServerShapes
<1>2. LockHeld'
    BY DEF LockHeld, ServerAssumption
<1>3. HandleListens'
    BY DEF HandleListens
<1>4. Unbroken'
    <2> SUFFICES ASSUME upsets' = 0 PROVE Unbroken'
        BY DEF Unbroken
    <2>1. ASSUME NEW d \in Callers
          PROVE  /\ outcome'[d] # "failed"
                 /\ at'[d] \notin {"give up", "send again", "answer again"}
                 /\ at'[d] = "poll" => process[handle] \in {"loading", "ready"}
                 /\ at'[d] \in {"send", "answer"} => handle # None /\ process[handle] = "ready"
                 /\ at'[d] = "answer" => sent'[d] = handle
        <3>1. CASE d = c
            BY <3>1
        <3>2. CASE d # c
            BY <3>2 DEF Unbroken
        <3> QED BY <3>1, <3>2
    <2> QED BY <2>1 DEF Unbroken
<1> QED BY <1>1, <1>2, <1>3, <1>4

\* A call begins, takes the lock, and gives it back for the request.
LEMMA CallerSteps ==
    ASSUME ServerAssumption, ServerInv, NEW c \in Callers,
           \/ Server!Call(c) \/ Server!Lock(c) \/ Server!Cancel(c)
           \/ Server!Health(c) /\ UNCHANGED process
           \/ Server!Poll(c) /\ UNCHANGED handle
           \/ Server!Inspect(c) /\ UNCHANGED handle
    PROVE  ServerInv'
<1> USE DEF ServerInv
<1>0. /\ at[c] \in Places /\ lock \in Callers \cup {None} /\ upsets \in Nat
      /\ upsets + 1 \in Nat /\ upsets + 1 # 0
      /\ outcome \in [Callers -> Outcomes] /\ sent \in [Callers -> Nat \cup {None}]
      /\ at[c] \in Holding <=> lock = c
      /\ c # None
    BY DEF ServerShapes, LockHeld, ServerAssumption
<1>1. CASE Server!Call(c)
    <2>1. UNCHANGED <<process, handle, sent>> /\ at[c] = "idle" /\ lock # c
        BY <1>0, <1>1 DEF Server!Call, Holding
    <2>2. CASE /\ at' = [at EXCEPT ![c] = "lock"]
               /\ outcome' = [outcome EXCEPT ![c] = None] /\ UNCHANGED <<lock, upsets>>
        <3>1. /\ at' \in [Callers -> Places] /\ at'[c] = "lock"
              /\ \A d \in Callers \ {c} : at'[d] = at[d]
            BY <2>2, CallerMoves DEF Places
        <3>2. /\ outcome' \in [Callers -> Outcomes] /\ outcome'[c] = None
              /\ \A d \in Callers \ {c} : outcome'[d] = outcome[d]
            BY <1>0, <2>2 DEF Outcomes
        <3> QED BY <1>0, <2>1, <2>2, <3>1, <3>2, CallerStep DEF Holding, ServerAssumption
    <2>3. CASE Server!Upset /\ Server!Ends(c, "failed")
        <3>1. upsets' = upsets + 1
            BY <2>3 DEF Server!Upset
        <3> QED BY <1>0, <2>1, <2>3, <3>1, CallEnds, CallerStep DEF Holding, Outcomes
    <2> QED BY <1>1, <2>2, <2>3 DEF Server!Call
<1>2. CASE Server!Lock(c)
    <2> DEFINE to == IF handle = None THEN "start" ELSE "inspect"
    <2>1. /\ UNCHANGED <<process, handle, sent, outcome, upsets>>
          /\ at[c] = "lock" /\ lock = None /\ lock' = c /\ at' = [at EXCEPT ![c] = to]
        BY <1>2 DEF Server!Lock, Server!Free
    <2>2. to \in Places /\ to \in Holding
        BY DEF Places, Holding
    <2>3. /\ at' \in [Callers -> Places] /\ at'[c] = to
          /\ \A d \in Callers \ {c} : at'[d] = at[d]
        BY <2>1, <2>2, CallerMoves
    <2>4. upsets' = 0 => outcome'[c] # "failed"
        BY <2>1 DEF Unbroken
    <2> QED BY <1>0, <2>1, <2>2, <2>3, <2>4, CallerStep
<1>3. CASE Server!Cancel(c)
    <2>1. /\ Server!Ends(c, "cancelled") /\ UNCHANGED <<process, handle, upsets>>
          /\ sent' \in [Callers -> Nat \cup {None}]
          /\ \A d \in Callers \ {c} : sent'[d] = sent[d]
        BY <1>0, <1>3 DEF Server!Cancel
    <2>2. /\ at' \in [Callers -> Places] /\ at'[c] = "idle"
          /\ \A d \in Callers \ {c} : at'[d] = at[d]
          /\ outcome' \in [Callers -> Outcomes] /\ outcome'[c] = "cancelled"
          /\ \A d \in Callers \ {c} : outcome'[d] = outcome[d]
          /\ lock' = IF lock = c THEN None ELSE lock
        BY <2>1, CallEnds DEF Outcomes
    <2> QED BY <1>0, <2>1, <2>2, CallerStep DEF Holding
<1>4. CASE Server!Health(c) /\ UNCHANGED process
    <2>0. at[c] = "health" /\ lock = c /\ handle # None /\ handle \in DOMAIN process
        BY <1>0, <1>4 DEF Server!Health, LockHeld, Holding, ServerShapes
    <2>1. UNCHANGED <<process, handle, sent>>
        BY <1>4 DEF Server!Health
    <2>2. CASE Server!Serves(handle) /\ Server!Unlocks(c, "send") /\ UNCHANGED upsets
        <3>1. /\ at' = [at EXCEPT ![c] = "send"] /\ UNCHANGED outcome /\ lock' = None
              /\ process[handle] = "ready"
            BY <2>2 DEF Server!Serves, Server!Unlocks
        <3>2. /\ at' \in [Callers -> Places] /\ at'[c] = "send"
              /\ \A d \in Callers \ {c} : at'[d] = at[d]
            BY <3>1, CallerMoves DEF Places, Asking
        <3>3. upsets' = 0 => outcome'[c] # "failed"
            BY <2>2, <3>1 DEF Unbroken
        <3> QED BY <1>0, <2>0, <2>1, <2>2, <3>1, <3>2, <3>3, CallerStep DEF Holding
    <2>3. CASE Server!Goes(c, "stop") /\ (upsets' = upsets \/ upsets' = upsets + 1)
        <3>1. /\ at' = [at EXCEPT ![c] = "stop"] /\ UNCHANGED <<lock, outcome>>
            BY <2>3 DEF Server!Goes
        <3>2. /\ at' \in [Callers -> Places] /\ at'[c] = "stop"
              /\ \A d \in Callers \ {c} : at'[d] = at[d]
            BY <3>1, CallerMoves DEF Places, Holding
        <3>3. upsets' = 0 => outcome'[c] # "failed"
            BY <1>0, <2>3, <3>1 DEF Unbroken
        <3> QED BY <1>0, <2>0, <2>1, <2>3, <3>1, <3>2, <3>3, CallerStep DEF Holding
    <2> QED BY <1>4, <2>2, <2>3 DEF Server!Health, Server!Upset
<1>5. CASE Server!Poll(c) /\ UNCHANGED handle
    <2>0. at[c] = "poll" /\ lock = c /\ handle # None
        BY <1>0, <1>5 DEF Server!Poll, LockHeld, Holding
    <2>1. /\ UNCHANGED <<process, handle, sent, upsets>>
          /\ Server!Serves(handle) /\ Server!Unlocks(c, "send")
        BY <1>5, <2>0 DEF Server!Poll
    <2>2. /\ at' = [at EXCEPT ![c] = "send"] /\ UNCHANGED outcome /\ lock' = None
          /\ process[handle] = "ready"
        BY <2>1 DEF Server!Serves, Server!Unlocks
    <2>3. /\ at' \in [Callers -> Places] /\ at'[c] = "send"
          /\ \A d \in Callers \ {c} : at'[d] = at[d]
        BY <2>2, CallerMoves DEF Places, Asking
    <2>4. upsets' = 0 => outcome'[c] # "failed"
        BY <2>1, <2>2 DEF Unbroken
    <2> QED BY <1>0, <2>0, <2>1, <2>2, <2>3, <2>4, CallerStep DEF Holding
<1>6. CASE Server!Inspect(c) /\ UNCHANGED handle
    <2>0. at[c] = "inspect" /\ lock = c /\ handle # None
        BY <1>0, <1>6 DEF Server!Inspect, LockHeld, Holding
    <2>1. UNCHANGED <<process, handle, sent, upsets>> /\ Server!Goes(c, "health")
        BY <1>6, <2>0 DEF Server!Inspect
    <2>2. at' = [at EXCEPT ![c] = "health"] /\ UNCHANGED <<lock, outcome>>
        BY <2>1 DEF Server!Goes
    <2>3. /\ at' \in [Callers -> Places] /\ at'[c] = "health"
          /\ \A d \in Callers \ {c} : at'[d] = at[d]
        BY <2>2, CallerMoves DEF Places, Holding
    <2>4. upsets' = 0 => outcome'[c] # "failed"
        BY <2>1, <2>2 DEF Unbroken
    <2> QED BY <1>0, <2>0, <2>1, <2>2, <2>3, <2>4, CallerStep DEF Holding
<1> QED BY <1>1, <1>2, <1>3, <1>4, <1>5, <1>6

\* A request goes to the one process there is, and is answered when that is ready.
LEMMA RequestSteps ==
    ASSUME ServerAssumption, ServerInv, NEW c \in Callers, NEW again \in BOOLEAN,
           Server!Send(c, again) \/ Server!Answer(c, again)
    PROVE  ServerInv'
<1> USE DEF ServerInv
<1>0. /\ UNCHANGED <<process, handle, upsets>> /\ at[c] \in Asking /\ lock # c /\ c # None
      /\ upsets \in Nat
      /\ outcome \in [Callers -> Outcomes] /\ sent \in [Callers -> Nat \cup {None}]
    <2>1. UNCHANGED <<process, handle, upsets>> /\ at[c] \in Asking
        BY DEF Server!Send, Server!Answer, Asking
    <2>2. lock # c /\ c # None
        BY <2>1 DEF Asking, LockHeld, Holding, ServerAssumption
    <2> QED BY <2>1, <2>2 DEF ServerShapes
<1>1. /\ at[c] \notin Holding /\ "idle" \notin Holding
      /\ \A to \in Asking : to \notin Holding /\ to \in Places
    BY <1>0 DEF Asking, Holding, Places
<1>2. upsets = 0 => /\ again = FALSE /\ outcome[c] # "failed"
                    /\ handle # None /\ process[handle] = "ready"
                    /\ at[c] = "answer" => sent[c] = handle
    BY DEF Unbroken, Server!Send, Server!Answer
<1> DEFINE Fails == Server!RequestFails(c, again)
<1>3. ASSUME Fails, sent' \in [Callers -> Nat \cup {None}],
             \A d \in Callers \ {c} : sent'[d] = sent[d], upsets # 0
      PROVE  ServerInv'
    <2>1. CASE Server!Ends(c, "failed")
        <3>1. /\ at' \in [Callers -> Places] /\ at'[c] = "idle"
              /\ \A d \in Callers \ {c} : at'[d] = at[d]
              /\ outcome' \in [Callers -> Outcomes]
              /\ \A d \in Callers \ {c} : outcome'[d] = outcome[d]
              /\ lock' = lock
            BY <1>0, <2>1, CallEnds DEF Outcomes
        <3> QED BY <1>0, <1>1, <1>3, <3>1, CallerStep
    <2>2. CASE Server!Goes(c, "send again")
        <3>1. at' = [at EXCEPT ![c] = "send again"] /\ UNCHANGED <<lock, outcome>>
            BY <2>2 DEF Server!Goes
        <3>2. /\ at' \in [Callers -> Places] /\ at'[c] = "send again"
              /\ \A d \in Callers \ {c} : at'[d] = at[d]
            BY <3>1, CallerMoves DEF Places, Asking
        <3> QED BY <1>0, <1>1, <1>3, <3>1, <3>2, CallerStep DEF Asking
    <2> QED BY <1>3, <2>1, <2>2 DEF Server!RequestFails
<1>4. CASE Server!Send(c, again)
    <2>1. CASE Server!Listening = {}
        <3>1. Fails /\ UNCHANGED sent
            BY <1>4, <2>1 DEF Server!Send
        <3>2. upsets # 0
            BY <1>2, <2>1, ProcessFacts DEF Server!Listening, ServerShapes
        <3> QED BY <1>0, <1>3, <3>1, <3>2
    <2>2. CASE Server!Listening # {}
        <3> DEFINE to == IF again THEN "answer again" ELSE "answer"
                   p == CHOOSE q \in Server!Listening : TRUE
        <3>1. sent' = [sent EXCEPT ![c] = p] /\ Server!Goes(c, to)
            BY <1>4, <2>2 DEF Server!Send
        <3>2. p \in Server!Listening
            BY <2>2
        <3>3. p \in Nat /\ p = handle /\ p \in DOMAIN process
            BY <3>2, ProcessFacts DEF Server!Listening, HandleListens
        <3>4. /\ sent' \in [Callers -> Nat \cup {None}] /\ sent'[c] = handle
              /\ \A d \in Callers \ {c} : sent'[d] = sent[d]
            BY <1>0, <3>1, <3>3
        <3>5. at' = [at EXCEPT ![c] = to] /\ UNCHANGED <<lock, outcome>> /\ to \in Asking
            BY <3>1 DEF Server!Goes, Asking
        <3>6. /\ at' \in [Callers -> Places] /\ at'[c] = to
              /\ \A d \in Callers \ {c} : at'[d] = at[d]
            BY <1>1, <3>5, CallerMoves
        <3>7. upsets = 0 => to = "answer"
            BY <1>2
        <3> HIDE DEF to, p
        <3> QED BY <1>0, <1>1, <1>2, <3>4, <3>5, <3>6, <3>7, CallerStep DEF Asking
    <2> QED BY <2>1, <2>2
<1>5. CASE Server!Answer(c, again)
    <2>1. /\ sent' \in [Callers -> Nat \cup {None}]
          /\ \A d \in Callers \ {c} : sent'[d] = sent[d]
        BY <1>0, <1>5 DEF Server!Answer
    <2>2. CASE Server!Serves(sent[c])
        <3>1. Server!Ends(c, "translated")
            BY <1>5, <2>2 DEF Server!Answer
        <3>2. /\ at' \in [Callers -> Places] /\ at'[c] = "idle"
              /\ \A d \in Callers \ {c} : at'[d] = at[d]
              /\ outcome' \in [Callers -> Outcomes] /\ outcome'[c] = "translated"
              /\ \A d \in Callers \ {c} : outcome'[d] = outcome[d]
              /\ lock' = lock
            BY <1>0, <3>1, CallEnds DEF Outcomes
        <3> QED BY <1>0, <1>1, <2>1, <3>2, CallerStep
    <2>3. CASE ~Server!Serves(sent[c])
        <3>1. Fails
            BY <1>5, <2>3 DEF Server!Answer
        <3>2. upsets # 0
            BY <1>2, <1>5, <2>3 DEF Server!Serves, Server!Answer
        <3> QED BY <1>3, <2>1, <3>1, <3>2
    <2> QED BY <2>2, <2>3
<1> QED BY <1>4, <1>5

\* A handle whose process is dead is given up, and with it maybe the call.
LEMMA HandleGoes ==
    ASSUME ServerAssumption, ServerInv, NEW c \in Callers,
           \/ Server!Inspect(c) /\ process[handle] = "dead"
           \/ Server!Stop(c) \/ Server!GiveUp(c)
           \/ Server!Poll(c) /\ process[handle] = "dead"
    PROVE  ServerInv'
<1> USE DEF ServerInv
<1>0. /\ UNCHANGED <<process, sent, upsets>>
      /\ handle' = None /\ process[handle] = "dead"
      /\ at[c] \in {"inspect", "stop", "give up", "poll"}
    BY DEF Server!Inspect, Server!Stop, Server!GiveUp, Server!Poll, Server!Serves
<1>1. lock = c /\ handle # None
    BY <1>0 DEF LockHeld, Holding
<1>2. \A p \in DOMAIN process : process[p] = "dead"
    BY <1>0 DEF HandleListens
<1>3. \A d \in Callers \ {c} : at[d] \notin Holding
    BY <1>1 DEF LockHeld
<1>4. upsets = 0 => \A d \in Callers : at[d] \notin Asking
    BY <1>0, <1>1 DEF Unbroken, Asking
<1>5. /\ at' \in [Callers -> Places] /\ \A d \in Callers \ {c} : at'[d] = at[d]
      /\ outcome' \in [Callers -> Outcomes]
      /\ \A d \in Callers \ {c} : outcome'[d] = outcome[d]
      /\ \/ at'[c] = "start" /\ UNCHANGED <<lock, outcome>>
         \/ at'[c] = "idle" /\ lock' = None /\ at[c] \in {"give up", "poll"}
    <2>1. CASE at[c] \in {"inspect", "stop"}
        <3>1. Server!Goes(c, "start")
            BY <1>0, <2>1 DEF Server!Inspect, Server!Stop, Server!GiveUp, Server!Poll
        <3>2. at' = [at EXCEPT ![c] = "start"] /\ UNCHANGED <<lock, outcome>>
            BY <3>1 DEF Server!Goes
        <3> QED BY <3>2, CallerMoves DEF Places, Holding, ServerShapes
    <2>2. CASE at[c] \in {"give up", "poll"}
        <3>1. Server!Ends(c, "failed")
            BY <1>0, <2>2
            DEF Server!Inspect, Server!Stop, Server!GiveUp, Server!Poll, Server!Serves
        <3> QED BY <1>1, <2>2, <3>1, CallEnds DEF Outcomes
    <2> QED BY <1>0, <2>1, <2>2
<1>6. upsets = 0 => at[c] \notin {"give up", "poll"}
    BY <1>0 DEF Unbroken
<1>7. ServerShapes'
    BY <1>0, <1>1, <1>5 DEF ServerShapes
<1>8. LockHeld'
    BY <1>0, <1>1, <1>3, <1>5 DEF LockHeld, Holding, ServerAssumption
<1>9. HandleListens'
    BY <1>0, <1>2 DEF HandleListens
<1>10. Unbroken'
    BY <1>0, <1>3, <1>4, <1>5, <1>6 DEF Unbroken, Holding, Asking
<1> QED BY <1>7, <1>8, <1>9, <1>10

\* A server that does not answer is killed by the caller that holds its handle.
LEMMA KillSteps ==
    ASSUME ServerAssumption, ServerInv, NEW c \in Callers,
           \/ Server!Health(c) /\ ~UNCHANGED process
           \/ Server!PollEnds(c)
    PROVE  ServerInv'
<1> USE DEF ServerInv
<1> DEFINE to == IF process[handle] = "dead" THEN "dead" ELSE "dying"
           place == IF at[c] = "poll" THEN "give up" ELSE "stop"
<1>0. /\ UNCHANGED <<handle, sent, lock, outcome>> /\ at[c] \in {"health", "poll"}
      /\ process' = [process EXCEPT ![handle] = to] /\ at' = [at EXCEPT ![c] = place]
    <2>1. CASE Server!PollEnds(c)
        BY <2>1 DEF Server!PollEnds, Server!Goes
    <2>2. CASE Server!Health(c) /\ ~UNCHANGED process
        BY <2>2 DEF Server!Health, Server!Goes
    <2> QED BY <2>1, <2>2
<1>1. lock = c /\ handle # None /\ handle \in DOMAIN process
    BY <1>0 DEF LockHeld, Holding, ServerShapes
<1>2. /\ upsets' \in Nat /\ (upsets' = 0 => upsets = 0)
      /\ upsets' = 0 => at[c] # "poll" /\ process[handle] # "ready"
    <2>1. upsets + 1 \in Nat /\ upsets + 1 # 0 /\ upsets \in Nat
        BY DEF ServerShapes
    <2>2. CASE Server!PollEnds(c)
        <3>1. upsets' = upsets + 1 \/ (process[handle] = "hung" /\ upsets' = upsets)
            BY <2>2 DEF Server!PollEnds, Server!Upset
        <3> QED BY <1>1, <2>1, <3>1 DEF Unbroken
    <2>3. CASE Server!Health(c) /\ ~UNCHANGED process
        <3>1. upsets' = upsets + 1 \/ (process[handle] # "ready" /\ upsets' = upsets)
            BY <1>1, <2>3 DEF Server!Health, Server!Upset, Server!Serves
        <3>2. at[c] = "health"
            BY <2>3 DEF Server!Health
        <3> QED BY <2>1, <3>1, <3>2
    <2> QED BY <2>2, <2>3
<1>3. to \in ProcessStates /\ place \in Places /\ place \in {"stop", "give up"}
    BY DEF ProcessStates, Places, Holding
<1>4. /\ process' \in Seq(ProcessStates) /\ DOMAIN process' = DOMAIN process
      /\ process'[handle] = to
      /\ \A q \in DOMAIN process \ {handle} : process'[q] = process[q]
    BY <1>0, <1>1, <1>3, ProcessBecomes DEF ServerShapes
<1>5. /\ at' \in [Callers -> Places] /\ at'[c] = place
      /\ \A d \in Callers \ {c} : at'[d] = at[d]
    BY <1>0, <1>3, CallerMoves
<1>6. \A d \in Callers \ {c} : at[d] \notin Holding
    BY <1>1 DEF LockHeld
<1>7. upsets' = 0 => place = "stop" /\ \A d \in Callers : at[d] \notin Asking
    BY <1>0, <1>2 DEF Unbroken, Asking
<1>8. to # "hung"
    OBVIOUS
<1> HIDE DEF to, place
<1>9. ServerShapes'
    BY <1>0, <1>2, <1>4, <1>5 DEF ServerShapes
<1>10. LockHeld'
    BY <1>0, <1>1, <1>3, <1>5 DEF LockHeld, Holding
<1>11. HandleListens'
    BY <1>0, <1>4 DEF HandleListens
<1>12. Unbroken'
    BY <1>0, <1>2, <1>4, <1>5, <1>6, <1>7, <1>8 DEF Unbroken, Holding, Asking
<1> QED BY <1>9, <1>10, <1>11, <1>12

\* Whoever starts a server finds the address free.
LEMMA StartStep ==
    ASSUME ServerAssumption, ServerInv, NEW c \in Callers, Server!Start(c) PROVE ServerInv'
<1> USE DEF ServerInv
<1>0. at[c] = "start" /\ lock = c /\ handle = None /\ UNCHANGED sent
    BY DEF Server!Start, LockHeld, Holding
<1>1. \A p \in DOMAIN process : process[p] = "dead"
    BY <1>0, ProcessFacts DEF HandleListens, ServerAssumption
<1>2. Server!Listening = {}
    BY <1>1 DEF Server!Listening
<1>3. \A d \in Callers \ {c} : at[d] \notin Holding
    BY <1>0 DEF LockHeld
<1>4. CASE Server!Upset /\ Server!Ends(c, "failed") /\ UNCHANGED <<process, handle>>
    <2>1. upsets' = upsets + 1 /\ upsets' \in Nat /\ upsets' # 0
        BY <1>4 DEF Server!Upset, ServerShapes
    <2>2. /\ at' \in [Callers -> Places] /\ at'[c] = "idle"
          /\ \A d \in Callers \ {c} : at'[d] = at[d]
          /\ outcome' \in [Callers -> Outcomes]
          /\ \A d \in Callers \ {c} : outcome'[d] = outcome[d]
          /\ lock' = None
        BY <1>0, <1>4, CallEnds DEF Outcomes
    <2>3. sent' \in [Callers -> Nat \cup {None}]
        BY <1>0 DEF ServerShapes
    <2> QED BY <1>0, <1>4, <2>1, <2>2, <2>3, CallerStep DEF Holding
<1>5. CASE /\ process' = Append(process, "loading") /\ handle' = Len(process')
           /\ Server!Goes(c, "poll") /\ UNCHANGED upsets
    <2>1. /\ process' \in Seq(ProcessStates) /\ Len(process') = Len(process) + 1
          /\ \A p \in 1..Len(process) : process'[p] = process[p]
          /\ process'[Len(process) + 1] = "loading"
        <3>1. process \in Seq(ProcessStates) /\ "loading" \in ProcessStates
            BY DEF ServerShapes, ProcessStates
        <3> QED BY <1>5, <3>1, AppendProperties
    <2>2. /\ DOMAIN process' = 1..(Len(process) + 1) /\ Len(process) \in Nat
          /\ DOMAIN process = 1..Len(process)
        BY <2>1, LenProperties, ProcessFacts
    <2>3. /\ handle' \in DOMAIN process' /\ process'[handle'] = "loading" /\ handle' \in Nat
          /\ \A p \in DOMAIN process' : p # handle' => process'[p] = "dead"
        BY <1>1, <1>5, <2>1, <2>2
    <2>4. at' = [at EXCEPT ![c] = "poll"] /\ UNCHANGED <<lock, outcome>>
        BY <1>5 DEF Server!Goes
    <2>5. /\ at' \in [Callers -> Places] /\ at'[c] = "poll"
          /\ \A d \in Callers \ {c} : at'[d] = at[d]
        BY <2>4, CallerMoves DEF Places, Holding
    <2>6. upsets = 0 => \A d \in Callers : at[d] \notin Asking
        BY <1>0 DEF Unbroken, Asking
    <2>7. ServerShapes'
        BY <1>0, <1>5, <2>1, <2>3, <2>4, <2>5 DEF ServerShapes
    <2>8. LockHeld'
        BY <1>0, <1>3, <2>3, <2>4, <2>5 DEF LockHeld, Holding, ServerAssumption
    <2>9. HandleListens'
        BY <2>3 DEF HandleListens
    <2>10. Unbroken'
        BY <1>3, <1>5, <2>3, <2>4, <2>5, <2>6 DEF Unbroken, Holding, Asking
    <2> QED BY <2>7, <2>8, <2>9, <2>10
<1> QED BY <1>2, <1>4, <1>5 DEF Server!Start

\* A process loads, exits, dies or hangs; without an upset none that was ready is lost.
LEMMA ProcessSteps ==
    ASSUME ServerAssumption, ServerInv, NEW p \in DOMAIN process,
           Server!Loads(p) \/ Server!Exits(p) \/ Server!Breaks(p)
    PROVE  ServerInv'
<1> USE DEF ServerInv
<1>0. /\ UNCHANGED <<handle, lock, at, sent, outcome>> /\ process[p] # "dead"
    BY DEF Server!Loads, Server!Exits, Server!Breaks, Server!Becomes
<1>1. upsets' \in Nat /\ (upsets' = 0 => upsets = 0)
    BY DEF Server!Loads, Server!Exits, Server!Breaks, Server!Upset, ServerShapes
<1>2. PICK to \in ProcessStates :
         /\ process' = [process EXCEPT ![p] = to]
         /\ upsets' = 0 => \/ to = "ready"
                           \/ to = "dead" /\ process[p] = "dying"
    <2>1. upsets + 1 # 0
        BY DEF ServerShapes
    <2> QED BY <2>1 DEF Server!Loads, Server!Exits, Server!Breaks, Server!Becomes,
                       Server!Upset, ProcessStates
<1>3. /\ process' \in Seq(ProcessStates) /\ DOMAIN process' = DOMAIN process
      /\ process'[p] = to
      /\ \A q \in DOMAIN process \ {p} : process'[q] = process[q]
    BY <1>2, ProcessBecomes DEF ServerShapes
<1>4. p = handle
    BY <1>0 DEF HandleListens
<1>5. ServerShapes'
    BY <1>0, <1>1, <1>3 DEF ServerShapes
<1>6. LockHeld' /\ HandleListens'
    BY <1>0, <1>3, <1>4 DEF LockHeld, HandleListens
<1>7. Unbroken'
    BY <1>0, <1>1, <1>2, <1>3, <1>4 DEF Unbroken
<1> QED BY <1>5, <1>6, <1>7

\* The handle is closed with its process when nobody needs it.
LEMMA CloseStep ==
    ASSUME ServerAssumption, ServerInv, Server!Close PROVE ServerInv'
<1> USE DEF ServerInv
<1>1. /\ process' \in Seq(ProcessStates) /\ DOMAIN process' = {} /\ handle' = None
      /\ UNCHANGED <<lock, at, sent, outcome, upsets>> /\ \A c \in Callers : at[c] = "idle"
    BY DEF Server!Close
<1>2. ServerShapes'
    BY <1>1 DEF ServerShapes
<1>3. LockHeld' /\ HandleListens' /\ Unbroken'
    BY <1>1 DEF LockHeld, HandleListens, Unbroken, Holding
<1> QED BY <1>2, <1>3

\* Every step of the callers and of the processes keeps the invariant.
LEMMA ServerStep ==
    ASSUME ServerAssumption, ServerInv, [Server!ServerNext]_Server!serverVars
    PROVE  ServerInv'
<1>1. CASE UNCHANGED Server!serverVars
    <2>1. UNCHANGED <<process, handle, lock, at, sent, outcome, upsets>>
        BY <1>1 DEF Server!serverVars
    <2> QED BY <2>1 DEF ServerInv, ServerShapes, LockHeld, HandleListens, Unbroken
<1>2. ASSUME NEW c \in Callers, Server!Proceeds(c) PROVE ServerInv'
    <2>1. CASE Server!Inspect(c)
        <3>1. process[handle] = "dead" \/ UNCHANGED handle
            BY <2>1 DEF Server!Inspect
        <3> QED BY <2>1, <3>1, CallerSteps, HandleGoes
    <2>2. CASE Server!Poll(c)
        <3>1. process[handle] = "dead" \/ UNCHANGED handle
            BY <2>2 DEF Server!Poll
        <3> QED BY <2>2, <3>1, CallerSteps, HandleGoes
    <2>3. CASE Server!Health(c)
        BY <2>3, CallerSteps, KillSteps
    <2> QED
        BY <1>2, <2>1, <2>2, <2>3, CallerSteps, HandleGoes, StartStep, RequestSteps
        DEF Server!Proceeds
<1>3. CASE Server!ServerNext
    BY <1>2, <1>3, CallerSteps, KillSteps, ProcessSteps, CloseStep DEF Server!ServerNext
<1> QED BY <1>1, <1>3

\* The invariant says that the server is one (ManagedTranslationServer).
LEMMA ServerHolds == ServerInv => Server!ServerKept
<1> SUFFICES ASSUME ServerInv PROVE Server!ServerKept
    OBVIOUS
<1>1. Server!Listening \in SUBSET {handle}
    BY DEF ServerInv, HandleListens, Server!Listening
<1>3. \A p \in Server!Listening : process[p] # "dying" => p = handle
    BY <1>1
<1>4. upsets = 0 => \A c \in Callers : outcome[c] # "failed"
    BY DEF ServerInv, Unbroken
<1> QED BY <1>1, <1>3, <1>4 DEF Server!ServerKept

\* However many translations call the server, are cancelled while they wait, and find it
\* dead or hung: no two processes live at the address, none lives that no handle can stop,
\* and as long as nothing breaks every translation that is not cancelled succeeds
\* (local_llama.rs:116).
THEOREM OneServer ==
    ASSUME ServerAssumption PROVE Server!ServerSpec => []Server!ServerKept
<1>1. Server!ServerInit => ServerInv
    BY ServerInitially
<1>2. ServerInv /\ [Server!ServerNext]_Server!serverVars => ServerInv'
    BY ServerStep
<1>3. ServerInv => Server!ServerKept
    BY ServerHolds
<1> QED BY <1>1, <1>2, <1>3, PTL DEF Server!ServerSpec

shown == x1
draft == x2
timer == x3
writes == x6
copy == x5
foreign == x7
allowed == x8
intent == x9
conflict == x10
USE DEF stored, shown, draft, timer, writes, copy, foreign, allowed, intent, conflict

(***************************************************************************)
(* SubtitleDrafts: typing is not lost.                                     *)
(*                                                                         *)
(* What was typed last and is not in the database is what the draft and    *)
(* its copy say.  The draft gives it up only at rest, and is brought to    *)
(* rest only by an answer that made it the text of the database; the copy  *)
(* goes only with the draft at rest.                                       *)
(***************************************************************************)
Saved == {Original} \cup Others \cup {DraftTrimmed[text] : text \in DraftTexts}
Answers == {[refused |-> FALSE, text |-> text] : text \in Saved}
Calls == [text : DraftTexts, result : {None, Drafts!Refused} \cup Answers]
DraftRecords == [saved : Saved, value : Saved \cup DraftTexts, review : BOOLEAN,
                 recovered : BOOLEAN, composing : BOOLEAN, error : BOOLEAN]
Copies == [saved : Saved, value : DraftTexts, review : BOOLEAN]

\* None is no text and no record; what the database holds is trimmed.
DraftAssumption ==
    /\ None \notin Saved \cup DraftTexts \cup Answers \cup {Drafts!Refused}
    /\ None \notin DraftRecords \cup Copies
    /\ \A text \in Saved \cap DraftTexts : DraftTrimmed[text] = text

DraftShapes ==
    /\ stored \in Saved /\ shown \in Saved \cup {None} /\ conflict \in Saved \cup {None}
    /\ intent \in DraftTexts \cup {None} /\ foreign \subseteq Others
    /\ draft # None =>
          /\ draft \in DraftRecords
          /\ draft.recovered \/ writes # {} \/ Drafts!Differs(draft) => draft.value \in DraftTexts
          /\ draft.recovered => ~draft.composing
    /\ copy # None => copy \in Copies

\* One call at a time, of a draft that the view knows.
OneWriter ==
    /\ writes \subseteq Calls /\ \A v, w \in writes : v = w
    /\ \A w \in writes : w.result \in Answers => w.result.text = DraftTrimmed[w.text]
    /\ writes # {} => draft # None /\ ~draft.recovered

Waiting == draft # None /\ (draft.recovered \/ Drafts!Pending)
Resting == draft # None /\ ~draft.recovered /\ ~Drafts!Pending
Committed == /\ stored = DraftTrimmed[intent]
             /\ \A w \in writes : w.result # None \/ w.text = intent

\* What was typed last is in the draft and the copy, or in the database for good.
TypingKept ==
    intent # None =>
        /\ Waiting => draft.value = intent
        /\ copy # None => copy.value = intent
        /\ (draft # None /\ draft.value = intent /\ copy # None) \/ Committed

\* What the draft may give up is in the database: at rest, ...
RestIsSaved == intent # None /\ Resting => Committed
\* ... restored, as soon as the cue says it, ...
RestoredIsSaved ==
    intent # None /\ draft # None /\ draft.recovered /\ shown = intent => Committed
\* ... in a copy that says nothing new, ...
CopyIsSaved ==
    intent # None /\ copy # None /\ copy.saved = copy.value =>
        (writes # {} /\ draft.saved = intent) \/ Committed
\* ... and in an answer.
AnswerIsSaved ==
    intent # None =>
        \A w \in writes : w.result \in Answers /\ intent \in {w.text, DraftTrimmed[w.text]} =>
            stored = DraftTrimmed[intent]

\* A restored draft is its copy, and one that was made on another text is not written.
ConflictWaits ==
    /\ draft # None /\ draft.recovered /\ copy # None =>
          copy = [saved |-> draft.saved, value |-> draft.value, review |-> draft.review]
    /\ conflict # None =>
          /\ writes = {}
          /\ draft # None => \/ draft.review
                             \/ draft.recovered /\ draft.saved = conflict
                             \/ ~draft.recovered /\ ~Drafts!Differs(draft)
          /\ copy # None => copy.review \/ copy.saved = conflict

DraftInv ==
    /\ DraftShapes /\ OneWriter /\ TypingKept /\ RestIsSaved /\ RestoredIsSaved
    /\ CopyIsSaved /\ AnswerIsSaved /\ ConflictWaits

\* Nothing is typed at first.
LEMMA DraftsInitially ==
    ASSUME DraftAssumption PROVE Drafts!DraftInit => DraftInv
<1> SUFFICES ASSUME Drafts!DraftInit PROVE DraftInv
    OBVIOUS
<1>1. /\ stored = Original /\ shown = None /\ draft = None /\ writes = {} /\ copy = None
      /\ foreign = Others /\ intent = None /\ conflict = None
    BY DEF Drafts!DraftInit
<1>2. DraftShapes
    BY <1>1 DEF DraftShapes, Saved
<1>3. /\ OneWriter /\ TypingKept /\ RestIsSaved /\ RestoredIsSaved
      /\ CopyIsSaved /\ AnswerIsSaved /\ ConflictWaits
    BY <1>1 DEF OneWriter, TypingKept, RestIsSaved, RestoredIsSaved, CopyIsSaved,
                AnswerIsSaved, ConflictWaits
<1> QED BY <1>2, <1>3 DEF DraftInv

\* The copy of a draft has its text while there is something to save.
LEMMA CopiedFacts ==
    ASSUME NEW d \in DraftRecords, NEW going, DraftAssumption,
           d.value # d.saved \/ going # {} => d.value \in DraftTexts
    PROVE  IF going # {} \/ d.value # d.saved
           THEN /\ Drafts!Copied(d, going) \in Copies
                /\ Drafts!Copied(d, going) =
                      [saved |-> d.saved, value |-> d.value, review |-> d.review]
                /\ Drafts!Copied(d, going).saved = d.saved
                /\ Drafts!Copied(d, going).value = d.value
                /\ Drafts!Copied(d, going).review = d.review
           ELSE Drafts!Copied(d, going) = None
<1>1. d # None
    BY DEF DraftAssumption
<1>2. d.saved \in Saved /\ d.review \in BOOLEAN
    BY DEF DraftRecords
<1>3. CASE going # {} \/ d.value # d.saved
    <2>1. Drafts!Copied(d, going) = [saved |-> d.saved, value |-> d.value, review |-> d.review]
        BY <1>1, <1>3 DEF Drafts!Copied, Drafts!Differs
    <2> QED BY <1>2, <1>3, <2>1 DEF Copies
<1>4. CASE ~(going # {} \/ d.value # d.saved)
    BY <1>4 DEF Drafts!Copied, Drafts!Differs
<1> QED BY <1>3, <1>4

\* The task is read: the view has what the database holds.
LEMMA LoadKeeps ==
    ASSUME DraftAssumption, DraftInv, Drafts!Load PROVE DraftInv'
<1> USE DEF DraftInv
<1>1. /\ shown' = stored
      /\ UNCHANGED <<stored, draft, writes, copy, foreign, intent, conflict>>
    BY DEF Drafts!Load
<1>2. DraftShapes' /\ OneWriter'
    BY <1>1 DEF DraftShapes, OneWriter, Drafts!Differs
<1>3. TypingKept' /\ RestIsSaved' /\ CopyIsSaved' /\ AnswerIsSaved' /\ ConflictWaits'
    BY <1>1 DEF TypingKept, RestIsSaved, CopyIsSaved, AnswerIsSaved, ConflictWaits,
           Committed, Waiting, Resting, Drafts!Pending, Drafts!Differs
<1>4. RestoredIsSaved'
    <2> SUFFICES ASSUME intent # None, draft # None, draft.recovered, stored = intent
                 PROVE  stored = DraftTrimmed[intent] /\ writes = {}
        BY <1>1 DEF RestoredIsSaved, Committed
    <2> QED BY DEF DraftShapes, DraftAssumption, OneWriter
<1> QED BY <1>2, <1>3, <1>4

\* The cue is shown: the draft is made, restored, brought up to date or left alone.
LEMMA ShowKeeps ==
    ASSUME DraftAssumption, DraftInv, Drafts!Show PROVE DraftInv'
<1> USE DEF DraftInv
<1>0. /\ UNCHANGED <<stored, shown, writes, copy, foreign, intent>>
      /\ shown # None /\ shown \in Saved /\ draft' = Drafts!Ensured(shown)
      /\ conflict' = IF ~Drafts!Restores THEN conflict
                     ELSE IF shown = Drafts!Basis THEN None ELSE Drafts!Basis
    BY DEF Drafts!Show, DraftShapes
<1>1. CASE draft = None
    <2>1. draft' = Drafts!NewDraft(shown) /\ conflict' = conflict
        BY <1>0, <1>1 DEF Drafts!Ensured, Drafts!Restores
    <2>2. /\ draft' \in DraftRecords /\ draft'.saved = shown /\ draft'.value = shown
          /\ draft'.recovered = FALSE /\ writes = {}
        BY <1>0, <1>1, <2>1 DEF Drafts!NewDraft, DraftRecords, OneWriter
    <2>3. intent # None => Committed
        BY <1>1 DEF TypingKept
    <2>4. DraftShapes'
        BY <1>0, <2>1, <2>2 DEF DraftShapes, Drafts!Differs
    <2>5. OneWriter'
        BY <1>0, <2>2 DEF OneWriter
    <2>6. TypingKept' /\ RestIsSaved' /\ RestoredIsSaved' /\ CopyIsSaved' /\ AnswerIsSaved'
        BY <1>0, <2>2, <2>3
        DEF TypingKept, RestIsSaved, RestoredIsSaved, CopyIsSaved, AnswerIsSaved, Committed,
            Waiting, Resting, Drafts!Pending, Drafts!Differs
    <2>7. ConflictWaits'
        BY <1>0, <2>1, <2>2 DEF ConflictWaits, Drafts!Differs
    <2> QED BY <2>4, <2>5, <2>6, <2>7
<1>2. CASE draft # None /\ draft.recovered
    <2> DEFINE review == draft.review \/ draft.saved # shown
    <2>0. draft \in DraftRecords /\ writes = {} /\ draft.value \in DraftTexts
        BY <1>2 DEF DraftShapes, OneWriter
    <2>1. draft' = [draft EXCEPT !.saved = shown, !.recovered = FALSE, !.review = review,
                                 !.error = review]
        BY <1>0, <1>2 DEF Drafts!Ensured
    <2>2. /\ draft' \in DraftRecords /\ draft'.saved = shown /\ draft'.value = draft.value
          /\ draft'.recovered = FALSE /\ draft'.review = review
          /\ draft'.composing = draft.composing
        <3>1. review \in BOOLEAN
            BY <2>0 DEF DraftRecords
        <3> HIDE DEF review
        <3> QED BY <1>0, <2>0, <2>1, <3>1, Zenon DEF DraftRecords
    <2>3. conflict' = IF shown = Drafts!Basis THEN None ELSE Drafts!Basis
        BY <1>0, <1>2 DEF Drafts!Restores
    <2>4. Drafts!Basis = IF conflict = None THEN draft.saved ELSE conflict
        BY DEF Drafts!Basis
    <2> HIDE <1>0
    <2>5. /\ UNCHANGED <<stored, shown, writes, copy, foreign, intent>>
          /\ shown # None /\ shown \in Saved /\ draft' # None
        BY <1>0, <2>2 DEF DraftAssumption
    <2>6. DraftShapes'
        BY <2>0, <2>2, <2>3, <2>4, <2>5 DEF DraftShapes, Drafts!Differs, DraftRecords
    <2>7. OneWriter'
        BY <2>0, <2>2, <2>5 DEF OneWriter
    <2>8. TypingKept'
        BY <1>2, <2>2, <2>5
        DEF TypingKept, Committed, Waiting, Drafts!Pending
    <2>9. RestIsSaved'
        BY <1>2, <2>0, <2>2, <2>5
        DEF TypingKept, RestoredIsSaved, RestIsSaved, Committed, Resting, Waiting,
            Drafts!Pending, Drafts!Differs
    <2>10. RestoredIsSaved' /\ CopyIsSaved' /\ AnswerIsSaved'
        BY <2>0, <2>2, <2>5
        DEF RestoredIsSaved, CopyIsSaved, AnswerIsSaved, Committed
    <2>11. ConflictWaits'
        <3>1. copy # None => copy.review = draft.review /\ copy.saved = draft.saved
            BY <1>2 DEF ConflictWaits
        <3> QED BY <1>2, <2>0, <2>2, <2>3, <2>4, <2>5, <3>1 DEF ConflictWaits
    <2> QED BY <2>6, <2>7, <2>8, <2>9, <2>10, <2>11
<1>3. CASE draft # None /\ ~draft.recovered /\ Drafts!Pending
    <2>1. draft' = draft /\ conflict' = conflict
        BY <1>0, <1>3 DEF Drafts!Ensured, Drafts!Restores
    <2>2. DraftShapes' /\ OneWriter'
        BY <1>0, <2>1 DEF DraftShapes, OneWriter, Drafts!Differs
    <2> QED BY <1>0, <2>1, <2>2 DEF TypingKept, RestIsSaved, RestoredIsSaved, CopyIsSaved,
                   AnswerIsSaved, Committed, ConflictWaits, Waiting, Resting,
                   Drafts!Pending, Drafts!Differs
<1>4. CASE Resting
    <2>0. /\ draft \in DraftRecords /\ writes = {} /\ draft.saved = draft.value
          /\ draft # None /\ ~draft.recovered
        BY <1>4 DEF Resting, Drafts!Pending, Drafts!Differs, DraftShapes
    <2>1. draft' = [draft EXCEPT !.saved = shown, !.value = shown] /\ conflict' = conflict
        BY <1>0, <1>4 DEF Drafts!Ensured, Resting, Drafts!Restores
    <2>2. /\ draft' \in DraftRecords /\ draft'.saved = shown /\ draft'.value = shown
          /\ draft'.recovered = draft.recovered /\ draft'.review = draft.review
          /\ draft'.composing = draft.composing
        <3>1. shown \in Saved \cup DraftTexts
            BY <1>0
        <3> QED BY <1>0, <2>0, <2>1, <3>1, Zenon DEF DraftRecords
    <2> HIDE <1>0
    <2>3. /\ UNCHANGED <<stored, shown, writes, copy, foreign, intent>> /\ draft' # None
        BY <1>0, <2>2 DEF DraftAssumption
    <2>4. intent # None => Committed
        BY <1>4 DEF RestIsSaved
    <2>5. DraftShapes' /\ OneWriter'
        BY <2>0, <2>1, <2>2, <2>3 DEF DraftShapes, OneWriter, Drafts!Differs
    <2>6. TypingKept' /\ RestIsSaved' /\ RestoredIsSaved' /\ CopyIsSaved' /\ AnswerIsSaved'
        BY <2>0, <2>2, <2>3, <2>4
        DEF TypingKept, RestIsSaved, RestoredIsSaved, CopyIsSaved, AnswerIsSaved, Committed,
            Waiting, Resting, Drafts!Pending, Drafts!Differs
    <2>7. ConflictWaits'
        BY <2>0, <2>1, <2>2, <2>3 DEF ConflictWaits, Drafts!Differs
    <2> QED BY <2>5, <2>6, <2>7
<1> QED BY <1>1, <1>2, <1>3, <1>4 DEF Resting

\* What is typed is in the draft and its copy, unless it says nothing new.
LEMMA TypeKeeps ==
    ASSUME DraftAssumption, DraftInv, NEW text \in DraftTexts, NEW composing \in BOOLEAN,
           Drafts!Type(text, composing)
    PROVE  DraftInv'
<1> USE DEF DraftInv
<1> DEFINE base == Drafts!Ensured(shown)
<1>0. /\ UNCHANGED <<stored, shown, writes, foreign>> /\ conflict' = None
      /\ shown \in Saved /\ draft \in DraftRecords /\ draft # None /\ ~draft.recovered
      /\ draft' = [base EXCEPT !.value = text, !.composing = composing,
                               !.error = FALSE, !.review = FALSE]
      /\ copy' = Drafts!Copied(draft', writes)
      /\ intent' = IF (writes # {} \/ Drafts!Differs(draft')) /\ ~Drafts!Overtaken(text)
                   THEN text ELSE None
    BY DEF Drafts!Type, DraftShapes
<1>1. base \in DraftRecords /\ base.recovered = FALSE
    <2>1. CASE Drafts!Pending
        <3>1. base = draft
            BY <1>0, <2>1 DEF Drafts!Ensured
        <3> QED BY <1>0, <3>1 DEF DraftRecords
    <2>2. CASE ~Drafts!Pending
        <3>1. base = [draft EXCEPT !.saved = shown, !.value = shown]
            BY <1>0, <2>2 DEF Drafts!Ensured
        <3>2. shown \in Saved \cup DraftTexts
            BY <1>0
        <3>3. base \in DraftRecords /\ base.recovered = draft.recovered
            BY <1>0, <3>1, <3>2, Zenon DEF DraftRecords
        <3> QED BY <1>0, <3>3 DEF DraftRecords
    <2> QED BY <2>1, <2>2
<1>2. writes # {} => base.saved = draft.saved
    BY <1>0 DEF Drafts!Ensured, Drafts!Pending
<1> HIDE DEF base
<1>3. /\ draft' \in DraftRecords /\ draft'.saved = base.saved /\ draft'.value = text
      /\ draft'.recovered = base.recovered
    <2>1. text \in Saved \cup DraftTexts /\ FALSE \in BOOLEAN
        OBVIOUS
    <2> QED BY <1>0, <1>1, <2>1, Zenon DEF DraftRecords
<1>4. IF writes # {} \/ text # draft'.saved
      THEN copy' \in Copies /\ copy'.saved = draft'.saved /\ copy'.value = text
      ELSE copy' = None
    <2> DEFINE d == draft'
    <2>1. copy' = Drafts!Copied(d, writes)
        BY <1>0
    <2>2. d \in DraftRecords /\ d.value \in DraftTexts /\ d.value = text
        BY <1>3
    <2> HIDE DEF d
    <2>3. IF writes # {} \/ d.value # d.saved
          THEN /\ Drafts!Copied(d, writes) \in Copies
               /\ Drafts!Copied(d, writes).saved = d.saved
               /\ Drafts!Copied(d, writes).value = d.value
          ELSE Drafts!Copied(d, writes) = None
        BY <2>2, CopiedFacts
    <2>4. IF writes # {} \/ text # d.saved
          THEN copy' \in Copies /\ copy'.saved = d.saved /\ copy'.value = text
          ELSE copy' = None
        BY <2>1, <2>2, <2>3
    <2> QED BY <2>4 DEF d
<1>5. /\ draft' # None /\ draft'.recovered = FALSE
      /\ copy' # None <=> writes # {} \/ text # draft'.saved
    <2>1. draft' # None
        BY <1>3 DEF DraftAssumption
    <2>2. draft'.recovered = FALSE
        BY <1>1, <1>3
    <2>3. copy' # None <=> writes # {} \/ text # draft'.saved
        BY <1>4 DEF DraftAssumption
    <2> QED BY <2>1, <2>2, <2>3
<1>6. intent' # None =>
        /\ intent' = text /\ (writes # {} \/ text # draft'.saved)
        /\ \A w \in writes : w.result \in Answers /\ text \in {w.text, w.result.text} =>
              stored = w.result.text
    <2>1. ASSUME NEW w \in writes, w.result \in Answers
          PROVE  w.result # None /\ ~w.result.refused
        <3>1. \A r \in Answers : r # None
            BY DEF DraftAssumption
        <3>2. \A r \in Answers : ~r.refused
            BY DEF Answers
        <3> QED BY <2>1, <3>1, <3>2
    <2> QED BY <1>0, <1>3, <2>1 DEF Drafts!Differs, Drafts!Overtaken
<1> HIDE <1>0
<1>7. UNCHANGED <<stored, shown, writes, foreign>> /\ conflict' = None
    BY <1>0
<1>8. DraftShapes'
    BY <1>3, <1>4, <1>5, <1>6, <1>7 DEF DraftShapes
<1>9. OneWriter'
    BY <1>5, <1>7 DEF OneWriter
<1>10. TypingKept' /\ RestIsSaved' /\ RestoredIsSaved'
    BY <1>3, <1>4, <1>5, <1>6, <1>7
    DEF TypingKept, RestIsSaved, RestoredIsSaved, Waiting, Resting, Drafts!Pending,
        Drafts!Differs
<1>11. CopyIsSaved'
    BY <1>3, <1>4, <1>5, <1>6, <1>7 DEF CopyIsSaved
<1>12. AnswerIsSaved'
    <2> SUFFICES ASSUME intent' # None, NEW w \in writes, w.result \in Answers,
                        text \in {w.text, DraftTrimmed[w.text]}
                 PROVE  stored = DraftTrimmed[text]
        BY <1>6, <1>7 DEF AnswerIsSaved
    <2>1. w.result.text = DraftTrimmed[w.text] /\ w.text \in DraftTexts
        BY DEF OneWriter, Calls
    <2>2. stored = DraftTrimmed[w.text]
        BY <1>6, <2>1
    <2>3. DraftTrimmed[w.text] \in DraftTexts => DraftTrimmed[DraftTrimmed[w.text]] = DraftTrimmed[w.text]
        BY <2>1 DEF DraftAssumption, Saved
    <2> QED BY <2>2, <2>3
<1>13. ConflictWaits'
    BY <1>5, <1>7 DEF ConflictWaits
<1> QED BY <1>8, <1>9, <1>10, <1>11, <1>12, <1>13

\* What was composed, and what is discarded, in a draft that the view knows.
LEMMA CompositionKeeps ==
    ASSUME DraftAssumption, DraftInv, Drafts!EndComposition PROVE DraftInv'
<1> USE DEF DraftInv
<1>0. /\ UNCHANGED <<stored, shown, writes, foreign, intent>> /\ conflict' = None
      /\ draft # None /\ draft \in DraftRecords /\ ~draft.recovered
      /\ draft' = [draft EXCEPT !.composing = FALSE, !.error = FALSE, !.review = FALSE]
      /\ copy' = Drafts!Copied(draft', writes)
    BY DEF Drafts!EndComposition, DraftShapes
<1>1. /\ draft' \in DraftRecords /\ draft'.saved = draft.saved /\ draft'.value = draft.value
      /\ draft'.recovered = draft.recovered
    <2>1. FALSE \in BOOLEAN
        OBVIOUS
    <2> QED BY <1>0, <2>1, Zenon DEF DraftRecords
<1>2. writes # {} \/ draft.value # draft.saved => draft.value \in DraftTexts
    BY <1>0 DEF DraftShapes, Drafts!Differs
<1>3. IF writes # {} \/ draft.value # draft.saved
      THEN copy' \in Copies /\ copy'.saved = draft.saved /\ copy'.value = draft.value
      ELSE copy' = None
    BY <1>0, <1>1, <1>2, CopiedFacts
<1>4. /\ draft' # None
      /\ copy' # None <=> writes # {} \/ draft.value # draft.saved
    BY <1>1, <1>3 DEF DraftAssumption
<1>5. /\ UNCHANGED <<stored, shown, writes, foreign, intent>> /\ conflict' = None
      /\ draft # None /\ ~draft.recovered
    BY <1>0
<1> HIDE <1>0
<1>6. DraftShapes' /\ OneWriter'
    BY <1>1, <1>2, <1>3, <1>4, <1>5 DEF DraftShapes, OneWriter, Drafts!Differs
<1>7. TypingKept' /\ RestIsSaved'
    BY <1>1, <1>3, <1>4, <1>5
    DEF TypingKept, RestIsSaved, Committed, Waiting, Resting, Drafts!Pending, Drafts!Differs
<1>8. RestoredIsSaved' /\ AnswerIsSaved' /\ ConflictWaits'
    BY <1>1, <1>4, <1>5 DEF RestoredIsSaved, AnswerIsSaved, ConflictWaits
<1>9. CopyIsSaved'
    BY <1>1, <1>3, <1>4, <1>5
    DEF CopyIsSaved, TypingKept, Waiting, Committed, Drafts!Pending, Drafts!Differs
<1> QED BY <1>6, <1>7, <1>8, <1>9

\* What is discarded was typed by nobody any more.
LEMMA DiscardKeeps ==
    ASSUME DraftAssumption, DraftInv, Drafts!Discard PROVE DraftInv'
<1> USE DEF DraftInv
<1>0. /\ UNCHANGED <<stored, shown, writes, foreign>> /\ conflict' = None /\ intent' = None
      /\ copy' = None /\ writes = {}
      /\ draft # None /\ draft \in DraftRecords /\ ~draft.recovered
      /\ draft' = [draft EXCEPT !.value = draft.saved, !.error = FALSE, !.review = FALSE]
    BY DEF Drafts!Discard, Drafts!Pending, DraftShapes
<1>1. /\ draft' \in DraftRecords /\ draft'.saved = draft.saved /\ draft'.value = draft.saved
      /\ draft'.recovered = draft.recovered
    <2>1. FALSE \in BOOLEAN /\ draft.saved \in Saved \cup DraftTexts
        BY <1>0 DEF DraftRecords
    <2> QED BY <1>0, <2>1, Zenon DEF DraftRecords
<1>2. DraftShapes' /\ OneWriter'
    BY <1>0, <1>1 DEF DraftShapes, OneWriter, Drafts!Differs
<1> QED
    BY <1>0, <1>1, <1>2
    DEF TypingKept, RestIsSaved, RestoredIsSaved, CopyIsSaved, AnswerIsSaved, ConflictWaits

\* A flush writes what the draft says, when nothing else is being written.
LEMMA FlushKeeps ==
    ASSUME DraftAssumption, DraftInv, NEW explicit \in BOOLEAN, Drafts!Flush(explicit)
    PROVE  DraftInv'
<1> USE DEF DraftInv
<1> DEFINE asked == [draft EXCEPT !.review = FALSE]
           going == IF writes # {} THEN writes ELSE Drafts!Goes(asked)
<1>0. /\ UNCHANGED <<stored, shown, foreign, intent>>
      /\ conflict' = IF explicit THEN None ELSE conflict
      /\ draft # None /\ draft \in DraftRecords /\ ~draft.recovered
      /\ explicit \/ ~draft.review
      /\ writes' = going
      /\ draft' = IF going # writes THEN [asked EXCEPT !.error = FALSE] ELSE asked
      /\ copy' = IF going # writes THEN Drafts!Copied(draft', going) ELSE copy
    BY DEF Drafts!Flush, DraftShapes
<1>1. /\ asked \in DraftRecords /\ asked.saved = draft.saved /\ asked.value = draft.value
      /\ asked.recovered = draft.recovered /\ asked.review = FALSE
      /\ asked.composing = draft.composing
    <2>1. FALSE \in BOOLEAN
        OBVIOUS
    <2> QED BY <1>0, <2>1, Zenon DEF DraftRecords
<1> HIDE DEF asked
<1>2. /\ draft' \in DraftRecords /\ draft'.saved = draft.saved /\ draft'.value = draft.value
      /\ draft'.recovered = draft.recovered /\ draft'.review = FALSE
      /\ draft'.composing = draft.composing
    <2>1. CASE going # writes
        <3>1. draft' = [asked EXCEPT !.error = FALSE] /\ FALSE \in BOOLEAN
            BY <1>0, <2>1
        <3>2. /\ draft' \in DraftRecords /\ draft'.saved = asked.saved
              /\ draft'.value = asked.value /\ draft'.recovered = asked.recovered
              /\ draft'.review = asked.review /\ draft'.composing = asked.composing
            BY <1>1, <3>1, Zenon DEF DraftRecords
        <3> QED BY <1>1, <3>2
    <2>2. CASE going = writes
        BY <1>0, <1>1, <2>2
    <2> QED BY <2>1, <2>2
<1>3. CASE writes' = writes
    <2>1. /\ UNCHANGED <<stored, shown, foreign, intent, writes, copy>>
          /\ conflict' = IF explicit THEN None ELSE conflict
          /\ draft # None /\ ~draft.recovered /\ (explicit \/ ~draft.review) /\ draft' # None
        BY <1>0, <1>2, <1>3 DEF DraftAssumption
    <2> HIDE <1>0, <1>3
    <2>2. DraftShapes' /\ OneWriter'
        BY <1>2, <2>1 DEF DraftShapes, OneWriter, Drafts!Differs
    <2>3. TypingKept' /\ RestIsSaved' /\ RestoredIsSaved' /\ CopyIsSaved' /\ AnswerIsSaved'
        BY <1>2, <2>1
        DEF TypingKept, RestIsSaved, RestoredIsSaved, CopyIsSaved, AnswerIsSaved, Committed,
            Waiting, Resting, Drafts!Pending, Drafts!Differs
    <2>4. ConflictWaits'
        BY <1>2, <2>1 DEF ConflictWaits, Drafts!Differs
    <2> QED BY <2>2, <2>3, <2>4
<1>4. CASE writes' # writes
    <2> DEFINE call == [text |-> draft.value, result |-> None]
    <2>1. writes = {} /\ writes' = {call} /\ draft.value # draft.saved
        <3>1. writes = {} /\ writes' = Drafts!Goes(asked)
            BY <1>0, <1>4
        <3> QED BY <1>1, <1>4, <3>1 DEF Drafts!Goes, Drafts!Differs
    <2>2. draft.value \in DraftTexts
        BY <1>0, <2>1 DEF DraftShapes, Drafts!Differs
    <2>3. call \in Calls /\ call.text = draft.value /\ call.result = None
        BY <2>2 DEF Calls
    <2>4. copy' = Drafts!Copied(draft', going) /\ going = writes'
        BY <1>0, <1>4
    <2>5. copy' \in Copies /\ copy'.saved = draft.saved /\ copy'.value = draft.value
        BY <1>2, <2>1, <2>2, <2>4, CopiedFacts
    <2>6. /\ UNCHANGED <<stored, shown, foreign, intent>>
          /\ conflict' = IF explicit THEN None ELSE conflict
          /\ draft # None /\ ~draft.recovered /\ (explicit \/ ~draft.review)
          /\ draft' # None /\ copy' # None
        BY <1>0, <1>2, <2>5 DEF DraftAssumption
    <2>7. intent # None => draft.value = intent
        BY <2>1, <2>6 DEF TypingKept, Waiting, Drafts!Pending, Drafts!Differs
    <2>8. conflict' = None
        BY <2>1, <2>6 DEF ConflictWaits, Drafts!Differs
    <2> HIDE <1>0, <1>4 
    <2> HIDE DEF going, call
    <2>9. DraftShapes'
        BY <1>2, <2>1, <2>2, <2>5, <2>6, <2>8 DEF DraftShapes, Drafts!Differs
    <2>10. OneWriter'
        BY <1>2, <2>1, <2>3, <2>6 DEF OneWriter, DraftAssumption
    <2>11. TypingKept' /\ RestIsSaved' /\ RestoredIsSaved' /\ CopyIsSaved'
        BY <1>2, <2>1, <2>3, <2>5, <2>6, <2>7
        DEF TypingKept, RestIsSaved, RestoredIsSaved, CopyIsSaved, Waiting, Resting,
            Drafts!Pending
    <2>12. AnswerIsSaved' /\ ConflictWaits'
        BY <1>2, <2>1, <2>3, <2>6, <2>8 DEF AnswerIsSaved, ConflictWaits, DraftAssumption
    <2> QED BY <2>9, <2>10, <2>11, <2>12
<1> QED BY <1>3, <1>4

\* A call commits: the database says what is typed, or something older that the draft replaces.
LEMMA CommitKeeps ==
    ASSUME DraftAssumption, DraftInv, NEW w \in writes, Drafts!WriteCommits(w)
    PROVE  DraftInv'
<1> USE DEF DraftInv
<1> DEFINE told == [w EXCEPT !.result = Drafts!Answer(DraftTrimmed[w.text])]
<1>0. /\ UNCHANGED <<shown, draft, copy, foreign, intent, conflict>>
      /\ w.result = None /\ w \in Calls /\ writes = {w}
      /\ stored' = DraftTrimmed[w.text] /\ writes' = {told}
    BY DEF Drafts!WriteCommits, OneWriter
<1>1. w.text \in DraftTexts /\ DraftTrimmed[w.text] \in Saved
    BY <1>0 DEF Calls, Saved
<1>2. Drafts!Answer(DraftTrimmed[w.text]) \in Answers
    BY <1>1 DEF Drafts!Answer, Answers
<1>3. /\ told \in Calls /\ told.text = w.text /\ told.result = Drafts!Answer(DraftTrimmed[w.text])
    <2>1. Drafts!Answer(DraftTrimmed[w.text]) \in {None, Drafts!Refused} \cup Answers
        BY <1>2
    <2> HIDE DEF Drafts!Answer
    <2> QED BY <1>0, <2>1, Zenon DEF Calls
<1> HIDE DEF told
<1>4. /\ told.result \in Answers /\ told.result # None /\ told.result.text = DraftTrimmed[told.text]
    <2>1. told.result \in Answers /\ told.result # None
        BY <1>2, <1>3 DEF DraftAssumption
    <2>2. Drafts!Answer(DraftTrimmed[w.text]).text = DraftTrimmed[w.text]
        BY DEF Drafts!Answer
    <2> QED BY <1>3, <2>1, <2>2
<1>5. DraftTrimmed[w.text] \in DraftTexts => DraftTrimmed[DraftTrimmed[w.text]] = DraftTrimmed[w.text]
    BY <1>1 DEF DraftAssumption
<1>6. DraftShapes' /\ OneWriter'
    BY <1>0, <1>1, <1>3, <1>4 DEF DraftShapes, OneWriter, Drafts!Differs
<1>7. intent # None /\ Committed => Committed'
    BY <1>0, <1>3, <1>4 DEF Committed
<1>8. ConflictWaits' /\ RestoredIsSaved'
    BY <1>0 DEF ConflictWaits, RestoredIsSaved, OneWriter
<1>9. TypingKept' /\ RestIsSaved' /\ CopyIsSaved'
    BY <1>0, <1>7 DEF TypingKept, RestIsSaved, CopyIsSaved, Waiting, Resting,
           Drafts!Pending, Drafts!Differs
<1>10. AnswerIsSaved'
    BY <1>0, <1>1, <1>3, <1>5 DEF AnswerIsSaved, DraftShapes
<1> QED BY <1>6, <1>8, <1>9, <1>10

\* A call fails: nothing changes but its answer.
LEMMA FailureKeeps ==
    ASSUME DraftAssumption, DraftInv, NEW w \in writes, Drafts!WriteFails(w)
    PROVE  DraftInv'
<1> USE DEF DraftInv
<1> DEFINE told == [w EXCEPT !.result = Drafts!Refused]
<1>0. /\ UNCHANGED <<stored, shown, draft, copy, foreign, intent, conflict>>
      /\ w.result = None /\ w \in Calls /\ writes = {w} /\ writes' = {told}
    BY DEF Drafts!WriteFails, OneWriter
<1>1. told \in Calls /\ told.text = w.text /\ told.result = Drafts!Refused
    <2>1. Drafts!Refused \in {None, Drafts!Refused} \cup Answers
        OBVIOUS
    <2> HIDE DEF Drafts!Refused
    <2> QED BY <1>0, <2>1, Zenon DEF Calls
<1> HIDE DEF told
<1>2. told.result \notin Answers /\ told.result # None
    <2>1. Drafts!Refused.refused = TRUE /\ \A answer \in Answers : answer.refused = FALSE
        BY DEF Drafts!Refused, Answers
    <2>2. Drafts!Refused # None
        BY DEF DraftAssumption
    <2> QED BY <1>1, <2>1, <2>2
<1>3. DraftShapes' /\ OneWriter'
    BY <1>0, <1>1, <1>2 DEF DraftShapes, OneWriter, Drafts!Differs
<1>4. intent # None /\ Committed => Committed'
    BY <1>0, <1>1, <1>2 DEF Committed
<1>5. ConflictWaits' /\ RestoredIsSaved' /\ AnswerIsSaved'
    BY <1>0, <1>2 DEF ConflictWaits, RestoredIsSaved, AnswerIsSaved, OneWriter
<1>6. TypingKept' /\ RestIsSaved' /\ CopyIsSaved'
    BY <1>0, <1>4 DEF TypingKept, RestIsSaved, CopyIsSaved, Waiting, Resting,
           Drafts!Pending, Drafts!Differs
<1> QED BY <1>3, <1>5, <1>6

\* An answer: what was typed since goes on, and what was not is in the database.
LEMMA ReturnKeeps ==
    ASSUME DraftAssumption, DraftInv, NEW w \in writes, Drafts!WriteReturns(w)
    PROVE  DraftInv'
<1> USE DEF DraftInv
<1> DEFINE answered == [draft EXCEPT !.saved = w.result.text, !.value = Drafts!Kept(w)]
           call == [text |-> Drafts!Kept(w), result |-> None]
<1>0. /\ UNCHANGED <<stored, foreign, intent>> /\ conflict' = conflict
      /\ w.result # None /\ ~w.result.refused
      /\ writes' = (writes \ {w}) \cup Drafts!Goes(answered)
      /\ draft' = IF writes' = {} THEN answered ELSE [answered EXCEPT !.error = FALSE]
      /\ copy' = Drafts!Copied(draft', writes')
      /\ shown' = IF shown = None THEN None ELSE w.result.text
    BY DEF Drafts!WriteReturns
<1>1. /\ w \in Calls /\ writes = {w} /\ w.text \in DraftTexts
      /\ w.result \in Answers /\ w.result.text \in Saved /\ w.result.text = DraftTrimmed[w.text]
    <2>1. w \in Calls /\ writes = {w}
        BY DEF OneWriter
    <2>2. w.text \in DraftTexts /\ w.result \in {None, Drafts!Refused} \cup Answers
        BY <2>1 DEF Calls
    <2>3. w.result \in Answers
        BY <1>0, <2>2 DEF Drafts!Refused
    <2>4. w.result.text \in Saved
        BY <2>3 DEF Answers
    <2> QED BY <2>1, <2>2, <2>3, <2>4 DEF OneWriter
<1>2. /\ draft \in DraftRecords /\ draft # None /\ ~draft.recovered /\ draft.value \in DraftTexts
      /\ conflict = None /\ Waiting
    BY <1>1 DEF OneWriter, DraftShapes, ConflictWaits, Waiting, Drafts!Pending
<1>3. Drafts!Kept(w) = IF draft.value = w.text THEN w.result.text ELSE draft.value
    BY DEF Drafts!Kept
<1>4. /\ answered \in DraftRecords /\ answered.saved = w.result.text
      /\ answered.value = Drafts!Kept(w) /\ answered.recovered = draft.recovered
      /\ answered.composing = draft.composing /\ answered.review = draft.review
    <2>1. Drafts!Kept(w) \in Saved \cup DraftTexts
        BY <1>1, <1>2, <1>3
    <2> QED BY <1>1, <1>2, <2>1, Zenon DEF DraftRecords
<1> HIDE DEF answered
<1>5. /\ draft' \in DraftRecords /\ draft'.saved = w.result.text
      /\ draft'.value = Drafts!Kept(w) /\ draft'.recovered = draft.recovered
    <2>1. CASE writes' # {}
        <3>1. draft' = [answered EXCEPT !.error = FALSE] /\ FALSE \in BOOLEAN
            BY <1>0, <2>1
        <3>2. /\ draft' \in DraftRecords /\ draft'.saved = answered.saved
              /\ draft'.value = answered.value /\ draft'.recovered = answered.recovered
            BY <1>4, <3>1, Zenon DEF DraftRecords
        <3> QED BY <1>4, <3>2
    <2>2. CASE writes' = {}
        BY <1>0, <1>4, <2>2
    <2> QED BY <2>1, <2>2
<1>6. \/ writes' = {}
      \/ writes' = {call} /\ Drafts!Kept(w) # w.result.text
    BY <1>0, <1>1, <1>4 DEF Drafts!Goes, Drafts!Differs
<1>7. Drafts!Kept(w) # w.result.text => Drafts!Kept(w) = draft.value
    BY <1>3
<1>8. call.text = Drafts!Kept(w) /\ call.result = None
      /\ (Drafts!Kept(w) # w.result.text => call \in Calls)
    BY <1>2, <1>7 DEF Calls
<1>9. copy' = Drafts!Copied(draft', writes')
    BY <1>0
<1>10. UNCHANGED <<stored, foreign, intent>> /\ conflict' = None
       /\ shown' \in Saved \cup {None}
    BY <1>0, <1>1, <1>2
<1> HIDE <1>0
<1> HIDE DEF call
<1>11. IF Drafts!Kept(w) # w.result.text
       THEN copy' \in Copies /\ copy'.saved = w.result.text /\ copy'.value = draft.value
       ELSE copy' = None /\ writes' = {}
    <2>1. writes' # {} => Drafts!Kept(w) # w.result.text
        BY <1>6
    <2>2. draft'.value # draft'.saved \/ writes' # {} => draft'.value \in DraftTexts
        BY <1>2, <1>5, <1>7, <2>1
    <2>3. CASE Drafts!Kept(w) # w.result.text
        <3>1. copy' \in Copies /\ copy'.saved = draft'.saved /\ copy'.value = draft'.value
            BY <1>5, <1>9, <2>2, <2>3, CopiedFacts
        <3> QED BY <1>5, <1>7, <2>3, <3>1
    <2>4. CASE Drafts!Kept(w) = w.result.text
        <3>1. writes' = {} /\ draft'.value = draft'.saved
            BY <1>5, <2>1, <2>4
        <3> QED BY <1>5, <1>9, <2>2, <2>4, <3>1, CopiedFacts
    <2> QED BY <2>3, <2>4
<1>12. draft' # None
    BY <1>5 DEF DraftAssumption
<1>13. intent # None => draft.value = intent
    BY <1>2 DEF TypingKept
<1>14. intent # None /\ Drafts!Kept(w) = w.result.text => stored = DraftTrimmed[intent]
    BY <1>1, <1>3, <1>13 DEF AnswerIsSaved
<1>15. DraftShapes'
    BY <1>2, <1>5, <1>6, <1>7, <1>10, <1>11 DEF DraftShapes, Drafts!Differs
<1>16. OneWriter'
    BY <1>2, <1>5, <1>6, <1>8, <1>12 DEF OneWriter, DraftAssumption
<1>17. TypingKept'
    <2>1. CASE Drafts!Kept(w) = w.result.text
        BY <1>2, <1>5, <1>10, <1>11, <1>14, <2>1
        DEF TypingKept, Committed, Waiting, Drafts!Pending, Drafts!Differs
    <2>2. CASE Drafts!Kept(w) # w.result.text
        <3>1. copy' # None
            BY <1>11, <2>2 DEF DraftAssumption
        <3> QED BY <1>5, <1>7, <1>10, <1>11, <1>12, <1>13, <2>2, <3>1 DEF TypingKept
    <2> QED BY <2>1, <2>2
<1>18. RestIsSaved' /\ RestoredIsSaved'
    BY <1>2, <1>5, <1>10, <1>11, <1>14
    DEF RestIsSaved, RestoredIsSaved, Committed, Resting, Drafts!Pending, Drafts!Differs
<1>19. CopyIsSaved' /\ ConflictWaits'
    BY <1>2, <1>5, <1>7, <1>10, <1>11 DEF CopyIsSaved, ConflictWaits
<1>20. AnswerIsSaved'
    BY <1>6, <1>8 DEF AnswerIsSaved, DraftAssumption
<1> QED BY <1>15, <1>16, <1>17, <1>18, <1>19, <1>20

\* A failed call leaves the draft and its copy to be saved.
LEMMA ErrorKeeps ==
    ASSUME DraftAssumption, DraftInv, NEW w \in writes, Drafts!WriteErrs(w)
    PROVE  DraftInv'
<1> USE DEF DraftInv
<1>0. /\ UNCHANGED <<stored, shown, foreign, conflict>> /\ writes' = {} /\ writes = {w}
      /\ draft \in DraftRecords /\ draft # None /\ ~draft.recovered /\ draft.value \in DraftTexts
      /\ conflict = None /\ Waiting
      /\ draft' = [draft EXCEPT !.error = TRUE]
      /\ copy' = Drafts!Copied(draft', writes')
      /\ intent' = IF draft # None /\ intent = draft.saved THEN None ELSE intent
    BY DEF Drafts!WriteErrs, Drafts!Meant, OneWriter, DraftShapes, ConflictWaits, Waiting,
           Drafts!Pending
<1>1. /\ draft' \in DraftRecords /\ draft'.saved = draft.saved /\ draft'.value = draft.value
      /\ draft'.recovered = draft.recovered
    <2>1. TRUE \in BOOLEAN
        OBVIOUS
    <2> QED BY <1>0, <2>1, Zenon DEF DraftRecords
<1>2. copy' = Drafts!Copied(draft', writes') /\ writes' = {} /\ draft'.value \in DraftTexts
    BY <1>0, <1>1
<1>3. /\ UNCHANGED <<stored, shown, foreign>> /\ conflict' = None
      /\ draft # None /\ ~draft.recovered
      /\ intent' # None => intent' = intent /\ intent' # draft.saved /\ draft.value = intent'
      /\ draft.value \in DraftTexts
    BY <1>0 DEF TypingKept
<1>4. intent' \in DraftTexts \cup {None}
    BY <1>0 DEF DraftShapes
<1> HIDE <1>0
<1>5. IF draft.value # draft.saved
      THEN copy' \in Copies /\ copy'.saved = draft.saved /\ copy'.value = draft.value
      ELSE copy' = None
    BY <1>1, <1>2, CopiedFacts
<1>6. /\ draft' # None
      /\ copy' # None <=> draft.value # draft.saved
    BY <1>1, <1>5 DEF DraftAssumption
<1>7. DraftShapes'
    BY <1>1, <1>2, <1>3, <1>4, <1>5 DEF DraftShapes
<1>8. OneWriter' /\ AnswerIsSaved' /\ ConflictWaits'
    BY <1>1, <1>2, <1>3 DEF OneWriter, AnswerIsSaved, ConflictWaits
<1>9. TypingKept' /\ RestIsSaved' /\ RestoredIsSaved' /\ CopyIsSaved'
    BY <1>1, <1>2, <1>3, <1>5, <1>6
    DEF TypingKept, RestIsSaved, RestoredIsSaved, CopyIsSaved, Resting, Drafts!Pending,
        Drafts!Differs
<1> QED BY <1>7, <1>8, <1>9

\* Another writer takes what was in the database, and with it the promise to keep it.
LEMMA OtherWriteKeeps ==
    ASSUME DraftAssumption, DraftInv, NEW text \in Others, Drafts!OtherWrites(text)
    PROVE  DraftInv'
<1> USE DEF DraftInv
<1>0. /\ UNCHANGED <<shown, draft, writes, copy, conflict>>
      /\ foreign' \subseteq foreign /\ stored' = text /\ stored' \in Saved
      /\ intent' = IF intent # None /\ stored = DraftTrimmed[intent] THEN None ELSE intent
    BY DEF Drafts!OtherWrites, Saved
<1>1. intent' # None => intent' = intent /\ ~Committed /\ stored # DraftTrimmed[intent]
    BY <1>0 DEF Committed
<1>2. DraftShapes' /\ OneWriter' /\ ConflictWaits'
    BY <1>0 DEF DraftShapes, OneWriter, ConflictWaits, Drafts!Differs
<1>3. TypingKept'
    BY <1>0, <1>1 DEF TypingKept, Waiting, Drafts!Pending, Drafts!Differs
<1>4. RestIsSaved' /\ RestoredIsSaved' /\ CopyIsSaved'
    BY <1>0, <1>1
    DEF RestIsSaved, RestoredIsSaved, CopyIsSaved, Resting, Drafts!Pending, Drafts!Differs
<1>5. AnswerIsSaved'
    BY <1>0, <1>1 DEF AnswerIsSaved
<1> QED BY <1>2, <1>3, <1>4, <1>5

\* The copy is written for all drafts: it is what this one says.
LEMMA CopyingKeeps ==
    ASSUME DraftAssumption, DraftInv, Drafts!AnotherDraftChanges PROVE DraftInv'
<1> USE DEF DraftInv
<1>0. /\ UNCHANGED <<stored, shown, draft, writes, foreign, intent, conflict>>
      /\ copy' = Drafts!Copied(draft, writes)
    BY DEF Drafts!AnotherDraftChanges
<1>1. CASE draft = None
    <2>1. copy' = None
        BY <1>0, <1>1 DEF Drafts!Copied
    <2> QED BY <1>0, <1>1, <2>1 DEF DraftShapes, OneWriter, TypingKept, RestIsSaved,
                   RestoredIsSaved, CopyIsSaved, AnswerIsSaved, ConflictWaits, Committed,
                   Waiting, Resting, Drafts!Pending, Drafts!Differs
<1>2. CASE draft # None
    <2>1. /\ draft \in DraftRecords
          /\ writes # {} \/ draft.value # draft.saved => draft.value \in DraftTexts
        BY <1>2 DEF DraftShapes, Drafts!Differs
    <2>2. IF writes # {} \/ draft.value # draft.saved
          THEN /\ copy' \in Copies /\ copy' # None
               /\ copy' = [saved |-> draft.saved, value |-> draft.value, review |-> draft.review]
               /\ copy'.saved = draft.saved /\ copy'.value = draft.value
               /\ copy'.review = draft.review
          ELSE copy' = None
        BY <1>0, <2>1, CopiedFacts DEF DraftAssumption
    <2>3. DraftShapes' /\ OneWriter' /\ RestIsSaved' /\ RestoredIsSaved' /\ AnswerIsSaved'
        BY <1>0, <2>2
        DEF DraftShapes, OneWriter, RestIsSaved, RestoredIsSaved, AnswerIsSaved, Committed,
            Resting, Drafts!Pending, Drafts!Differs
    <2>4. intent # None /\ ~(writes # {} \/ draft.value # draft.saved) => Committed
        <3>1. CASE draft.recovered
            BY <1>2, <3>1 DEF TypingKept, CopyIsSaved, ConflictWaits, Waiting
        <3>2. CASE ~draft.recovered
            BY <1>2, <3>2 DEF RestIsSaved, Resting, Drafts!Pending, Drafts!Differs
        <3> QED BY <3>1, <3>2
    <2>5. intent # None => draft.value = intent \/ Committed
        BY DEF TypingKept
    <2>6. intent # None /\ (writes # {} \/ draft.value # draft.saved) => draft.value = intent
        BY <1>2 DEF TypingKept, Waiting, Drafts!Pending, Drafts!Differs
    <2>7. TypingKept'
        BY <1>0, <1>2, <2>2, <2>4, <2>6
        DEF TypingKept, Committed, Waiting, Drafts!Pending, Drafts!Differs
    <2>8. CopyIsSaved'
        BY <1>0, <2>2, <2>6 DEF CopyIsSaved
    <2>9. ConflictWaits'
        BY <1>0, <1>2, <2>2 DEF ConflictWaits, Drafts!Differs
    <2> QED BY <2>3, <2>7, <2>8, <2>9
<1> QED BY <1>1, <1>2

\* The next start has the copy, and no call of this one.
LEMMA RestartKeeps ==
    ASSUME DraftAssumption, DraftInv, Drafts!RestartEditor PROVE DraftInv'
<1> USE DEF DraftInv
<1>0. /\ UNCHANGED <<stored, copy, foreign, conflict>> /\ writes' = {} /\ shown' = None
      /\ draft' = IF copy = None THEN None
                  ELSE [saved |-> copy.saved, value |-> copy.value, review |-> copy.review,
                        recovered |-> TRUE, composing |-> FALSE, error |-> FALSE]
      /\ intent' = IF draft # None /\ intent = draft.saved THEN None ELSE intent
    BY DEF Drafts!RestartEditor, Drafts!Meant
<1>1. CASE copy = None
    BY <1>0, <1>1
    DEF DraftShapes, OneWriter, TypingKept, RestIsSaved, RestoredIsSaved, CopyIsSaved,
        AnswerIsSaved, ConflictWaits, Committed, Waiting, Resting
<1>2. CASE copy # None
    <2>1. /\ copy \in Copies /\ copy.saved \in Saved /\ copy.value \in DraftTexts
          /\ copy.review \in BOOLEAN
          /\ copy = [saved |-> copy.saved, value |-> copy.value, review |-> copy.review]
        BY <1>2 DEF DraftShapes, Copies
    <2>2. /\ draft' \in DraftRecords
          /\ draft'.saved = copy.saved /\ draft'.value = copy.value
          /\ draft'.review = copy.review /\ draft'.recovered /\ ~draft'.composing
        BY <1>0, <1>2, <2>1 DEF DraftRecords
    <2>3. /\ UNCHANGED <<stored, copy, foreign, conflict>> /\ writes' = {} /\ shown' = None
          /\ intent' # None => intent' = intent /\ ~(draft # None /\ intent = draft.saved)
          /\ draft' # None
        BY <1>0, <2>2 DEF DraftAssumption
    <2>4. intent' \in DraftTexts \cup {None}
        BY <1>0 DEF DraftShapes
    <2> HIDE <1>0
    <2>5. DraftShapes' /\ OneWriter'
        BY <1>2, <2>1, <2>2, <2>3, <2>4 DEF DraftShapes, OneWriter
    <2>6. TypingKept' /\ RestIsSaved'
        BY <1>2, <2>2, <2>3 DEF TypingKept, RestIsSaved, Resting
    <2>7. RestoredIsSaved' /\ AnswerIsSaved'
        BY <2>3 DEF RestoredIsSaved, AnswerIsSaved
    <2>8. CopyIsSaved'
        BY <1>2, <2>3 DEF CopyIsSaved, Committed, OneWriter
    <2>9. ConflictWaits'
        BY <1>2, <2>1, <2>2, <2>3 DEF ConflictWaits
    <2> QED BY <2>5, <2>6, <2>7, <2>8, <2>9
<1> QED BY <1>1, <1>2

\* Every step of the editor and of the others keeps the invariant.
LEMMA DraftStep ==
    ASSUME DraftAssumption
    PROVE  DraftInv /\ [Drafts!DraftNext]_Drafts!draftVars => DraftInv'
<1> SUFFICES ASSUME DraftInv, [Drafts!DraftNext]_Drafts!draftVars PROVE DraftInv'
    OBVIOUS
<1>1. CASE Drafts!Load
    BY <1>1, LoadKeeps
<1>2. CASE Drafts!Show
    BY <1>2, ShowKeeps
<1>3. CASE Drafts!EndComposition
    BY <1>3, CompositionKeeps
<1>4. CASE Drafts!Discard
    BY <1>4, DiscardKeeps
<1>5. CASE Drafts!FlushAll \/ Drafts!SaveNow \/ Drafts!TimerFires
    <2>1. PICK explicit \in BOOLEAN : Drafts!Flush(explicit)
        BY <1>5, Zenon DEF Drafts!FlushAll, Drafts!SaveNow, Drafts!TimerFires
    <2> QED BY <2>1, FlushKeeps
<1>6. ASSUME NEW w \in writes, Drafts!WriteCommits(w) PROVE DraftInv'
    BY <1>6, CommitKeeps
<1>7. ASSUME NEW w \in writes, Drafts!WriteFails(w) PROVE DraftInv'
    BY <1>7, FailureKeeps
<1>8. ASSUME NEW w \in writes, Drafts!WriteReturns(w) PROVE DraftInv'
    BY <1>8, ReturnKeeps
<1>9. ASSUME NEW w \in writes, Drafts!WriteErrs(w) PROVE DraftInv'
    BY <1>9, ErrorKeeps
<1>10. CASE Drafts!AnotherDraftChanges
    BY <1>10, CopyingKeeps
<1>11. CASE Drafts!RestartEditor
    BY <1>11, RestartKeeps
<1>12. ASSUME NEW text \in DraftTexts, NEW composing \in BOOLEAN, Drafts!Type(text, composing)
       PROVE  DraftInv'
    BY <1>12, TypeKeeps
<1>13. ASSUME NEW text \in Others, Drafts!OtherWrites(text) PROVE DraftInv'
    BY <1>13, OtherWriteKeeps
<1>14. CASE UNCHANGED Drafts!draftVars
    BY <1>14
    DEF DraftInv, DraftShapes, OneWriter, TypingKept, RestIsSaved, RestoredIsSaved,
        CopyIsSaved, AnswerIsSaved, ConflictWaits, Committed, Waiting, Resting,
        Drafts!Pending, Drafts!Differs, Drafts!draftVars
<1> QED
    BY <1>1, <1>2, <1>3, <1>4, <1>5, <1>6, <1>7, <1>8, <1>9, <1>10, <1>11, <1>12, <1>13,
       <1>14, Zenon
       DEF Drafts!DraftNext, Drafts!Writer

\* The invariant says that what was typed is kept (SubtitleDrafts in ui/src/subtitle-drafts.ts).
LEMMA DraftsHold == DraftInv => Drafts!DraftsKeepTyping
    BY DEF DraftInv, TypingKept, Committed, ConflictWaits, Drafts!DraftsKeepTyping

\* What the user typed last is in the draft and in its copy, or the database holds it for
\* good; and a restored draft whose cue says something else waits for the user
\* (SubtitleDrafts in ui/src/subtitle-drafts.ts): for every set of texts and of other
\* writers' texts, any number of edits, failed going and restarts.
THEOREM TypingIsKept ==
    ASSUME DraftAssumption PROVE Drafts!DraftSpec => []Drafts!DraftsKeepTyping
    BY DraftsHold, DraftsInitially, DraftStep, PTL DEF Drafts!DraftSpec

release == x5
up == x1
book == x6
correction == x7
owed == x8
typed == x9
USE DEF release, up, book, correction, owed, typed

(***************************************************************************)
(* GlossaryBook: glossaries keep what the user saved.                      *)
(*                                                                         *)
(* Only a start makes a glossary the built-in one, and it begins with no   *)
(* save under way; so a save of a glossary of the user's never meets the   *)
(* built-in one, which keeps the name it was made with.                    *)
(***************************************************************************)
\* A row of the book, whatever its name.
Row(r) == r \in [name : {r.name}, key : {None, BuiltinKey},
                 version : Glossaries!Releases \cup {None}, terms : Glossaries!AllTerms]

\* A correction that has been planned changes texts into what its terms make of them.
Planned(c) ==
    /\ c \in [terms : Glossaries!AllTerms, changes : {c.changes}]
    /\ c.changes # None =>
          /\ DOMAIN c.changes \subseteq Cues
          /\ \A i \in DOMAIN c.changes :
                c.changes[i].after = CorrectionOf[c.terms][c.changes[i].before]

BookShapes ==
    /\ release \in Glossaries!Releases \cup {0} /\ up \in BOOLEAN
    /\ book = [id \in GlossaryIds |-> book[id]] /\ owed = [id \in GlossaryIds |-> owed[id]]
    /\ \A id \in GlossaryIds : book[id] # None => Row(book[id])
    /\ saving = [w \in Windows |-> saving[w]]
    /\ \A w \in Windows : saving[w] # None =>
          saving[w].id \in GlossaryIds \cup {None} /\ saving[w].terms \in UserTerms
CueShapes ==
    /\ cues = [i \in Cues |-> cues[i]] /\ typed = [i \in Cues |-> typed[i]]
    /\ correction # None => Planned(correction)

\* A start finds nothing under way.
StartsAlone ==
    ~up => /\ release \in Glossaries!Releases /\ correction = None
           /\ \A w \in Windows : saving[w] = None

\* The built-in glossary keeps its name, and no save is of it.
BuiltinApart ==
    /\ \A id \in Glossaries!Builtin : book[id].name = <<BuiltinName, 1>>
    /\ \A w \in Windows : saving[w] # None => saving[w].id \notin Glossaries!Builtin

\* The two halves of GlossariesKept.
BookKept ==
    /\ \A g, h \in Glossaries!Held : book[g].name = book[h].name => g = h
    /\ \A g, h \in Glossaries!Builtin : g = h
    /\ up /\ release > 0 => \E id \in Glossaries!Builtin : book[id].version = release
    /\ \A id \in Glossaries!Builtin :
          book[id].version # None => book[id].terms = Shipped[book[id].version]
    /\ \A id \in GlossaryIds : owed[id] # None =>
          book[id] # None /\ book[id].key = None /\ book[id].terms = owed[id]
CuesKept ==
    \A i \in Cues, texts \in Glossaries!Closed : typed[i] \in texts => cues[i] \in texts

GlossaryInv ==
    BookShapes /\ CueShapes /\ StartsAlone /\ BuiltinApart /\ BookKept /\ CuesKept

GlossaryAssumption ==
    /\ DOMAIN Shipped \subseteq Nat \ {0}
    /\ None \notin GlossaryIds \cup UserTerms \cup {BuiltinKey} \cup DOMAIN Shipped
    /\ \A name, key, version, terms :
          None # [name |-> name, key |-> key, version |-> version, terms |-> terms]

\* What the user typed and what was corrected is not of the book, and the other way round.
LEMMA CuesAlone ==
    ASSUME GlossaryInv, UNCHANGED <<cues, typed>>,
           correction' = correction \/ correction' = None
    PROVE  CueShapes' /\ CuesKept'
BY DEF GlossaryInv, CueShapes, CuesKept, Planned

\* A step that leaves the glossaries alone leaves what is said of them.
LEMMA BookAlone ==
    ASSUME GlossaryInv, UNCHANGED <<release, up, book, saving, owed>>
    PROVE  BookShapes' /\ BuiltinApart' /\ BookKept'
BY DEF GlossaryInv, BookShapes, BuiltinApart, BookKept, Row, Glossaries!Builtin,
       Glossaries!Held

\* Nothing is in the book at first.
LEMMA GlossariesInitially ==
    ASSUME GlossaryAssumption PROVE Glossaries!GlossaryInit => GlossaryInv
<1> SUFFICES ASSUME Glossaries!GlossaryInit PROVE GlossaryInv
    OBVIOUS
<1> DEFINE text == CHOOSE t \in HeardTexts : TRUE
<1>1. /\ release = 0 /\ up = TRUE /\ book = [id \in GlossaryIds |-> None]
      /\ saving = [w \in Windows |-> None] /\ correction = None
      /\ owed = [id \in GlossaryIds |-> None] /\ cues = [i \in Cues |-> text] /\ typed = cues
    BY DEF Glossaries!GlossaryInit
<1> HIDE DEF text
<1>2. /\ \A id \in GlossaryIds : book[id] = None /\ owed[id] = None
      /\ \A w \in Windows : saving[w] = None
    BY <1>1
<1>3. Glossaries!Held = {} /\ Glossaries!Builtin = {}
    BY <1>2 DEF Glossaries!Held, Glossaries!Builtin
<1>4. BookShapes
    BY <1>1, <1>2 DEF BookShapes
<1>5. CueShapes
    BY <1>1 DEF CueShapes
<1>6. StartsAlone /\ BuiltinApart /\ BookKept /\ CuesKept
    BY <1>1, <1>2, <1>3 DEF StartsAlone, BuiltinApart, BookKept, CuesKept
<1> QED BY <1>4, <1>5, <1>6 DEF GlossaryInv

(***************************************************************************)
(* The cues.                                                               *)
(***************************************************************************)
\* A correction starts with terms read from a row, and no plan yet.
LEMMA BeginCorrectionKeeps ==
    ASSUME GlossaryInv, NEW id \in GlossaryIds, Glossaries!BeginCorrection(id) PROVE GlossaryInv'
<1>1. /\ up /\ id \in Glossaries!Held
      /\ correction' = [terms |-> book[id].terms, changes |-> None]
      /\ UNCHANGED <<release, up, book, saving, owed>> /\ UNCHANGED <<cues, typed>>
    BY DEF Glossaries!BeginCorrection
<1>2. book[id].terms \in Glossaries!AllTerms
    BY <1>1 DEF GlossaryInv, BookShapes, Row, Glossaries!Held
<1>3. Planned(correction')
    BY <1>1, <1>2 DEF Planned
<1>4. CueShapes' /\ CuesKept' /\ StartsAlone'
    BY <1>1, <1>3 DEF GlossaryInv, CueShapes, CuesKept, StartsAlone, Planned
<1> QED BY <1>1, <1>4, BookAlone DEF GlossaryInv

\* What is planned for a cue is what the terms that were read make of its text.
LEMMA PlanCorrectionKeeps ==
    ASSUME GlossaryInv, Glossaries!PlanCorrection PROVE GlossaryInv'
<1> DEFINE corrected == CorrectionOf[correction.terms]
           changed == {i \in Cues : corrected[cues[i]] # cues[i]}
           plan == [i \in changed |-> [before |-> cues[i], after |-> corrected[cues[i]]]]
<1>1. /\ up /\ correction # None
      /\ correction' = [correction EXCEPT !.changes = plan]
      /\ UNCHANGED <<release, up, book, saving, owed>> /\ UNCHANGED <<cues, typed>>
    BY DEF Glossaries!PlanCorrection
<1>2. /\ DOMAIN plan \subseteq Cues
      /\ \A i \in DOMAIN plan :
            plan[i].after = CorrectionOf[correction.terms][plan[i].before]
    OBVIOUS
<1> HIDE DEF plan
<1>3. correction \in [terms : Glossaries!AllTerms, changes : {correction.changes}]
    BY <1>1 DEF GlossaryInv, CueShapes, Planned
<1>4. /\ correction' \in [terms : Glossaries!AllTerms, changes : {plan}]
      /\ correction'.changes = plan /\ correction'.terms = correction.terms
    BY <1>1, <1>3
<1>5. Planned(correction')
    BY <1>2, <1>4 DEF Planned
<1>6. CueShapes' /\ CuesKept' /\ StartsAlone'
    BY <1>1, <1>5 DEF GlossaryInv, CueShapes, CuesKept, StartsAlone, Planned
<1> QED BY <1>1, <1>6, BookAlone DEF GlossaryInv

\* A correction is of the text it was planned for, and so of what was typed last.
LEMMA ApplyCorrectionKeeps ==
    ASSUME GlossaryInv, Glossaries!ApplyCorrection PROVE GlossaryInv'
<1>1. /\ up /\ correction # None /\ correction.changes # None /\ correction' = None
      /\ UNCHANGED <<release, up, book, saving, owed>> /\ UNCHANGED typed
    BY DEF Glossaries!ApplyCorrection
<1> DEFINE plan == correction.changes
<1>2. \/ cues' = cues
      \/ /\ \A i \in DOMAIN plan : cues[i] = plan[i].before
         /\ cues' = [i \in Cues |-> IF i \in DOMAIN plan THEN plan[i].after ELSE cues[i]]
    BY DEF Glossaries!ApplyCorrection, Glossaries!StillThere
<1>3. /\ DOMAIN plan \subseteq Cues /\ correction.terms \in Glossaries!AllTerms
      /\ \A i \in DOMAIN plan :
            plan[i].after = CorrectionOf[correction.terms][plan[i].before]
    BY <1>1 DEF GlossaryInv, CueShapes, Planned
<1> HIDE DEF plan
<1>4. ASSUME NEW i \in Cues, NEW texts \in Glossaries!Closed, typed[i] \in texts
      PROVE  cues'[i] \in texts
    <2>1. cues[i] \in texts
        BY <1>4 DEF GlossaryInv, CuesKept
    <2>2. CorrectionOf[correction.terms][cues[i]] \in texts
        BY <1>3, <2>1 DEF Glossaries!Closed
    <2>3. CASE cues' = cues
        BY <2>1, <2>3
    <2>4. CASE /\ \A j \in DOMAIN plan : cues[j] = plan[j].before
               /\ cues' = [j \in Cues |-> IF j \in DOMAIN plan THEN plan[j].after ELSE cues[j]]
        BY <1>3, <2>1, <2>2, <2>4
    <2> QED BY <1>2, <2>3, <2>4
<1>5. CuesKept'
    BY <1>1, <1>4 DEF CuesKept
<1>6. CueShapes' /\ StartsAlone'
    BY <1>1, <1>2 DEF GlossaryInv, CueShapes, StartsAlone
<1> QED BY <1>1, <1>5, <1>6, BookAlone DEF GlossaryInv

\* What is typed is where the cue and its history start again together.
LEMMA TypeInCueKeeps ==
    ASSUME GlossaryInv, NEW i \in Cues, NEW text \in HeardTexts, Glossaries!TypeInCue(i,
           text)
    PROVE  GlossaryInv'
<1>1. /\ up /\ cues' = [cues EXCEPT ![i] = text] /\ typed' = [typed EXCEPT ![i] = text]
      /\ UNCHANGED <<release, up, book, saving, owed>> /\ UNCHANGED correction
    BY DEF Glossaries!TypeInCue
<1>2. CueShapes' /\ CuesKept' /\ StartsAlone'
    BY <1>1 DEF GlossaryInv, CueShapes, CuesKept, StartsAlone, Planned
<1> QED BY <1>1, <1>2, BookAlone DEF GlossaryInv

(***************************************************************************)
(* The start, and the saves.                                               *)
(***************************************************************************)
\* A start loses what was under way, and only that.
LEMMA StartAgainKeeps ==
    ASSUME GlossaryInv, NEW v \in Glossaries!Releases, Glossaries!Restart(v)
    PROVE  GlossaryInv'
<1>1. /\ release' = v /\ up' = FALSE /\ saving' = [w \in Windows |-> None]
      /\ correction' = None /\ UNCHANGED <<book, owed>> /\ UNCHANGED <<cues, typed>>
    BY DEF Glossaries!Restart
<1>2. CueShapes' /\ CuesKept'
    BY <1>1, CuesAlone
<1>3. BookShapes' /\ StartsAlone' /\ BuiltinApart' /\ BookKept'
    BY <1>1 DEF GlossaryInv, BookShapes, StartsAlone, BuiltinApart, BookKept, Row,
                Glossaries!Builtin, Glossaries!Held
<1> QED BY <1>2, <1>3 DEF GlossaryInv

\* A row of the book is not the mark of its absence.
LEMMA RowIsThere ==
    ASSUME GlossaryAssumption, NEW r, Row(r) PROVE r # None
<1> DEFINE name == r.name
<1>1. r \in [name : {name}, key : {None, BuiltinKey},
             version : Glossaries!Releases \cup {None}, terms : Glossaries!AllTerms]
    BY DEF Row
<1> HIDE DEF name
<1>2. r = [name |-> r.name, key |-> r.key, version |-> r.version, terms |-> r.terms]
    BY <1>1
<1> QED BY <1>2 DEF GlossaryAssumption

\* An own glossary of the built-in name is made the built-in one: there is one of the name.
LEMMA AdoptLegacyKeeps ==
    ASSUME GlossaryAssumption, GlossaryInv, Glossaries!AdoptLegacy PROVE GlossaryInv'
<1> DEFINE adopted(id) == [book[id] EXCEPT !.key = BuiltinKey, !.version = None]
<1>1. /\ ~up /\ Glossaries!Builtin = {}
      /\ book' = [id \in GlossaryIds |-> IF id \in Glossaries!Legacy THEN adopted(id) ELSE book[id]]
      /\ owed' = [id \in GlossaryIds |-> IF id \in Glossaries!Legacy THEN None ELSE owed[id]]
      /\ UNCHANGED <<release, up, saving>> /\ UNCHANGED <<cues, typed>>
      /\ UNCHANGED correction
    BY DEF Glossaries!AdoptLegacy
<1>2. ASSUME NEW id \in Glossaries!Legacy
      PROVE  /\ Row(adopted(id)) /\ adopted(id) # None
             /\ adopted(id).name = <<BuiltinName, 1>> /\ adopted(id).key = BuiltinKey
             /\ adopted(id).version = None
    <2>1. Row(book[id]) /\ book[id].name = <<BuiltinName, 1>>
        BY DEF GlossaryInv, BookShapes, Glossaries!Legacy, Glossaries!Held
    <2> DEFINE name == book[id].name
    <2>2. book[id] \in [name : {name}, key : {None, BuiltinKey},
                        version : Glossaries!Releases \cup {None},
                        terms : Glossaries!AllTerms]
        BY <2>1 DEF Row
    <2> HIDE DEF name
    <2>3. /\ adopted(id) \in [name : {name}, key : {None, BuiltinKey},
                              version : Glossaries!Releases \cup {None},
                              terms : Glossaries!AllTerms]
          /\ adopted(id).name = name /\ adopted(id).key = BuiltinKey
          /\ adopted(id).version = None
        BY <2>2, Zenon
    <2>4. Row(adopted(id))
        BY <2>3 DEF Row
    <2>5. adopted(id) # None
        BY <2>4, RowIsThere
    <2> QED BY <2>1, <2>3, <2>4, <2>5 DEF name
<1> HIDE DEF adopted
<1>3. \A id \in GlossaryIds :
         /\ id \in Glossaries!Legacy => book'[id] = adopted(id) /\ owed'[id] = None
         /\ id \notin Glossaries!Legacy => book'[id] = book[id] /\ owed'[id] = owed[id]
    BY <1>1
<1>4. \A id \in Glossaries!Legacy : id \in GlossaryIds /\ book[id] # None
                                    /\ book[id].name = <<BuiltinName, 1>>
    BY DEF Glossaries!Legacy, Glossaries!Held
<1>5. \A g, h \in Glossaries!Legacy : g = h
    BY <1>4 DEF GlossaryInv, BookKept, Glossaries!Held
<1>6. Glossaries!Held' = Glossaries!Held
    BY <1>2, <1>3, <1>4 DEF Glossaries!Held
<1>7. \A id \in Glossaries!Held : book'[id].name = book[id].name
    BY <1>2, <1>3, <1>4 DEF Glossaries!Held
<1>8. Glossaries!Builtin' = Glossaries!Legacy
    <2>1. \A id \in Glossaries!Held : id \notin Glossaries!Legacy => book'[id].key # BuiltinKey
        BY <1>1, <1>3 DEF Glossaries!Builtin, Glossaries!Held
    <2> QED BY <1>2, <1>3, <1>4, <1>6, <2>1 DEF Glossaries!Builtin, Glossaries!Held
<1>9. BookShapes'
    <2>1. \A id \in GlossaryIds : book'[id] # None => Row(book'[id])
        BY <1>2, <1>3 DEF GlossaryInv, BookShapes
    <2> QED BY <1>1, <2>1 DEF GlossaryInv, BookShapes
<1>10. StartsAlone' /\ BuiltinApart'
    BY <1>1, <1>4, <1>6, <1>7, <1>8 DEF GlossaryInv, StartsAlone, BuiltinApart,
                                       Glossaries!Held
<1>11. BookKept'
    <2>1. \A g, h \in Glossaries!Held' : book'[g].name = book'[h].name => g = h
        BY <1>6, <1>7 DEF GlossaryInv, BookKept
    <2>2. \A id \in Glossaries!Builtin' : book'[id].version = None
        BY <1>2, <1>3, <1>4, <1>8
    <2>3. \A id \in GlossaryIds : owed'[id] # None =>
              book'[id] # None /\ book'[id].key = None /\ book'[id].terms = owed'[id]
        BY <1>3 DEF GlossaryInv, BookKept
    <2> QED BY <1>1, <1>5, <1>8, <2>1, <2>2, <2>3 DEF BookKept
<1>12. CueShapes' /\ CuesKept'
    BY <1>1, CuesAlone
<1> QED BY <1>9, <1>10, <1>11, <1>12 DEF GlossaryInv

\* The terms of this release take the place of another's, or a new glossary is made.
LEMMA RenewBuiltinKeeps ==
    ASSUME GlossaryAssumption, GlossaryInv, Glossaries!RenewBuiltin PROVE GlossaryInv'
<1> DEFINE fresh == [name |-> <<BuiltinName, 1>>, key |-> BuiltinKey, version |-> release,
                     terms |-> Shipped[release]]
<1>1. /\ ~up /\ up' = TRUE /\ UNCHANGED <<release, saving, owed>>
      /\ UNCHANGED <<cues, typed>> /\ UNCHANGED correction
      /\ Glossaries!Builtin # {} \/ Glossaries!Legacy = {}
    BY DEF Glossaries!RenewBuiltin
<1>2. CueShapes' /\ CuesKept'
    BY <1>1, CuesAlone
<1>3. CASE (\E id \in Glossaries!Builtin : book[id].version = release) /\ UNCHANGED book
    BY <1>1, <1>2, <1>3 DEF GlossaryInv, BookShapes, StartsAlone, BuiltinApart, BookKept,
           Row, Glossaries!Builtin, Glossaries!Held
<1>4. ASSUME NEW id \in (IF Glossaries!Builtin # {} THEN Glossaries!Builtin
                         ELSE Glossaries!Unused),
             book' = [book EXCEPT ![id] = fresh]
      PROVE  GlossaryInv'
    <2>1. id \in GlossaryIds /\ release \in Glossaries!Releases
        BY <1>1 DEF Glossaries!Builtin, Glossaries!Unused, Glossaries!Held, GlossaryInv,
                    StartsAlone
    <2>2. Row(fresh) /\ fresh # None /\ fresh.name = <<BuiltinName, 1>>
          /\ fresh.key = BuiltinKey /\ fresh.version = release
          /\ fresh.terms = Shipped[release]
        BY <2>1 DEF Row, GlossaryAssumption, Glossaries!AllTerms
    <2> HIDE DEF fresh
    <2>3. book'[id] = fresh /\ \A h \in GlossaryIds : h # id => book'[h] = book[h]
        BY <1>4, <2>1 DEF GlossaryInv, BookShapes
    <2>4. \A h \in Glossaries!Held : book[h].name = <<BuiltinName, 1>> => h = id
        <3>1. CASE Glossaries!Builtin # {}
            <4>1. id \in Glossaries!Builtin
                BY <1>4, <3>1
            <4> QED BY <4>1 DEF GlossaryInv, BuiltinApart, BookKept, Glossaries!Builtin
        <3>2. CASE Glossaries!Builtin = {}
            <4> SUFFICES ASSUME NEW h \in Glossaries!Held, book[h].name = <<BuiltinName, 1>>
                         PROVE  FALSE
                OBVIOUS
            <4>1. book[h].key # None
                BY <1>1, <3>2 DEF Glossaries!Legacy
            <4>2. book[h].key # BuiltinKey
                BY <3>2 DEF Glossaries!Builtin
            <4> QED BY <4>1, <4>2 DEF GlossaryInv, BookShapes, Row, Glossaries!Held
        <3> QED BY <3>1, <3>2
    <2>5. \A h \in Glossaries!Builtin : h = id
        BY <1>4 DEF GlossaryInv, BookKept
    <2>6. Glossaries!Held' = Glossaries!Held \cup {id} /\ Glossaries!Builtin' = {id}
        BY <2>1, <2>2, <2>3, <2>5 DEF Glossaries!Held, Glossaries!Builtin
    <2>7. owed[id] = None
        BY <1>4, <2>1 DEF GlossaryInv, BookKept, Glossaries!Builtin, Glossaries!Unused,
                          Glossaries!Held, GlossaryAssumption
    <2>8. BookShapes'
        <3>1. \A h \in GlossaryIds : book'[h] # None => Row(book'[h])
            BY <2>2, <2>3 DEF GlossaryInv, BookShapes
        <3>2. book' = [h \in GlossaryIds |-> book'[h]]
            BY <1>4, <2>1 DEF GlossaryInv, BookShapes
        <3> QED BY <1>1, <3>1, <3>2 DEF GlossaryInv, BookShapes
    <2>9. StartsAlone' /\ BuiltinApart'
        BY <1>1, <2>2, <2>3, <2>6 DEF GlossaryInv, StartsAlone, BuiltinApart
    <2>10. BookKept'
        <3>1. \A g, h \in Glossaries!Held' : book'[g].name = book'[h].name => g = h
            BY <2>1, <2>2, <2>3, <2>4, <2>6 DEF GlossaryInv, BookKept, Glossaries!Held
        <3>2. \A h \in GlossaryIds : owed[h] # None =>
                  book'[h] # None /\ book'[h].key = None /\ book'[h].terms = owed[h]
            BY <2>3, <2>7 DEF GlossaryInv, BookKept
        <3> QED BY <1>1, <2>2, <2>3, <2>6, <3>1, <3>2 DEF BookKept
    <2> QED BY <1>2, <2>8, <2>9, <2>10 DEF GlossaryInv
<1> QED BY <1>3, <1>4 DEF Glossaries!RenewBuiltin

\* What is saved over the built-in glossary is not saved under it.
LEMMA BeginSaveKeeps ==
    ASSUME GlossaryAssumption, GlossaryInv, NEW w \in Windows,
           NEW id \in Glossaries!Held \cup {None}, NEW word, NEW terms \in UserTerms,
           Glossaries!BeginSave(w, id, word, terms)
    PROVE  GlossaryInv'
<1>1. /\ up /\ UNCHANGED <<release, up, book, owed>> /\ UNCHANGED <<cues, typed>>
      /\ UNCHANGED correction
    BY DEF Glossaries!BeginSave
<1>2. PICK save : /\ saving' = [saving EXCEPT ![w] = save]
                  /\ save.id \in GlossaryIds \cup {None} /\ save.terms \in UserTerms
                  /\ save.id \notin Glossaries!Builtin
    <2>1. None \notin Glossaries!Builtin
        BY DEF Glossaries!Builtin, Glossaries!Held, GlossaryAssumption
    <2>2. CASE id \in Glossaries!Builtin
        <3> DEFINE name == Glossaries!AvailableName(IF <<word, 1>> = book[id].name
                                                    THEN CustomName ELSE word)
               row == [id |-> None, terms |-> terms, name |-> name]
        <3>1. saving' = [saving EXCEPT ![w] = row]
            BY <2>2 DEF Glossaries!BeginSave
        <3> HIDE DEF name
        <3>2. row.id = None /\ row.terms = terms
            OBVIOUS
        <3> HIDE DEF row
        <3> QED BY <2>1, <3>1, <3>2
    <2>3. CASE id \notin Glossaries!Builtin
        <3> DEFINE row == [id |-> id, name |-> <<word, 1>>, terms |-> terms]
        <3>1. saving' = [saving EXCEPT ![w] = row]
            BY <2>3 DEF Glossaries!BeginSave
        <3>2. row.id = id /\ row.terms = terms /\ id \in GlossaryIds \cup {None}
            BY DEF Glossaries!Held
        <3> HIDE DEF row
        <3> QED BY <2>3, <3>1, <3>2
    <2> QED BY <2>2, <2>3
<1>3. BookShapes'
    BY <1>1, <1>2 DEF GlossaryInv, BookShapes, Row
<1>4. StartsAlone' /\ BuiltinApart' /\ BookKept'
    BY <1>1, <1>2 DEF GlossaryInv, BookShapes, StartsAlone, BuiltinApart, BookKept,
                      Glossaries!Builtin, Glossaries!Held
<1>5. CueShapes' /\ CuesKept'
    BY <1>1, CuesAlone
<1> QED BY <1>3, <1>4, <1>5 DEF GlossaryInv

\* A name that is taken stops a save; otherwise the row is the user's, and has the terms.
LEMMA FinishSaveKeeps ==
    ASSUME GlossaryAssumption, GlossaryInv, NEW w \in Windows, Glossaries!FinishSave(w)
    PROVE  GlossaryInv'
<1>1. /\ up /\ saving[w] # None /\ saving' = [saving EXCEPT ![w] = None]
      /\ UNCHANGED <<release, up>> /\ UNCHANGED <<cues, typed>> /\ UNCHANGED correction
    BY DEF Glossaries!FinishSave
<1> DEFINE named(id) == IF id \in Glossaries!Held THEN book[id]
                        ELSE [key |-> None, version |-> None]
           row(id) == [name |-> saving[w].name, terms |-> saving[w].terms,
                       key |-> named(id).key, version |-> named(id).version]
<1>2. PICK id \in (IF saving[w].id = None THEN Glossaries!Unused ELSE {saving[w].id}) :
          \/ UNCHANGED <<book, owed>>
          \/ /\ ~\E h \in Glossaries!Held \ {id} : book[h].name = saving[w].name
             /\ book' = [book EXCEPT ![id] = row(id)]
             /\ owed' = [owed EXCEPT ![id] = saving[w].terms]
    BY Zenon DEF Glossaries!FinishSave
<1>3. id \in GlossaryIds /\ id \notin Glossaries!Builtin /\ saving[w].terms \in UserTerms
    BY <1>1 DEF GlossaryInv, BookShapes, BuiltinApart, Glossaries!Unused, Glossaries!Builtin
<1>4. CueShapes' /\ CuesKept'
    BY <1>1, CuesAlone
<1>5. \A v \in Windows : saving'[v] = IF v = w THEN None ELSE saving[v]
    BY <1>1 DEF GlossaryInv, BookShapes
<1>6. CASE UNCHANGED <<book, owed>>
    <2>1. BookShapes'
        BY <1>1, <1>6 DEF GlossaryInv, BookShapes, Row
    <2>2. StartsAlone' /\ BuiltinApart' /\ BookKept'
        BY <1>1, <1>5, <1>6 DEF GlossaryInv, StartsAlone, BuiltinApart, BookKept,
                                Glossaries!Builtin, Glossaries!Held
    <2> QED BY <1>4, <2>1, <2>2 DEF GlossaryInv
<1>7. CASE /\ ~\E h \in Glossaries!Held \ {id} : book[h].name = saving[w].name
           /\ book' = [book EXCEPT ![id] = row(id)]
           /\ owed' = [owed EXCEPT ![id] = saving[w].terms]
    <2>1. named(id).key = None /\ named(id).version \in Glossaries!Releases \cup {None}
        BY <1>3 DEF GlossaryInv, BookShapes, Row, Glossaries!Builtin, Glossaries!Held
    <2> HIDE DEF named
    <2>2. /\ Row(row(id)) /\ row(id).key = None /\ row(id).name = saving[w].name
          /\ row(id).terms = saving[w].terms
        BY <1>3, <2>1 DEF Row, Glossaries!AllTerms
    <2>3. row(id) # None
        BY <2>2, RowIsThere
    <2> HIDE DEF row
    <2>4. /\ book'[id] = row(id) /\ \A h \in GlossaryIds : h # id => book'[h] = book[h]
          /\ book' = [h \in GlossaryIds |-> book'[h]]
        BY <1>3, <1>7 DEF GlossaryInv, BookShapes
    <2>5. /\ owed'[id] = saving[w].terms /\ \A h \in GlossaryIds : h # id => owed'[h] = owed[h]
          /\ owed' = [h \in GlossaryIds |-> owed'[h]]
        BY <1>3, <1>7 DEF GlossaryInv, BookShapes
    <2>6. /\ Glossaries!Held' = Glossaries!Held \cup {id}
          /\ Glossaries!Builtin' = Glossaries!Builtin
        BY <1>3, <2>2, <2>3, <2>4 DEF Glossaries!Held, Glossaries!Builtin,
                                     GlossaryAssumption
    <2>7. \A h \in Glossaries!Builtin : h # id /\ h \in GlossaryIds /\ book'[h] = book[h]
        BY <1>3, <2>4 DEF Glossaries!Builtin, Glossaries!Held
    <2>8. BookShapes'
        <3>1. \A h \in GlossaryIds : book'[h] # None => Row(book'[h])
            BY <2>2, <2>4 DEF GlossaryInv, BookShapes
        <3>2. /\ saving' = [v \in Windows |-> saving'[v]]
              /\ \A v \in Windows : saving'[v] # None =>
                    saving'[v].id \in GlossaryIds \cup {None} /\ saving'[v].terms \in UserTerms
            BY <1>1, <1>5 DEF GlossaryInv, BookShapes
        <3> QED BY <1>1, <2>4, <2>5, <3>1, <3>2 DEF GlossaryInv, BookShapes
    <2>9. StartsAlone' /\ BuiltinApart'
        BY <1>1, <1>5, <2>6, <2>7 DEF GlossaryInv, StartsAlone, BuiltinApart
    <2>10. BookKept'
        <3>1. \A g, h \in Glossaries!Held' : book'[g].name = book'[h].name => g = h
            BY <1>7, <2>2, <2>4, <2>6 DEF GlossaryInv, BookKept, Glossaries!Held
        <3>2. \A h \in GlossaryIds : owed'[h] # None =>
                  book'[h] # None /\ book'[h].key = None /\ book'[h].terms = owed'[h]
            BY <2>2, <2>3, <2>4, <2>5 DEF GlossaryInv, BookKept
        <3> QED BY <1>1, <2>6, <2>7, <3>1, <3>2 DEF GlossaryInv, BookKept
    <2> QED BY <1>4, <2>8, <2>9, <2>10 DEF GlossaryInv
<1> QED BY <1>2, <1>6, <1>7

\* Only a glossary of the user's is deleted, with what was owed under its ID.
LEMMA DeleteGlossaryKeeps ==
    ASSUME GlossaryInv, NEW id \in GlossaryIds, Glossaries!DeleteGlossary(id) PROVE GlossaryInv'
<1>1. /\ up /\ id \in Glossaries!Held \ Glossaries!Builtin
      /\ book' = [book EXCEPT ![id] = None] /\ owed' = [owed EXCEPT ![id] = None]
      /\ UNCHANGED <<release, up, saving>> /\ UNCHANGED <<cues, typed>>
      /\ UNCHANGED correction
    BY DEF Glossaries!DeleteGlossary
<1>2. /\ book'[id] = None /\ owed'[id] = None
      /\ \A h \in GlossaryIds : h # id => book'[h] = book[h] /\ owed'[h] = owed[h]
    BY <1>1 DEF GlossaryInv, BookShapes
<1>3. /\ Glossaries!Held' = Glossaries!Held \ {id} /\ Glossaries!Builtin' = Glossaries!Builtin
    BY <1>1, <1>2 DEF Glossaries!Held, Glossaries!Builtin
<1>4. \A h \in Glossaries!Held' : book'[h] = book[h] /\ h \in Glossaries!Held
    BY <1>2, <1>3 DEF Glossaries!Held
<1>5. \A h \in Glossaries!Builtin : h \in Glossaries!Held'
    BY <1>1, <1>3 DEF Glossaries!Builtin
<1>6. BookShapes'
    BY <1>1, <1>2 DEF GlossaryInv, BookShapes, Row
<1>7. StartsAlone' /\ BuiltinApart'
    BY <1>1, <1>3, <1>4, <1>5 DEF GlossaryInv, StartsAlone, BuiltinApart
<1>8. BookKept'
    BY <1>1, <1>2, <1>3, <1>4, <1>5 DEF GlossaryInv, BookKept
<1>9. CueShapes' /\ CuesKept'
    BY <1>1, CuesAlone
<1> QED BY <1>6, <1>7, <1>8, <1>9 DEF GlossaryInv

\* Every step keeps the invariant: one case per action.
LEMMA GlossaryStepKeeps ==
    ASSUME GlossaryAssumption, GlossaryInv,
           [Glossaries!GlossaryNext]_Glossaries!glossaryVars
    PROVE  GlossaryInv'
<1>1. CASE Glossaries!Starts
    BY <1>1, AdoptLegacyKeeps, RenewBuiltinKeeps, StartAgainKeeps DEF Glossaries!Starts
<1>2. CASE Glossaries!Saves
    BY <1>2, FinishSaveKeeps, BeginSaveKeeps, DeleteGlossaryKeeps, Zenon
    DEF Glossaries!Saves
<1>3. CASE Glossaries!Corrections
    BY <1>3, PlanCorrectionKeeps, ApplyCorrectionKeeps, BeginCorrectionKeeps, TypeInCueKeeps
    DEF Glossaries!Corrections
<1>4. CASE UNCHANGED Glossaries!glossaryVars
    <2>1. /\ UNCHANGED <<release, up, book, saving, owed>> /\ UNCHANGED <<cues, typed>>
          /\ UNCHANGED correction
        BY <1>4 DEF Glossaries!glossaryVars
    <2>2. StartsAlone'
        BY <2>1 DEF GlossaryInv, StartsAlone
    <2> QED BY <2>1, <2>2, CuesAlone, BookAlone DEF GlossaryInv
<1> QED BY <1>1, <1>2, <1>3, <1>4 DEF Glossaries!GlossaryNext

\* Names are one to one, the built-in glossary has the terms of its release, what the user
\* saved stays, and no correction replaces what was typed after it was planned
\* (ensure_builtin_glossary, save_glossary, apply_glossary_corrections): for any releases,
\* glossaries, cues, windows and terms, and starts cut short at every step.
THEOREM GlossariesAreKept ==
    ASSUME GlossaryAssumption
    PROVE  Glossaries!GlossarySpec => []Glossaries!GlossariesKept
<1>1. Glossaries!GlossaryInit => GlossaryInv
    BY GlossariesInitially
<1>2. GlossaryInv /\ [Glossaries!GlossaryNext]_Glossaries!glossaryVars => GlossaryInv'
    BY GlossaryStepKeeps
<1>3. GlossaryInv => Glossaries!GlossariesKept
    BY DEF GlossaryInv, BookKept, CuesKept, Glossaries!GlossariesKept, Glossaries!NamedBy
<1> QED BY <1>1, <1>2, <1>3, PTL DEF Glossaries!GlossarySpec

package == x2
spare == x3
partial == x4
version == x6
entry == x7
fetcher == x9
latest == x10
ever == x11
mishaps == x12
kind == x13
indexLock == x14
index == x15
unpacked == x16
dbVersion == x17
USE DEF package, spare, partial, version, entry, fetcher, latest, ever, mishaps, kind,
        indexLock, index, unpacked, dbVersion

(***************************************************************************)
(* DictionaryLookup: a verified package stays on the disk, and lookups     *)
(* read the installed one.                                                 *)
(*                                                                         *)
(* What keeps a package on the disk is the order of an installation: at    *)
(* each of its steps one of the two files is there, and what is renamed    *)
(* into its place was verified before.  What keeps the lookups is that     *)
(* releases only go up: see LookupInv.                                     *)
(***************************************************************************)
DictionarySteps == {"idle", "resolve", "fetch", "verify", "install", "set aside", "replace",
          "drop backup", "version", "listed", "failed", "starting"}
DictionaryEntries == [status : {"none", "queued", "downloading", "failed", "done"},
            version : Packages \cup {None}, path : BOOLEAN]

\* The download knows its release from "fetch" on; a part that may be installed is the
\* package of that release.
PartVerified ==
    /\ fetcher \in {"fetch", "verify", "install", "set aside", "replace", "drop backup",
                    "version", "listed"} => release \in Packages
    /\ fetcher \in {"install", "set aside", "replace"} => partial = release

\* One of the two files is there, and the code knows which.
OneIsThere ==
    /\ fetcher \in {"set aside", "drop backup", "version", "listed"} => package # None
    /\ fetcher = "replace" => package = None /\ spare # None
    /\ ever => package # None \/ spare # None

ListedIsThere == entry.status = "done" => fetcher = "idle" /\ package # None

DictionaryInv ==
    /\ latest \in Packages /\ fetcher \in DictionarySteps /\ entry \in DictionaryEntries
    /\ version \in Packages \cup {None}
    /\ PartVerified /\ OneIsThere /\ ListedIsThere

\* A set of releases that has a first one.
ReleasesAssumption ==
    /\ None \notin Packages
    /\ \E r \in Packages : \A s \in Packages : r <= s

\* Nothing is installed at first.
LEMMA DictionaryInitially ==
    ASSUME ReleasesAssumption
    PROVE  Dictionaries!DictionaryInit => DictionaryInv
BY DEF ReleasesAssumption, Dictionaries!DictionaryInit, DictionaryInv, PartVerified,
       OneIsThere, ListedIsThere, DictionarySteps, DictionaryEntries, Dictionaries!NoEntry

\* Each step of a download, a crash or a start leaves one of the files.
LEMMA DictionaryStep ==
    ASSUME ReleasesAssumption, DictionaryInv,
           [Dictionaries!DictionaryNext]_Dictionaries!dictionaryVars
    PROVE  DictionaryInv'
<1> USE DEF ReleasesAssumption, DictionaryInv, PartVerified, OneIsThere, ListedIsThere,
            DictionarySteps
<1>1. ASSUME NEW r \in Packages, Dictionaries!Publish(r) PROVE DictionaryInv'
    BY <1>1 DEF Dictionaries!Publish, Dictionaries!disk
<1>2. CASE Dictionaries!StartDictionary
    BY <1>2 DEF Dictionaries!StartDictionary, Dictionaries!disk, Dictionaries!NoEntry,
           DictionaryEntries
<1>3. CASE Dictionaries!ResolveDownload
    BY <1>3 DEF Dictionaries!ResolveDownload, Dictionaries!disk, DictionaryEntries
<1>4. CASE Dictionaries!FetchPackage
    BY <1>4 DEF Dictionaries!FetchPackage
<1>5. CASE Dictionaries!VerifyPackage
    BY <1>5 DEF Dictionaries!VerifyPackage, Dictionaries!disk
<1>6. CASE Dictionaries!InstallFirst
    BY <1>6 DEF Dictionaries!InstallFirst
<1>7. CASE Dictionaries!DropOldBackup
    BY <1>7 DEF Dictionaries!DropOldBackup
<1>8. CASE Dictionaries!SetPackageAside
    BY <1>8 DEF Dictionaries!SetPackageAside
<1>9. CASE Dictionaries!ReplacePackage
    BY <1>9 DEF Dictionaries!ReplacePackage
<1>10. CASE Dictionaries!DropBackup
    BY <1>10 DEF Dictionaries!DropBackup
<1>11. CASE Dictionaries!WriteVersion
    BY <1>11 DEF Dictionaries!WriteVersion
<1>12. CASE Dictionaries!ListInstalled
    BY <1>12 DEF Dictionaries!ListInstalled, Dictionaries!disk, DictionaryEntries
<1>13. CASE Dictionaries!DownloadErrs
    BY <1>13 DEF Dictionaries!DownloadErrs, Dictionaries!disk
<1>14. CASE Dictionaries!DropPart
    BY <1>14 DEF Dictionaries!DropPart, DictionaryEntries
<1>15. CASE Dictionaries!CrashDictionary
    BY <1>15 DEF Dictionaries!CrashDictionary, Dictionaries!disk, Dictionaries!NoEntry,
           DictionaryEntries
<1>16. CASE Dictionaries!CleanPart
    BY <1>16 DEF Dictionaries!CleanPart
<1>17. CASE Dictionaries!CleanBackup
    BY <1>17 DEF Dictionaries!CleanBackup
<1>18. CASE Dictionaries!ListAtStart
    BY <1>18 DEF Dictionaries!ListAtStart, Dictionaries!disk, Dictionaries!NoEntry,
           DictionaryEntries
<1>19. CASE UNCHANGED Dictionaries!dictionaryVars
    BY <1>19 DEF Dictionaries!dictionaryVars
<1> QED
    BY <1>1, <1>2, <1>3, <1>4, <1>5, <1>6, <1>7, <1>8, <1>9, <1>10, <1>11, <1>12, <1>13,
       <1>14, <1>15, <1>16, <1>17, <1>18, <1>19
    DEF Dictionaries!DictionaryNext, Dictionaries!Downloads, Dictionaries!Cleans

\* The invariant is more than the property asks for.
LEMMA PackageRemains ==
    ASSUME ReleasesAssumption, DictionaryInv
    PROVE  Dictionaries!DictionarySurvives
<1> SUFFICES ASSUME ever, {package, spare} = {None} PROVE FALSE
    BY DEF DictionaryInv, ListedIsThere, Dictionaries!DictionarySurvives
<1>1. package \in {None} /\ spare \in {None}
    OBVIOUS
<1> QED
    BY <1>1 DEF DictionaryInv, OneIsThere

\* Once a package is installed it, or its backup, stays on the disk, through failed renames,
\* errors and crashes at every step of an update and of the start
\* (dictionary_download.rs, install_package and cleanup_partial_downloads).
THEOREM PackageSurvives ==
    ASSUME ReleasesAssumption
    PROVE  Dictionaries!DictionarySpec => []Dictionaries!DictionarySurvives
<1>1. Dictionaries!DictionaryInit => DictionaryInv
    BY DictionaryInitially
<1>2. DictionaryInv /\ [Dictionaries!DictionaryNext]_Dictionaries!dictionaryVars => DictionaryInv'
    BY DictionaryStep
<1>3. DictionaryInv => Dictionaries!DictionarySurvives
    BY PackageRemains
<1> QED
    BY <1>1, <1>2, <1>3, PTL DEF Dictionaries!DictionarySpec

(***************************************************************************)
(* The lookups.                                                            *)
(*                                                                         *)
(* Releases only go up: a lookup reads the version before it opens the     *)
(* package, and what it then calls by that version is of no older release, *)
(* and of no newer one than is there now.                                  *)
(***************************************************************************)
LookupSteps == {"idle", "indexed", "index", "unpacked", "unpack", "copy", "swap", "replace",
                "label"}
LookupRecords == [pc : LookupSteps, seen : Packages \cup {None, Local},
                  held : Packages \cup {None}]
PackageContents == Packages \cup {None, Torn}

LookupAssumption ==
    /\ ReleasesAssumption /\ Packages \subseteq Nat
    /\ Local \notin Packages /\ Torn \notin Packages /\ None # Torn
    /\ DictionaryKinds \subseteq {"indexed", "unpacked"}

\* A release is no newer than another one.
UpTo(a, b) == a \in Packages => b \in Packages /\ a <= b

\* What is installed, or set aside for a moment.
CurrentPackage == IF package # None THEN package ELSE spare

\* No download takes the package back, nor writes a version that it does not have.
ReleasesInOrder ==
    /\ package \in Packages \cup {None} /\ spare \in Packages \cup {None}
    /\ release \in Packages \cup {None}
    /\ UpTo(version, CurrentPackage) /\ UpTo(spare, CurrentPackage)
             /\ UpTo(CurrentPackage, latest)
    /\ fetcher \in {"fetch", "verify", "install", "set aside", "replace", "drop backup",
                    "version", "listed"} => UpTo(CurrentPackage, release) /\ UpTo(release, latest)
    /\ fetcher \in {"drop backup", "version", "listed"} => package = release

LookupShapes ==
    /\ kind \in {"indexed", "unpacked"}
    /\ lookup \in [Lookups -> LookupRecords]
    /\ index \in [label : Packages \cup {None, Local}, text : Packages \cup {None}]
    /\ unpacked \in [part : PackageContents, db : PackageContents, backup : PackageContents]
    /\ dbVersion \in Packages \cup {None, Local}
    /\ fetcher = "starting" => \A l \in Lookups : lookup[l].pc = "idle"

\* The version was read before the package.
ReadInOrder ==
    \A l \in Lookups :
        /\ UpTo(lookup[l].seen, CurrentPackage) /\ UpTo(lookup[l].held, CurrentPackage)
        /\ lookup[l].pc \in {"index", "copy"} =>
              lookup[l].held \in Packages /\ UpTo(lookup[l].seen, lookup[l].held)
IndexInOrder == UpTo(index.label, index.text) /\ UpTo(index.text, CurrentPackage)

\* A database that may be looked at: whole, and not behind its version.
WholeIn(file) ==
    file # None => file \in Packages /\ UpTo(dbVersion, file) /\ UpTo(file, CurrentPackage)
\* As long as one lookup unpacks at a time.
DatabaseInOrder ==
    lapses = {} =>
        /\ \A k, l \in Lookups : Dictionaries!Unpacking(k) /\ Dictionaries!Unpacking(l) => k = l
        /\ UpTo(dbVersion, CurrentPackage) /\ WholeIn(unpacked.db) /\ WholeIn(unpacked.backup)
        /\ \A l \in Lookups :
              /\ lookup[l].pc = "copy" => UpTo(dbVersion, lookup[l].held)
              /\ lookup[l].pc \in {"swap", "replace"} =>
                    /\ unpacked.part # None /\ WholeIn(unpacked.part)
                    /\ UpTo(lookup[l].seen, unpacked.part)
              /\ lookup[l].pc = "label" =>
                    unpacked.db # None /\ UpTo(lookup[l].seen, unpacked.db)

LookupInv ==
    /\ DictionaryInv /\ ReleasesInOrder /\ LookupShapes
    /\ ReadInOrder /\ IndexInOrder /\ DatabaseInOrder

\* Releases are in order, and what is not a release is behind them all.
LEMMA Transitive ==
    ASSUME LookupAssumption, NEW a, NEW b, NEW c, UpTo(a, b), UpTo(b, c) PROVE UpTo(a, c)
<1> SUFFICES ASSUME a \in Packages PROVE c \in Packages /\ a <= c
    BY DEF UpTo
<1>1. a \in Packages /\ b \in Packages /\ c \in Packages /\ a <= b /\ b <= c
    BY DEF UpTo
<1>2. a \in Nat /\ b \in Nat /\ c \in Nat
    BY <1>1 DEF LookupAssumption
<1> QED BY <1>1, <1>2

\* Two numbers that are no greater than one another are one.
LEMMA Antisymmetric ==
    ASSUME NEW a \in Nat, NEW b \in Nat, a <= b, b <= a PROVE a = b
OBVIOUS

\* What is greater is not less.
LEMMA GreaterIsNoLess ==
    ASSUME NEW a \in Nat, NEW b \in Nat, a > b PROVE b <= a
OBVIOUS

\* A release is no newer than itself.
LEMMA Reflexive ==
    ASSUME LookupAssumption, NEW a PROVE UpTo(a, a)
BY DEF LookupAssumption, UpTo

\* What is not a release is behind every one.
LEMMA NoRelease ==
    ASSUME LookupAssumption, NEW a PROVE UpTo(None, a) /\ UpTo(Local, a)
BY DEF LookupAssumption, ReleasesAssumption, UpTo

\* Neither a download, nor a crash, nor the start after it takes the package back.
LEMMA OrderKept ==
    ASSUME LookupAssumption, DictionaryInv, ReleasesInOrder,
           [Dictionaries!DictionaryNext]_Dictionaries!dictionaryVars
    PROVE  ReleasesInOrder' /\ UpTo(CurrentPackage, CurrentPackage')
<1> USE DEF DictionaryInv, PartVerified, OneIsThere, ReleasesInOrder, CurrentPackage
<1>a. /\ UpTo(None, package) /\ UpTo(None, spare)
      /\ UpTo(package, package) /\ UpTo(spare, spare)
      /\ UpTo(release, release) /\ UpTo(latest, latest)
    BY Reflexive, NoRelease
<1>b. fetcher \in {"install", "replace"} => UpTo(version, release) /\ UpTo(spare, release)
    BY Transitive
<1> USE <1>a, <1>b
<1>1. ASSUME NEW r \in Packages, Dictionaries!Publish(r)
      PROVE  ReleasesInOrder' /\ UpTo(CurrentPackage, CurrentPackage')
    <2>1. /\ latest \in Nat /\ r \in Nat /\ r > latest
          /\ latest' = r /\ UNCHANGED <<Dictionaries!disk, entry, fetcher, release>>
        BY <1>1 DEF Dictionaries!Publish, LookupAssumption
    <2>2. latest <= r
        BY <2>1, GreaterIsNoLess
    <2>3. UpTo(latest, r)
        BY <2>2 DEF UpTo
    <2>4. UpTo(CurrentPackage, latest) => UpTo(CurrentPackage, r)
        BY <2>3, Transitive, Zenon
    <2>5. UpTo(release, latest) => UpTo(release, r)
        BY <2>3, Transitive, Zenon
    <2> QED BY <2>1, <2>3, <2>4, <2>5 DEF Dictionaries!disk
<1>2. CASE Dictionaries!StartDictionary
    BY <1>2 DEF Dictionaries!StartDictionary, Dictionaries!disk
<1>3. CASE Dictionaries!ResolveDownload
    BY <1>3 DEF Dictionaries!ResolveDownload, Dictionaries!disk
<1>4. CASE Dictionaries!FetchPackage
    BY <1>4 DEF Dictionaries!FetchPackage
<1>5. CASE Dictionaries!VerifyPackage
    BY <1>5 DEF Dictionaries!VerifyPackage, Dictionaries!disk
<1>6. CASE Dictionaries!InstallFirst
    BY <1>6 DEF Dictionaries!InstallFirst
<1>7. CASE Dictionaries!DropOldBackup
    BY <1>7 DEF Dictionaries!DropOldBackup
<1>8. CASE Dictionaries!SetPackageAside
    BY <1>8 DEF Dictionaries!SetPackageAside
<1>9. CASE Dictionaries!ReplacePackage
    BY <1>9 DEF Dictionaries!ReplacePackage
<1>10. CASE Dictionaries!DropBackup
    BY <1>10 DEF Dictionaries!DropBackup
<1>11. CASE Dictionaries!WriteVersion
    BY <1>11 DEF Dictionaries!WriteVersion
<1>12. CASE Dictionaries!ListInstalled
    BY <1>12 DEF Dictionaries!ListInstalled, Dictionaries!disk
<1>13. CASE Dictionaries!DownloadErrs
    BY <1>13 DEF Dictionaries!DownloadErrs, Dictionaries!disk
<1>14. CASE Dictionaries!DropPart
    BY <1>14 DEF Dictionaries!DropPart
<1>15. CASE Dictionaries!CrashDictionary
    BY <1>15 DEF Dictionaries!CrashDictionary, Dictionaries!disk
<1>16. CASE Dictionaries!CleanPart
    BY <1>16 DEF Dictionaries!CleanPart
<1>17. CASE Dictionaries!CleanBackup
    BY <1>17 DEF Dictionaries!CleanBackup
<1>18. CASE Dictionaries!ListAtStart
    BY <1>18 DEF Dictionaries!ListAtStart, Dictionaries!disk
<1>19. CASE UNCHANGED Dictionaries!dictionaryVars
    BY <1>19 DEF Dictionaries!dictionaryVars
<1> QED
    BY <1>1, <1>2, <1>3, <1>4, <1>5, <1>6, <1>7, <1>8, <1>9, <1>10, <1>11, <1>12, <1>13,
       <1>14, <1>15, <1>16, <1>17, <1>18, <1>19
    DEF Dictionaries!DictionaryNext, Dictionaries!Downloads, Dictionaries!Cleans

\* The dictionary, of which a lookup changes no file.
DictionaryStill ==
    UNCHANGED <<package, spare, partial, version, entry, fetcher, release, latest, ever>>

\* What a lookup does leaves the dictionary as it is.
LEMMA StillKeeps ==
    ASSUME DictionaryInv, ReleasesInOrder, DictionaryStill
   
    PROVE   DictionaryInv' /\ ReleasesInOrder' /\ CurrentPackage' = CurrentPackage
                  /\ fetcher' = fetcher
BY DEF DictionaryInv, PartVerified, OneIsThere, ListedIsThere, ReleasesInOrder,
       CurrentPackage, UpTo, DictionaryStill

\* A newer package takes nothing from what the lookups have read and written.
LEMMA NewerKeeps ==
    ASSUME LookupAssumption, LookupInv, UpTo(CurrentPackage, CurrentPackage'),
           UNCHANGED Dictionaries!lookupVars
    PROVE  ReadInOrder' /\ IndexInOrder' /\ DatabaseInOrder'
<1>1. ASSUME NEW a, UpTo(a, CurrentPackage) PROVE UpTo(a, CurrentPackage')
    BY <1>1, Transitive
<1>2. UNCHANGED <<kind, lookup, indexLock, index, unpacked, dbVersion, lapses>>
    BY DEF Dictionaries!lookupVars
<1>3. ReadInOrder'
    BY <1>1, <1>2 DEF ReadInOrder, LookupInv
<1>4. IndexInOrder'
    BY <1>1, <1>2 DEF IndexInOrder, LookupInv
<1>5. DatabaseInOrder'
    <2>1. ASSUME NEW file, WholeIn(file) PROVE WholeIn(file)'
        BY <1>1, <1>2, <2>1 DEF WholeIn
    <2> QED
        BY <1>1, <1>2, <2>1 DEF DatabaseInOrder, Dictionaries!Unpacking, LookupInv
<1> QED BY <1>3, <1>4, <1>5

\* A download, and the clean-up of its files, while lookups go on.
LEMMA DownloadsKeep ==
    ASSUME LookupAssumption, LookupInv, Dictionaries!Downloads \/ Dictionaries!Cleans,
           UNCHANGED Dictionaries!lookupVars
    PROVE  LookupInv'
<1>1. DictionaryInv'
    BY DictionaryStep DEF Dictionaries!DictionaryNext, LookupInv, LookupAssumption
<1>2. ReleasesInOrder' /\ UpTo(CurrentPackage, CurrentPackage')
    BY OrderKept DEF Dictionaries!DictionaryNext, LookupInv
<1>3. fetcher' = "starting" => fetcher = "starting"
    BY DEF Dictionaries!Downloads, Dictionaries!Cleans, Dictionaries!Publish,
           Dictionaries!StartDictionary, Dictionaries!ResolveDownload,
           Dictionaries!FetchPackage, Dictionaries!VerifyPackage,
           Dictionaries!InstallFirst, Dictionaries!DropOldBackup,
           Dictionaries!SetPackageAside, Dictionaries!ReplacePackage,
           Dictionaries!DropBackup, Dictionaries!WriteVersion, Dictionaries!ListInstalled,
           Dictionaries!DownloadErrs, Dictionaries!DropPart, Dictionaries!CleanPart,
           Dictionaries!CleanBackup
<1>4. LookupShapes'
    BY <1>3 DEF LookupShapes, LookupInv, Dictionaries!lookupVars
<1> QED BY <1>1, <1>2, <1>4, NewerKeeps DEF LookupInv

\* The start lists what is installed once its files are clean.
LEMMA StartKeeps ==
    ASSUME LookupAssumption, LookupInv, Dictionaries!StartListed PROVE LookupInv'
<1>1. Dictionaries!ListAtStart /\ UNCHANGED Dictionaries!lookupVars
    BY DEF Dictionaries!StartListed
<1>2. DictionaryInv'
    BY <1>1, DictionaryStep DEF Dictionaries!DictionaryNext, LookupInv, LookupAssumption
<1>3. ReleasesInOrder' /\ UpTo(CurrentPackage, CurrentPackage')
    BY <1>1, OrderKept DEF Dictionaries!DictionaryNext, LookupInv
<1>4. LookupShapes'
    BY <1>1 DEF Dictionaries!ListAtStart, LookupShapes, LookupInv, Dictionaries!lookupVars
<1> QED BY <1>1, <1>2, <1>3, <1>4, NewerKeeps DEF LookupInv

\* A crash ends every lookup.
LEMMA DictionaryCrashKeeps ==
    ASSUME LookupAssumption, LookupInv, Dictionaries!CrashLookups PROVE LookupInv'
<1>1. /\ Dictionaries!CrashDictionary /\ lookup' = [l \in Lookups |-> Dictionaries!NoLookup]
      /\ UNCHANGED <<kind, index, unpacked, dbVersion, lapses>>
    BY DEF Dictionaries!CrashLookups, Dictionaries!database
<1>2. DictionaryInv'
    BY <1>1, DictionaryStep DEF Dictionaries!DictionaryNext, LookupInv, LookupAssumption
<1>3. ReleasesInOrder' /\ UpTo(CurrentPackage, CurrentPackage')
    BY <1>1, OrderKept DEF Dictionaries!DictionaryNext, LookupInv
<1>4. ASSUME NEW a, UpTo(a, CurrentPackage) PROVE UpTo(a, CurrentPackage')
    BY <1>3, <1>4, Transitive
<1>5. \A l \in Lookups : lookup'[l] = Dictionaries!NoLookup
    BY <1>1
<1>6. Dictionaries!NoLookup.pc = "idle" /\ Dictionaries!NoLookup.seen = None
            /\ Dictionaries!NoLookup.held = None
    BY DEF Dictionaries!NoLookup
<1>7. LookupShapes'
    <2>1. Dictionaries!NoLookup \in LookupRecords
        BY DEF Dictionaries!NoLookup, LookupRecords, LookupSteps
    <2> QED BY <1>1, <1>5, <1>6, <2>1 DEF LookupShapes, LookupInv
<1>8. ReadInOrder'
    BY <1>5, <1>6, NoRelease DEF ReadInOrder
<1>9. IndexInOrder'
    BY <1>1, <1>4 DEF IndexInOrder, LookupInv
<1>10. DatabaseInOrder'
    <2>1. ASSUME NEW file, WholeIn(file) PROVE WholeIn(file)'
        BY <1>1, <1>4, <2>1 DEF WholeIn
    <2> QED
        BY <1>1, <1>4, <1>5, <1>6, <2>1 DEF DatabaseInOrder, Dictionaries!Unpacking,
               LookupInv
<1> QED BY <1>2, <1>3, <1>7, <1>8, <1>9, <1>10 DEF LookupInv

\* One lookup goes on, having read the version seen and opened the package held.
Goes(l, pc, seen, held) ==
    /\ lookup' \in [Lookups -> LookupRecords]
    /\ lookup'[l].pc = pc /\ lookup'[l].seen = seen /\ lookup'[l].held = held
    /\ \A k \in Lookups : k # l => lookup'[k] = lookup[k]

\* A lookup that has ended is idle, and holds nothing.
LEMMA EndsIdle ==
    ASSUME LookupInv, NEW l \in Lookups, Dictionaries!Ends(l)
    PROVE  Goes(l, "idle", None, None)
<1>1. lookup' = [lookup EXCEPT ![l] = Dictionaries!NoLookup]
            /\ lookup \in [Lookups -> LookupRecords]
    BY DEF Dictionaries!Ends, LookupInv, LookupShapes
<1>2. /\ Dictionaries!NoLookup \in LookupRecords
      /\ Dictionaries!NoLookup.pc = "idle" /\ Dictionaries!NoLookup.seen = None
               /\ Dictionaries!NoLookup.held = None
    BY DEF Dictionaries!NoLookup, LookupRecords, LookupSteps
<1> QED BY <1>1, <1>2 DEF Goes

\* It keeps what it has read.
LEMMA LooksOnGoes ==
    ASSUME LookupInv, NEW l \in Lookups, NEW pc \in LookupSteps, Dictionaries!LooksOn(l, pc)
    PROVE  Goes(l, pc, lookup[l].seen, lookup[l].held)
<1>1. lookup' = [lookup EXCEPT ![l].pc = pc] /\ lookup \in [Lookups -> LookupRecords]
    BY DEF Dictionaries!LooksOn, LookupInv, LookupShapes
<1> DEFINE next == [lookup[l] EXCEPT !.pc = pc]
<1>2. /\ next \in LookupRecords
      /\ next.pc = pc /\ next.seen = lookup[l].seen /\ next.held = lookup[l].held
    BY <1>1 DEF LookupRecords
<1>3. lookup' = [lookup EXCEPT ![l] = next]
    BY <1>1
<1> HIDE DEF next
<1> QED BY <1>1, <1>2, <1>3 DEF Goes

\* A lookup goes on with what it has read in order.
LEMMA GoesInOrder ==
    ASSUME LookupInv, DictionaryStill, UNCHANGED kind,
           NEW l \in Lookups, NEW pc, NEW seen, NEW held, Goes(l, pc, seen, held),
           UpTo(seen, CurrentPackage), UpTo(held, CurrentPackage), fetcher # "starting",
           pc \in {"index", "copy"} => held \in Packages /\ UpTo(seen, held)
    PROVE  /\ DictionaryInv' /\ ReleasesInOrder' /\ ReadInOrder'
           /\ kind' \in {"indexed", "unpacked"} /\ fetcher' # "starting"
<1>1. DictionaryInv' /\ ReleasesInOrder' /\ CurrentPackage' = CurrentPackage
            /\ fetcher' = fetcher
    BY StillKeeps DEF LookupInv
<1>2. ReadInOrder'
    BY <1>1 DEF ReadInOrder, Goes, LookupInv
<1> QED BY <1>1, <1>2 DEF LookupInv, LookupShapes

\* What does not unpack touches no database.
LEMMA DatabaseStays ==
    ASSUME LookupInv, DictionaryStill, UNCHANGED <<unpacked, dbVersion, lapses>>,
           NEW l \in Lookups, NEW pc, NEW seen, NEW held, Goes(l, pc, seen, held),
           pc \notin {"copy", "swap", "replace", "label"}
    PROVE  DatabaseInOrder'
<1>1. CurrentPackage' = CurrentPackage
    BY StillKeeps DEF LookupInv
<1>2. \A k \in Lookups : k = l \/ lookup'[k] = lookup[k]
    BY DEF Goes
<1>3. lookup'[l].pc \notin {"copy", "swap", "replace", "label"}
    BY DEF Goes
<1> QED BY <1>1, <1>2, <1>3 DEF DatabaseInOrder, Dictionaries!Unpacking, WholeIn, LookupInv

\* The lookups do not run before the program has started.
LEMMA LookupStarted ==
    ASSUME LookupInv, NEW l \in Lookups, lookup[l].pc # "idle" PROVE fetcher # "starting"
BY DEF LookupInv, LookupShapes

\* A lookup reads the version, which is no newer than the package.
LEMMA LookupBeginKeeps ==
    ASSUME LookupAssumption, LookupInv, NEW l \in Lookups, Dictionaries!BeginLookup(l)
    PROVE  LookupInv'
<1> DEFINE seen == IF version = None THEN Local ELSE version
           next == [pc |-> kind, held |-> None, seen |-> seen]
<1>1. /\ lookup' = [lookup EXCEPT ![l] = next] /\ fetcher # "starting"
      /\ UNCHANGED <<Dictionaries!dictionaryVars, kind, Dictionaries!tables, Dictionaries!database>>
      /\ lookup \in [Lookups -> LookupRecords] /\ kind \in {"indexed", "unpacked"}
    BY DEF Dictionaries!BeginLookup, LookupInv, LookupShapes
<1>2. seen \in Packages \cup {None, Local} /\ UpTo(seen, CurrentPackage)
    BY NoRelease DEF LookupInv, DictionaryInv, ReleasesInOrder
<1> HIDE DEF seen
<1>3. next \in LookupRecords /\ next.pc = kind /\ next.seen = seen /\ next.held = None
    BY <1>1, <1>2 DEF LookupRecords, LookupSteps
<1> HIDE DEF next
<1>4. Goes(l, kind, seen, None)
    BY <1>1, <1>3 DEF Goes
<1>5. /\ DictionaryStill /\ UNCHANGED <<index, unpacked, dbVersion, lapses>>
      /\ UNCHANGED kind
    BY <1>1 DEF DictionaryStill, Dictionaries!dictionaryVars, Dictionaries!tables,
           Dictionaries!database
<1>6. DictionaryInv' /\ ReleasesInOrder' /\ ReadInOrder' /\ fetcher' # "starting"
    BY <1>1, <1>2, <1>4, <1>5, GoesInOrder, NoRelease
<1>7. DatabaseInOrder'
    BY <1>1, <1>4, <1>5, DatabaseStays
<1>8. LookupShapes'
    BY <1>4, <1>5, <1>6 DEF LookupShapes, LookupInv, Goes
<1>9. IndexInOrder'
    BY <1>5, StillKeeps DEF IndexInOrder, LookupInv
<1> QED BY <1>6, <1>7, <1>8, <1>9 DEF LookupInv

\* The package is opened after the version was read.
LEMMA LookupOpenKeeps ==
    ASSUME LookupAssumption, LookupInv, NEW l \in Lookups, Dictionaries!OpenPackage(l)
    PROVE  LookupInv'
<1>1. /\ lookup[l].pc = "indexed"
      /\ UNCHANGED <<Dictionaries!dictionaryVars, kind, index, Dictionaries!database>>
      /\ lookup \in [Lookups -> LookupRecords]
    BY DEF Dictionaries!OpenPackage, LookupInv, LookupShapes
<1>2. /\ DictionaryStill /\ UNCHANGED <<index, unpacked, dbVersion, lapses>>
      /\ UNCHANGED kind
    BY <1>1 DEF DictionaryStill, Dictionaries!dictionaryVars, Dictionaries!database
<1>3. fetcher # "starting" /\ UpTo(lookup[l].seen, CurrentPackage)
    BY <1>1, LookupStarted DEF LookupInv, ReadInOrder
<1>4. \E pc \in {"idle", "index"} : \E seen \in Packages \cup {None, Local} :
      \E held \in Packages \cup {None} :
          /\ Goes(l, pc, seen, held) /\ UpTo(seen, CurrentPackage) /\ UpTo(held, CurrentPackage)
          /\ pc = "index" => held \in Packages /\ UpTo(seen, held)
    <2>1. CASE Dictionaries!Ends(l)
        BY <2>1, EndsIdle, NoRelease
    <2>2. CASE /\ package # None
               /\ lookup' = [lookup EXCEPT ![l].pc = "index", ![l].held = package]
        <3> DEFINE next == [lookup[l] EXCEPT !.pc = "index", !.held = package]
        <3>1. package \in Packages /\ CurrentPackage = package
            BY <2>2 DEF LookupInv, ReleasesInOrder, CurrentPackage
        <3>2. /\ next \in LookupRecords
              /\ next.pc = "index" /\ next.seen = lookup[l].seen /\ next.held = package
            BY <1>1, <3>1, Zenon DEF LookupRecords, LookupSteps
        <3>3. lookup' = [lookup EXCEPT ![l] = next]
            BY <1>1, <2>2, Zenon
        <3> HIDE DEF next
        <3>4. Goes(l, "index", lookup[l].seen, package)
            BY <1>1, <3>2, <3>3 DEF Goes
        <3>5. UpTo(package, CurrentPackage)
            BY <3>1, Reflexive
        <3>6. lookup[l].seen \in Packages \cup {None, Local}
            BY <1>1 DEF LookupRecords
        <3> QED BY <1>3, <3>1, <3>4, <3>5, <3>6
    <2> QED BY <2>1, <2>2 DEF Dictionaries!OpenPackage
<1>5. PICK pc \in {"idle", "index"}, seen \in Packages \cup {None, Local},
           held \in Packages \cup {None} :
          /\ Goes(l, pc, seen, held) /\ UpTo(seen, CurrentPackage) /\ UpTo(held, CurrentPackage)
          /\ pc = "index" => held \in Packages /\ UpTo(seen, held)
    BY <1>4
<1>6. DictionaryInv' /\ ReleasesInOrder' /\ ReadInOrder' /\ fetcher' # "starting"
    BY <1>2, <1>3, <1>5, GoesInOrder
<1>7. DatabaseInOrder'
    BY <1>2, <1>5, DatabaseStays
<1>8. LookupShapes'
    BY <1>2, <1>5, <1>6 DEF LookupShapes, LookupInv, Goes
<1>9. IndexInOrder'
    BY <1>2, StillKeeps DEF IndexInOrder, LookupInv
<1> QED BY <1>6, <1>7, <1>8, <1>9 DEF LookupInv

\* The index is of what was opened, and called by the version that was read before.
LEMMA IndexKeeps ==
    ASSUME LookupAssumption, LookupInv, NEW l \in Lookups,
           Dictionaries!ReplaceIndex(l) \/ Dictionaries!IndexFails(l)
    PROVE  LookupInv'
<1>1. /\ lookup[l].pc = "index" /\ Dictionaries!Ends(l) /\ DictionaryStill
      /\ UNCHANGED <<unpacked, dbVersion, lapses>> /\ UNCHANGED kind
    BY DEF Dictionaries!ReplaceIndex, Dictionaries!IndexFails, DictionaryStill,
           Dictionaries!dictionaryVars, Dictionaries!database, Dictionaries!disk
<1>2. \/ index' = [label |-> lookup[l].seen, text |-> lookup[l].held]
      \/ index' = index
    BY DEF Dictionaries!ReplaceIndex, Dictionaries!IndexFails
<1>3. /\ Goes(l, "idle", None, None) /\ fetcher # "starting"
      /\ UpTo(None, CurrentPackage)
    BY <1>1, EndsIdle, LookupStarted, NoRelease
<1>4. DictionaryInv' /\ ReleasesInOrder' /\ ReadInOrder' /\ fetcher' # "starting"
    BY <1>1, <1>3, GoesInOrder
<1>5. DatabaseInOrder'
    BY <1>1, <1>3, DatabaseStays
<1>6. lookup[l] \in LookupRecords
    BY DEF LookupInv, LookupShapes
<1>7. /\ index' \in [label : Packages \cup {None, Local}, text : Packages \cup {None}]
      /\ IndexInOrder'
    <2>1. CurrentPackage' = CurrentPackage
        BY <1>1, StillKeeps DEF LookupInv
    <2>2. CASE index' = [label |-> lookup[l].seen, text |-> lookup[l].held]
        <3>1. index'.label = lookup[l].seen /\ index'.text = lookup[l].held
            BY <2>2
        <3>2. UpTo(lookup[l].seen, lookup[l].held) /\ UpTo(lookup[l].held, CurrentPackage)
            BY <1>1 DEF LookupInv, ReadInOrder
        <3>3. IndexInOrder'
            BY <2>1, <3>1, <3>2 DEF IndexInOrder
        <3>4. index' \in [label : Packages \cup {None, Local}, text : Packages \cup {None}]
            BY <1>6, <2>2 DEF LookupRecords
        <3> QED BY <3>3, <3>4
    <2>3. CASE index' = index
        BY <2>1, <2>3 DEF IndexInOrder, LookupInv, LookupShapes
    <2> QED BY <1>2, <2>2, <2>3
<1>8. LookupShapes'
    BY <1>1, <1>3, <1>4, <1>7 DEF LookupShapes, LookupInv, Goes
<1> QED BY <1>4, <1>5, <1>7, <1>8 DEF LookupInv

\* A database is used, given a version, or to be unpacked.
LEMMA UseKeeps ==
    ASSUME LookupAssumption, LookupInv, NEW l \in Lookups, Dictionaries!UseDatabase(l)
    PROVE  LookupInv'
<1>1. /\ lookup[l].pc = "unpacked" /\ DictionaryStill /\ UNCHANGED <<index, unpacked>>
      /\ UNCHANGED kind
      /\ lookup \in [Lookups -> LookupRecords]
    BY DEF Dictionaries!UseDatabase, DictionaryStill, Dictionaries!dictionaryVars,
           Dictionaries!tables, LookupInv, LookupShapes
<1>2. /\ fetcher # "starting" /\ UpTo(lookup[l].seen, CurrentPackage)
      /\ UpTo(lookup[l].held, CurrentPackage) /\ UpTo(None, CurrentPackage)
    BY <1>1, LookupStarted, NoRelease DEF LookupInv, ReadInOrder
<1>3. \/ Goes(l, "idle", None, None)
      \/ Goes(l, "unpack", lookup[l].seen, lookup[l].held)
    <2>1. Dictionaries!Ends(l) \/ Dictionaries!LooksOn(l, "unpack")
        BY DEF Dictionaries!UseDatabase
    <2>2. "unpack" \in LookupSteps
        BY DEF LookupSteps
    <2> QED BY <2>1, <2>2, EndsIdle, LooksOnGoes
<1>4. DictionaryInv' /\ ReleasesInOrder' /\ ReadInOrder' /\ fetcher' # "starting"
    BY <1>1, <1>2, <1>3, GoesInOrder
<1>5. \/ UNCHANGED <<dbVersion, lapses>>
      \/ /\ dbVersion' = lookup[l].seen /\ lapses' = lapses \cup {"adopted"}
    BY DEF Dictionaries!UseDatabase
<1>6. DatabaseInOrder'
    <2>1. CASE UNCHANGED <<dbVersion, lapses>>
        BY <1>1, <1>3, <2>1, DatabaseStays
    <2>2. CASE lapses' = lapses \cup {"adopted"}
        BY <2>2 DEF DatabaseInOrder
    <2> QED BY <1>5, <2>1, <2>2
<1>7. LookupShapes'
    <2>1. lookup[l].seen \in Packages \cup {None, Local}
        BY <1>1 DEF LookupRecords
    <2>2. dbVersion' \in Packages \cup {None, Local}
        BY <1>5, <2>1 DEF LookupInv, LookupShapes
    <2> QED BY <1>1, <1>3, <1>4, <2>2 DEF LookupShapes, LookupInv, Goes
<1>8. IndexInOrder'
    BY <1>1, StillKeeps DEF IndexInOrder, LookupInv
<1> QED BY <1>4, <1>6, <1>7, <1>8 DEF LookupInv

\* A .part is begun for the package that is opened, unless another lookup writes one.
LEMMA CreateKeeps ==
    ASSUME LookupAssumption, LookupInv, NEW l \in Lookups, lapses = {},
           Dictionaries!CreateDatabase(l)
    PROVE  LookupInv'
<1>1. /\ lookup[l].pc = "unpack" /\ DictionaryStill /\ UNCHANGED <<index, dbVersion>>
      /\ UNCHANGED kind
      /\ lookup \in [Lookups -> LookupRecords]
    BY DEF Dictionaries!CreateDatabase, DictionaryStill, Dictionaries!dictionaryVars,
           Dictionaries!tables, LookupInv, LookupShapes
<1>2. /\ fetcher # "starting" /\ UpTo(lookup[l].seen, CurrentPackage)
               /\ UpTo(None, CurrentPackage)
      /\ lookup[l].seen \in Packages \cup {None, Local}
    BY <1>1, LookupStarted, NoRelease DEF LookupInv, ReadInOrder, LookupRecords
<1>3. IndexInOrder' /\ CurrentPackage' = CurrentPackage
    BY <1>1, StillKeeps DEF IndexInOrder, LookupInv
<1>4. CASE Dictionaries!Ends(l) /\ UNCHANGED <<unpacked, lapses>>
    <2>1. Goes(l, "idle", None, None)
        BY <1>4, EndsIdle
    <2>2. DictionaryInv' /\ ReleasesInOrder' /\ ReadInOrder' /\ fetcher' # "starting"
        BY <1>1, <1>2, <2>1, GoesInOrder
    <2>3. DatabaseInOrder'
        BY <1>1, <1>4, <2>1, DatabaseStays
    <2>4. LookupShapes'
        BY <1>1, <1>4, <2>1, <2>2 DEF LookupShapes, LookupInv, Goes
    <2> QED BY <1>3, <2>2, <2>3, <2>4 DEF LookupInv
<1>5. CASE /\ lapses' = lapses \cup {"doubled"}
           /\ lookup' = [k \in Lookups |-> Dictionaries!NoLookup]
           /\ UNCHANGED unpacked
    <2>1. DictionaryInv' /\ ReleasesInOrder' /\ fetcher' # "starting"
        BY <1>1, <1>2, StillKeeps DEF LookupInv
    <2>2. DatabaseInOrder'
        BY <1>5 DEF DatabaseInOrder
    <2>3. /\ Dictionaries!NoLookup \in LookupRecords
          /\ Dictionaries!NoLookup.pc = "idle" /\ Dictionaries!NoLookup.seen = None
                   /\ Dictionaries!NoLookup.held = None
        BY DEF Dictionaries!NoLookup, LookupRecords, LookupSteps
    <2>4. \A k \in Lookups : lookup'[k] = Dictionaries!NoLookup
        BY <1>5
    <2>5. ReadInOrder'
        BY <2>3, <2>4, NoRelease DEF ReadInOrder
    <2>6. LookupShapes'
        BY <1>1, <1>5, <2>1, <2>3 DEF LookupShapes, LookupInv
    <2> QED BY <1>3, <2>1, <2>2, <2>5, <2>6 DEF LookupInv
<1>6. CASE /\ package # None /\ ~\E k \in Lookups : Dictionaries!Unpacking(k)
           /\ lookup' = [lookup EXCEPT ![l].pc = "copy", ![l].held = package]
           /\ unpacked' = [unpacked EXCEPT !.part = Torn]
           /\ UNCHANGED lapses
    <2> DEFINE next == [lookup[l] EXCEPT !.pc = "copy", !.held = package]
    <2>1. package \in Packages /\ CurrentPackage = package
        BY <1>6 DEF LookupInv, ReleasesInOrder, CurrentPackage
    <2>2. /\ next \in LookupRecords
          /\ next.pc = "copy" /\ next.seen = lookup[l].seen /\ next.held = package
        BY <1>1, <2>1, Zenon DEF LookupRecords, LookupSteps
    <2>3. lookup' = [lookup EXCEPT ![l] = next]
        BY <1>1, <1>6, Zenon
    <2> HIDE DEF next
    <2>4. Goes(l, "copy", lookup[l].seen, package)
        BY <1>1, <2>2, <2>3 DEF Goes
    <2>5. UpTo(package, CurrentPackage)
        BY <2>1, Reflexive
    <2>6. DictionaryInv' /\ ReleasesInOrder' /\ ReadInOrder' /\ fetcher' # "starting"
        BY <1>1, <1>2, <2>1, <2>4, <2>5, GoesInOrder
    <2>7. /\ unpacked' \in [part : PackageContents, db : PackageContents, backup : PackageContents]
          /\ unpacked'.db = unpacked.db /\ unpacked'.backup = unpacked.backup
        BY <1>6 DEF LookupInv, LookupShapes, PackageContents
    <2>8. LookupShapes'
        BY <1>1, <2>4, <2>6, <2>7 DEF LookupShapes, LookupInv, Goes
    <2>9. DatabaseInOrder'
        <3>1. \A k \in Lookups : k # l => lookup'[k] = lookup[k] /\ ~Dictionaries!Unpacking(k)
            BY <1>6, <2>4 DEF Goes
        <3>2. \A k \in Lookups :
                  k # l => lookup'[k].pc \notin {"copy", "swap", "replace", "label"}
            BY <3>1 DEF Dictionaries!Unpacking
        <3>3. lookup'[l].pc = "copy" /\ lookup'[l].held = package
            BY <2>4 DEF Goes
        <3>4. UpTo(dbVersion, package) /\ UpTo(dbVersion, CurrentPackage)
            BY <2>1 DEF LookupInv, DatabaseInOrder
        <3>5. WholeIn(unpacked.db)' /\ WholeIn(unpacked.backup)'
            BY <1>1, <1>3, <2>7 DEF LookupInv, DatabaseInOrder, WholeIn
        <3> QED
            BY <1>1, <1>3, <3>2, <3>3, <3>4, <3>5 DEF DatabaseInOrder,
                   Dictionaries!Unpacking
    <2> QED BY <1>3, <2>6, <2>8, <2>9 DEF LookupInv
<1> QED BY <1>4, <1>5, <1>6 DEF Dictionaries!CreateDatabase

\* While one lookup unpacks no other one does.
LEMMA OthersWait ==
    ASSUME LookupInv, lapses = {}, NEW l \in Lookups, Dictionaries!Unpacking(l)
    PROVE  \A k \in Lookups : k # l => ~Dictionaries!Unpacking(k)
BY DEF LookupInv, DatabaseInOrder

\* The part is the package that was opened.
LEMMA CopyKeeps ==
    ASSUME LookupAssumption, LookupInv, NEW l \in Lookups, lapses = {},
           Dictionaries!CopyEnds(l)
    PROVE  LookupInv'
<1>1. /\ lookup[l].pc = "copy" /\ DictionaryStill
      /\ UNCHANGED <<index, dbVersion, lapses>> /\ UNCHANGED kind
      /\ unpacked' = [unpacked EXCEPT !.part = lookup[l].held]
      /\ lookup' = [lookup EXCEPT ![l].pc = "swap", ![l].held = None]
      /\ lookup \in [Lookups -> LookupRecords]
    BY DEF Dictionaries!CopyEnds, DictionaryStill, Dictionaries!dictionaryVars,
           Dictionaries!tables, LookupInv, LookupShapes
<1> DEFINE next == [lookup[l] EXCEPT !.pc = "swap", !.held = None]
<1>2. /\ next \in LookupRecords
      /\ next.pc = "swap" /\ next.seen = lookup[l].seen /\ next.held = None
    BY <1>1, Zenon DEF LookupRecords, LookupSteps
<1>3. lookup' = [lookup EXCEPT ![l] = next]
    BY <1>1, Zenon
<1> HIDE DEF next
<1>4. Goes(l, "swap", lookup[l].seen, None)
    BY <1>1, <1>2, <1>3 DEF Goes
<1>5. /\ fetcher # "starting" /\ UpTo(lookup[l].seen, CurrentPackage)
               /\ UpTo(None, CurrentPackage)
      /\ lookup[l].held \in Packages /\ UpTo(lookup[l].seen, lookup[l].held)
      /\ UpTo(lookup[l].held, CurrentPackage) /\ UpTo(dbVersion, lookup[l].held)
    BY <1>1, LookupStarted, NoRelease DEF LookupInv, ReadInOrder, DatabaseInOrder
<1>6. DictionaryInv' /\ ReleasesInOrder' /\ ReadInOrder' /\ fetcher' # "starting"
    BY <1>1, <1>4, <1>5, GoesInOrder
<1>7. IndexInOrder' /\ CurrentPackage' = CurrentPackage
    BY <1>1, StillKeeps DEF IndexInOrder, LookupInv
<1>8. /\ unpacked' \in [part : PackageContents, db : PackageContents, backup : PackageContents]
      /\ unpacked'.part = lookup[l].held
      /\ unpacked'.db = unpacked.db /\ unpacked'.backup = unpacked.backup
    BY <1>1, <1>5 DEF LookupInv, LookupShapes, PackageContents
<1>9. LookupShapes'
    BY <1>1, <1>4, <1>6, <1>8 DEF LookupShapes, LookupInv, Goes
<1>10. DatabaseInOrder'
    <2>1. Dictionaries!Unpacking(l)
        BY <1>1 DEF Dictionaries!Unpacking
    <2>2. \A k \in Lookups : k # l => lookup'[k] = lookup[k] /\ ~Dictionaries!Unpacking(k)
        BY <1>4, <2>1, OthersWait DEF Goes
    <2>3. \A k \in Lookups :
              k # l => lookup'[k].pc \notin {"copy", "swap", "replace", "label"}
        BY <2>2 DEF Dictionaries!Unpacking
    <2>4. lookup'[l].pc = "swap" /\ lookup'[l].seen = lookup[l].seen
        BY <1>4 DEF Goes
    <2>5. WholeIn(unpacked.db)' /\ WholeIn(unpacked.backup)' /\ UpTo(dbVersion, CurrentPackage)
        BY <1>1, <1>7, <1>8 DEF LookupInv, DatabaseInOrder, WholeIn
    <2>6. /\ WholeIn(unpacked.part)' /\ unpacked'.part # None
          /\ UpTo(lookup[l].seen, unpacked'.part)
        BY <1>1, <1>5, <1>7, <1>8 DEF WholeIn, LookupAssumption, ReleasesAssumption
    <2> QED
        BY <1>1, <1>7, <2>3, <2>4, <2>5, <2>6 DEF DatabaseInOrder, Dictionaries!Unpacking
<1> QED BY <1>6, <1>7, <1>9, <1>10 DEF LookupInv

\* The database is set aside, replaced or put back, which leaves whole what is in place.
LEMMA PlaceKeeps ==
    ASSUME LookupAssumption, LookupInv, NEW l \in Lookups, lapses = {},
           Dictionaries!SetDatabaseAside(l) \/ Dictionaries!ReplaceDatabase(l)
    PROVE  LookupInv'
<1>1. /\ lookup[l].pc \in {"swap", "replace"} /\ DictionaryStill
      /\ UNCHANGED <<index, dbVersion, lapses>> /\ UNCHANGED kind
      /\ lookup \in [Lookups -> LookupRecords]
    BY DEF Dictionaries!SetDatabaseAside, Dictionaries!ReplaceDatabase, DictionaryStill,
           Dictionaries!dictionaryVars, Dictionaries!tables, LookupInv, LookupShapes,
           Dictionaries!disk
<1>2. /\ fetcher # "starting" /\ UpTo(lookup[l].seen, CurrentPackage)
      /\ UpTo(lookup[l].held, CurrentPackage) /\ UpTo(None, CurrentPackage)
      /\ unpacked.part # None /\ WholeIn(unpacked.part)
      /\ UpTo(lookup[l].seen, unpacked.part)
      /\ WholeIn(unpacked.db) /\ WholeIn(unpacked.backup) /\ UpTo(dbVersion, CurrentPackage)
    BY <1>1, LookupStarted, NoRelease DEF LookupInv, ReadInOrder, DatabaseInOrder
<1>3. /\ unpacked \in [part : PackageContents, db : PackageContents, backup : PackageContents]
      /\ None \in PackageContents
    BY DEF LookupInv, LookupShapes, PackageContents
<1>4. \/ /\ Goes(l, "replace", lookup[l].seen, lookup[l].held)
         /\ unpacked' = [unpacked EXCEPT !.backup = unpacked.db, !.db = None]
      \/ /\ Goes(l, "label", lookup[l].seen, lookup[l].held)
         /\ unpacked' = [unpacked EXCEPT !.db = unpacked.part, !.part = None]
      \/ /\ Goes(l, "idle", None, None)
         /\ unpacked' = [unpacked EXCEPT !.db = unpacked.backup, !.backup = None]
    <2>1. \/ /\ Dictionaries!LooksOn(l, "replace")
             /\ unpacked' = [unpacked EXCEPT !.backup = unpacked.db, !.db = None]
          \/ /\ Dictionaries!LooksOn(l, "label")
             /\ unpacked' = [unpacked EXCEPT !.db = unpacked.part, !.part = None]
          \/ /\ Dictionaries!Ends(l)
             /\ unpacked' = [unpacked EXCEPT !.db = unpacked.backup, !.backup = None]
        BY Zenon DEF Dictionaries!SetDatabaseAside, Dictionaries!ReplaceDatabase
    <2>2. "replace" \in LookupSteps /\ "label" \in LookupSteps
        BY DEF LookupSteps
    <2>3. Dictionaries!LooksOn(l, "replace") => Goes(l, "replace", lookup[l].seen, lookup[l].held)
        BY <2>2, LooksOnGoes
    <2>4. Dictionaries!LooksOn(l, "label") => Goes(l, "label", lookup[l].seen, lookup[l].held)
        BY <2>2, LooksOnGoes
    <2>5. Dictionaries!Ends(l) => Goes(l, "idle", None, None)
        BY EndsIdle
    <2> QED BY <2>1, <2>3, <2>4, <2>5, Zenon
<1>5. unpacked' \in [part : PackageContents, db : PackageContents, backup : PackageContents]
    <2>1. unpacked.part \in PackageContents /\ unpacked.db \in PackageContents
          /\ unpacked.backup \in PackageContents
        BY <1>3
    <2> QED BY <1>3, <1>4, <2>1, Zenon
<1>6. \/ /\ Goes(l, "replace", lookup[l].seen, lookup[l].held)
         /\ unpacked'.backup = unpacked.db /\ unpacked'.db = None
         /\ unpacked'.part = unpacked.part
      \/ /\ Goes(l, "label", lookup[l].seen, lookup[l].held)
         /\ unpacked'.db = unpacked.part /\ unpacked'.part = None
         /\ unpacked'.backup = unpacked.backup
      \/ /\ Goes(l, "idle", None, None)
         /\ unpacked'.db = unpacked.backup /\ unpacked'.backup = None
    BY <1>3, <1>4, Zenon
<1> HIDE <1>4
<1>7. /\ DictionaryInv' /\ ReleasesInOrder' /\ ReadInOrder' /\ fetcher' # "starting"
    BY <1>1, <1>2, <1>6, GoesInOrder
<1>8. IndexInOrder' /\ CurrentPackage' = CurrentPackage
    BY <1>1, StillKeeps DEF IndexInOrder, LookupInv
<1>9. LookupShapes'
    BY <1>1, <1>5, <1>6, <1>7 DEF LookupShapes, LookupInv, Goes
<1>10. DatabaseInOrder'
    <2>1. Dictionaries!Unpacking(l)
        BY <1>1 DEF Dictionaries!Unpacking
    <2>2. \A k \in Lookups : k # l => lookup'[k] = lookup[k] /\ ~Dictionaries!Unpacking(k)
        BY <1>6, <2>1, OthersWait DEF Goes
    <2>3. \A k \in Lookups :
              k # l => lookup'[k].pc \notin {"copy", "swap", "replace", "label"}
        BY <2>2 DEF Dictionaries!Unpacking
    <2>4. WholeIn(unpacked.db)' /\ WholeIn(unpacked.backup)'
        BY <1>1, <1>2, <1>6, <1>8 DEF WholeIn
    <2>5. /\ lookup'[l].pc # "copy" /\ lookup'[l].pc # "swap"
          /\ lookup'[l].pc = "replace" =>
                /\ unpacked'.part # None /\ WholeIn(unpacked.part)'
                /\ UpTo(lookup'[l].seen, unpacked'.part)
          /\ lookup'[l].pc = "label" =>
                unpacked'.db # None /\ UpTo(lookup'[l].seen, unpacked'.db)
        BY <1>1, <1>2, <1>6, <1>8 DEF WholeIn, Goes
    <2> QED
        BY <1>1, <1>2, <1>8, <2>3, <2>4, <2>5 DEF DatabaseInOrder, Dictionaries!Unpacking
<1> QED BY <1>7, <1>8, <1>9, <1>10 DEF LookupInv

\* A database is called by the version that was read before its package was opened.
LEMMA LabelKeeps ==
    ASSUME LookupAssumption, LookupInv, NEW l \in Lookups, lapses = {},
           Dictionaries!LabelDatabase(l)
    PROVE  LookupInv'
<1>1. /\ lookup[l].pc = "label" /\ DictionaryStill
      /\ UNCHANGED <<index, lapses>> /\ UNCHANGED kind
      /\ unpacked' = [unpacked EXCEPT !.backup = None]
      /\ dbVersion' = lookup[l].seen /\ Dictionaries!Ends(l)
      /\ lookup[l].seen \in Packages \cup {None, Local}
    BY DEF Dictionaries!LabelDatabase, DictionaryStill, Dictionaries!dictionaryVars,
           Dictionaries!tables, LookupInv, LookupShapes, LookupRecords
<1>2. /\ fetcher # "starting" /\ UpTo(lookup[l].seen, CurrentPackage)
      /\ UpTo(None, CurrentPackage) /\ Goes(l, "idle", None, None)
      /\ unpacked.db # None /\ WholeIn(unpacked.db) /\ UpTo(lookup[l].seen, unpacked.db)
    BY <1>1, LookupStarted, EndsIdle, NoRelease DEF LookupInv, ReadInOrder, DatabaseInOrder
<1>3. DictionaryInv' /\ ReleasesInOrder' /\ ReadInOrder' /\ fetcher' # "starting"
    BY <1>1, <1>2, GoesInOrder
<1>4. IndexInOrder' /\ CurrentPackage' = CurrentPackage
    BY <1>1, StillKeeps DEF IndexInOrder, LookupInv
<1>5. /\ unpacked' \in [part : PackageContents, db : PackageContents, backup : PackageContents]
      /\ unpacked'.db = unpacked.db /\ unpacked'.backup = None
    BY <1>1 DEF LookupInv, LookupShapes, PackageContents
<1>6. LookupShapes'
    BY <1>1, <1>2, <1>3, <1>5 DEF LookupShapes, LookupInv, Goes
<1>7. DatabaseInOrder'
    <2>1. Dictionaries!Unpacking(l)
        BY <1>1 DEF Dictionaries!Unpacking
    <2>2. \A k \in Lookups : lookup'[k].pc \notin {"copy", "swap", "replace", "label"}
        BY <1>2, <2>1, OthersWait DEF Goes, Dictionaries!Unpacking
    <2>3. WholeIn(unpacked.db)' /\ WholeIn(unpacked.backup)' /\ UpTo(dbVersion', CurrentPackage')
        BY <1>1, <1>2, <1>4, <1>5 DEF WholeIn
    <2> QED BY <2>2, <2>3 DEF DatabaseInOrder, Dictionaries!Unpacking
<1> QED BY <1>3, <1>4, <1>6, <1>7 DEF LookupInv

\* The start puts a backup in the place of a database that is not there.
LEMMA CleanKeeps ==
    ASSUME LookupAssumption, LookupInv, Dictionaries!CleanDatabase PROVE LookupInv'
<1>1. /\ fetcher = "starting" /\ DictionaryStill
      /\ UNCHANGED <<kind, lookup, index, dbVersion, lapses>>
      /\ unpacked' = [part |-> None, backup |-> None,
                      db |-> IF unpacked.db # None THEN unpacked.db ELSE unpacked.backup]
    BY DEF Dictionaries!CleanDatabase, DictionaryStill, Dictionaries!dictionaryVars,
           Dictionaries!tables
<1>2. DictionaryInv' /\ ReleasesInOrder' /\ CurrentPackage' = CurrentPackage
            /\ fetcher' = fetcher
    BY <1>1, StillKeeps DEF LookupInv
<1>3. ReadInOrder' /\ IndexInOrder'
    BY <1>1, <1>2 DEF ReadInOrder, IndexInOrder, LookupInv
<1>4. /\ unpacked' \in [part : PackageContents, db : PackageContents, backup : PackageContents]
      /\ unpacked'.backup = None
      /\ unpacked'.db = unpacked.db \/ unpacked'.db = unpacked.backup
    BY <1>1 DEF LookupInv, LookupShapes, PackageContents
<1>5. LookupShapes'
    BY <1>1, <1>2, <1>4 DEF LookupShapes, LookupInv
<1>6. DatabaseInOrder'
    <2>1. \A k \in Lookups : lookup'[k].pc = "idle"
        BY <1>1 DEF LookupInv, LookupShapes
    <2>2. lapses = {} => /\ WholeIn(unpacked.db)' /\ WholeIn(unpacked.backup)'
                         /\ UpTo(dbVersion', CurrentPackage')
        BY <1>1, <1>2, <1>4 DEF WholeIn, LookupInv, DatabaseInOrder
    <2> QED BY <1>1, <2>1, <2>2 DEF DatabaseInOrder, Dictionaries!Unpacking
<1> QED BY <1>2, <1>3, <1>5, <1>6 DEF LookupInv

\* No lookup runs at first, and there is neither index nor database.
LEMMA LookupsBegin ==
    ASSUME LookupAssumption PROVE Dictionaries!LookupInit => LookupInv
<1> SUFFICES ASSUME Dictionaries!LookupInit PROVE LookupInv
    OBVIOUS
<1>1. DictionaryInv
    BY DictionaryInitially DEF Dictionaries!LookupInit, LookupAssumption
<1>2. /\ package = None /\ spare = None /\ version = None /\ release = None
      /\ fetcher = "idle" /\ kind \in DictionaryKinds
      /\ lookup = [l \in Lookups |-> Dictionaries!NoLookup]
      /\ index = [label |-> None, text |-> None]
      /\ unpacked = [part |-> None, db |-> None, backup |-> None]
      /\ dbVersion = None /\ lapses = {}
    BY DEF Dictionaries!LookupInit, Dictionaries!DictionaryInit
<1>3. \A l \in Lookups : lookup[l] = Dictionaries!NoLookup
    BY <1>2
<1>4. /\ Dictionaries!NoLookup \in LookupRecords
      /\ Dictionaries!NoLookup.pc = "idle" /\ Dictionaries!NoLookup.seen = None
               /\ Dictionaries!NoLookup.held = None
    BY DEF Dictionaries!NoLookup, LookupRecords, LookupSteps
<1>5. \A a : UpTo(None, a)
    BY NoRelease
<1>6. ReleasesInOrder
    BY <1>2, <1>5 DEF ReleasesInOrder, CurrentPackage
<1>7. LookupShapes
    <2>1. lookup \in [Lookups -> LookupRecords]
        BY <1>2, <1>4
    <2>2. index \in [label : Packages \cup {None, Local}, text : Packages \cup {None}]
        BY <1>2
    <2>3. unpacked \in [part : PackageContents, db : PackageContents, backup : PackageContents]
        BY <1>2 DEF PackageContents
    <2> QED BY <1>2, <1>3, <1>4, <2>1, <2>2, <2>3 DEF LookupShapes, LookupAssumption
<1>8. ReadInOrder
    BY <1>3, <1>4, <1>5 DEF ReadInOrder
<1>9. IndexInOrder
    BY <1>2, <1>5 DEF IndexInOrder
<1>10. DatabaseInOrder
    BY <1>2, <1>3, <1>4, <1>5 DEF DatabaseInOrder, Dictionaries!Unpacking, WholeIn
<1> QED BY <1>1, <1>6, <1>7, <1>8, <1>9, <1>10 DEF LookupInv

\* Each step of a lookup, of the dictionary and of a start keeps the invariant.
LEMMA LookupStepKeeps ==
    ASSUME LookupAssumption, LookupInv,
           [Dictionaries!LookupNext]_Dictionaries!lookupAndDictionary PROVE LookupInv'
<1>1. CASE (Dictionaries!Downloads \/ Dictionaries!Cleans) /\ UNCHANGED Dictionaries!lookupVars
    BY <1>1, DownloadsKeep
<1>2. ASSUME NEW l \in Lookups, lapses = {},
             Dictionaries!BeginLookup(l) \/ Dictionaries!LookupStep(l)
      PROVE  LookupInv'
    BY <1>2, LookupBeginKeeps, LookupOpenKeeps, IndexKeeps, UseKeeps, CreateKeeps,
       CopyKeeps, PlaceKeeps, LabelKeeps, Zenon
       DEF Dictionaries!LookupStep
<1>3. CASE Dictionaries!CrashLookups \/ Dictionaries!CleanDatabase \/ Dictionaries!StartListed
    BY <1>3, DictionaryCrashKeeps, CleanKeeps, StartKeeps
<1>4. CASE UNCHANGED Dictionaries!lookupAndDictionary
    <2>1. UNCHANGED Dictionaries!dictionaryVars /\ UNCHANGED Dictionaries!lookupVars
        BY <1>4 DEF Dictionaries!lookupAndDictionary
    <2>2. DictionaryStill /\ UNCHANGED fetcher
        BY <2>1 DEF DictionaryStill, Dictionaries!dictionaryVars
    <2>3. DictionaryInv' /\ ReleasesInOrder' /\ CurrentPackage' = CurrentPackage
        BY <2>2, StillKeeps DEF LookupInv
    <2>4. UpTo(CurrentPackage, CurrentPackage')
        BY <2>3, Reflexive
    <2>5. LookupShapes'
        BY <2>1, <2>2 DEF LookupShapes, LookupInv, Dictionaries!lookupVars
    <2> QED BY <2>1, <2>3, <2>4, <2>5, NewerKeeps DEF LookupInv
<1> QED BY <1>1, <1>2, <1>3, <1>4, Zenon DEF Dictionaries!LookupNext

\* While the version file names the installed package, an index or a database of that
\* version holds that release whole, whatever updates, lookups and crashes came together,
\* and a package that was installed stays on the disk (dictionary_lookup.rs, ensure_index and
\* ensure_tomoshi_database; dictionary_download.rs, install_package).
THEOREM DictionaryStaysHonest ==
    ASSUME LookupAssumption
    PROVE  Dictionaries!LookupSpec => []Dictionaries!DictionaryHonest
<1>1. Dictionaries!LookupInit => LookupInv
    BY LookupsBegin
<1>2. LookupInv /\ [Dictionaries!LookupNext]_Dictionaries!lookupAndDictionary => LookupInv'
    BY LookupStepKeeps
<1>3. LookupInv => Dictionaries!DictionarySurvives
    BY PackageRemains DEF LookupInv, LookupAssumption
<1>4. LookupInv => Dictionaries!LookupIsCurrent
    <2> SUFFICES ASSUME LookupInv, version = package, package # None
                 PROVE  /\ index.label = version => index.text = package
                        /\ dbVersion = version /\ lapses = {} =>
                              unpacked.db \in {package, None}
        BY DEF Dictionaries!LookupIsCurrent
    <2>1. package \in Packages /\ CurrentPackage = package
        BY DEF LookupInv, ReleasesInOrder, CurrentPackage
    <2>2. ASSUME NEW a, UpTo(package, a), UpTo(a, package) PROVE a = package
        <3>1. a \in Packages /\ package <= a /\ a <= package
            BY <2>1, <2>2 DEF UpTo
        <3>2. a \in Nat /\ package \in Nat
            BY <2>1, <3>1 DEF LookupAssumption
        <3> QED BY <3>1, <3>2, Antisymmetric
    <2>3. index.label = version => index.text = package
        BY <2>1, <2>2 DEF LookupInv, IndexInOrder
    <2>4. ASSUME dbVersion = version, lapses = {} PROVE unpacked.db \in {package, None}
        BY <2>1, <2>2, <2>4 DEF LookupInv, DatabaseInOrder, WholeIn
    <2> QED BY <2>3, <2>4
<1>5. LookupInv => Dictionaries!DictionaryHonest
    BY <1>3, <1>4 DEF Dictionaries!DictionaryHonest
<1> QED BY <1>1, <1>2, <1>5, PTL DEF Dictionaries!LookupSpec

renderRow == x1
queue == x2
submitting == x3
flag == x4
stopping == x5
engine == x6
hidden == x7
previous == x10
output == x11
unwritten == x12
USE DEF renderRow, queue, submitting, flag, stopping, engine, hidden, previous, output,
        unwritten

(***************************************************************************)
(* VideoRender: a user's file is replaced with consent and by whole videos *)
(* only.                                                                   *)
(*                                                                         *)
(* The property speaks of outputs and of the files set aside.  That a      *)
(* backup is never overwritten by a second one rests on a render passing   *)
(* the worker once; that it is dropped only for a file that was replaced   *)
(* rests on what the worker knows at each of its steps.                    *)
(***************************************************************************)
EngineSteps == {"waiting", "taken", "encode", "install", "move", "set aside", "replace",
          "drop previous", "done", "failed", "cancelled", "leaving"}
\* Where the worker has set nothing aside for its render.
BeforeBackup == {"taken", "encode", "install", "set aside"}
Engines == [pc : EngineSteps, render : Renders \cup {None}, attempt : Nat]
OutputContents == Renders \cup {None, "user"}

\* A render that waits somewhere, before the worker takes it.
Queued(r) == \E i \in 1..Len(queue) : queue[i] = r
Takes(r) == engine.render = r

\* The shapes of the state the worker and the submissions use.
RenderShapes ==
    /\ renderRow \in [Renders -> {"none", "queued", "running"} \cup RenderQueue!Finished]
    /\ queue \in Seq(Renders)
    /\ submitting \in [Renders -> {"idle", "flag", "send"}]
    /\ stopping \in [Renders -> {None, "queued", "running"}]
    /\ engine \in Engines
    /\ engine.pc = "waiting" <=> engine.render = None
    /\ hidden \in [Renders -> {None, "piece", "video"}]
    /\ previous \in [Renders -> OutputContents]
    /\ output \in [VideoOutputs -> OutputContents] /\ owned \subseteq VideoOutputs

\* A render passes from its submission through the queue to the worker, and is in one
\* of these places at a time.
Once ==
    /\ \A r \in Renders : renderRow[r] = "none" =>
          submitting[r] = "idle" /\ ~Queued(r) /\ ~Takes(r)
    /\ \A r \in Renders : submitting[r] # "idle" => ~Queued(r) /\ ~Takes(r)
    /\ \A i, j \in 1..Len(queue) : queue[i] = queue[j] => i = j
    /\ \A r \in Renders : Queued(r) => ~Takes(r)

\* Nothing is set aside for a render before the worker does it.
Ahead(r) ==
    \/ renderRow[r] = "none" \/ submitting[r] # "idle" \/ Queued(r)
    \/ Takes(r) /\ engine.pc \in BeforeBackup
FirstBackup == \A r \in Renders : Ahead(r) => previous[r] = None

\* A file of the user for this output is set aside.
Aside(p) == \E r \in Renders : TargetOf[r] = p /\ previous[r] = "user"

\* What the worker knows of its video and of the output at each step of installing it:
\* while it does not see what appears there, the file that counts is set aside.
WorkerKnows ==
    LET r == engine.render  p == TargetOf[r] IN
    /\ engine.pc \in {"install", "move", "set aside", "replace"} => hidden[r] = "video"
    /\ engine.pc \in {"set aside", "replace"} => r \in Consenting
    /\ engine.pc \in {"move", "replace"} => (p \in owned => Aside(p))
    /\ engine.pc = "drop previous" =>
          output[p] # None /\ (previous[r] = "user" => p \notin owned)

\* The file of the user is at its output or set aside.
UserKept ==
    \A p \in owned : output[p] = "user" \/ Aside(p)

RenderInv == RenderShapes /\ Once /\ FirstBackup /\ WorkerKnows /\ UserKept

\* Every render has an output; the marks for "nothing" and "a file of the user" are no
\* renders.
RendersAssumption ==
    /\ None \notin Renders /\ "user" \notin Renders
    /\ None \notin {"user", "piece", "video", "queued", "running"}
    /\ TargetOf \in [Renders -> VideoOutputs]
    /\ Consenting \subseteq Renders /\ Present \subseteq VideoOutputs

(***************************************************************************)
(* The worker's step is a record of its own: what a change of it means.    *)
(***************************************************************************)
\* GoesTo changes where the worker is, and nothing else of it.
LEMMA GoingTo ==
    ASSUME engine \in Engines, NEW pc \in EngineSteps, RenderQueue!GoesTo(pc)
    PROVE  /\ engine' \in Engines /\ engine'.pc = pc
           /\ engine'.render = engine.render /\ engine'.attempt = engine.attempt
BY Zenon DEF RenderQueue!GoesTo, Engines

\* A worker without a render waits for the next one.
LEMMA WaitingShape == ASSUME RendersAssumption
   
    PROVE   RenderQueue!Waiting \in Engines /\ RenderQueue!Waiting.pc = "waiting"
                  /\ RenderQueue!Waiting.render = None
BY DEF RenderQueue!Waiting, Engines, EngineSteps, RenderQueue!FirstAttempt,
       RendersAssumption

\* What a render's hidden file becomes at its output.
LEMMA MadeIsVideo ==
    ASSUME NEW r, hidden[r] = "video" PROVE RenderQueue!Made(r) = r
BY DEF RenderQueue!Made

(***************************************************************************)
(* The initial state, and one step for each action.                        *)
(***************************************************************************)
\* Nothing is under way at first, and the user's files are where they are.
LEMMA RendersInitially == ASSUME RendersAssumption PROVE RenderQueue!RenderInit => RenderInv
<1> SUFFICES ASSUME RenderQueue!RenderInit PROVE RenderInv
    OBVIOUS
<1> USE DEF RendersAssumption
<1>1. RenderShapes
    <2>1. queue \in Seq(Renders) /\ Len(queue) = 0
        BY DEF RenderQueue!RenderInit
    <2>2. engine \in Engines /\ (engine.pc = "waiting" <=> engine.render = None)
        BY WaitingShape DEF RenderQueue!RenderInit
    <2> QED BY <2>1, <2>2 DEF RenderQueue!RenderInit, RenderShapes, OutputContents,
                   RenderQueue!Finished
<1>2. Once
    BY WaitingShape DEF RenderQueue!RenderInit, Once, Queued, Takes
<1>3. FirstBackup
    BY DEF RenderQueue!RenderInit, FirstBackup
<1>4. WorkerKnows
    BY WaitingShape DEF RenderQueue!RenderInit, WorkerKnows
<1>5. UserKept
    BY DEF RenderQueue!RenderInit, UserKept
<1> QED BY <1>1, <1>2, <1>3, <1>4, <1>5 DEF RenderInv

\* A step that leaves the worker, the files and the queue alone keeps what is said of them.
LEMMA RenderFilesAlone ==
    ASSUME WorkerKnows, UserKept, UNCHANGED <<engine, RenderQueue!Files>>
    PROVE  WorkerKnows' /\ UserKept'
BY DEF WorkerKnows, UserKept, Aside, RenderQueue!Files

\* A submission starts for a render that has no row, which is nowhere yet.
LEMMA SubmitKeeps ==
    ASSUME RendersAssumption, RenderInv, NEW r \in Renders, RenderQueue!Submit(r)
    PROVE  RenderInv'
<1> USE DEF RenderInv
<1>1. RenderShapes'
    BY DEF RenderQueue!Submit, RenderShapes, RenderQueue!Files
<1>2. Once'
    BY DEF RenderQueue!Submit, Once, Queued, Takes, RenderShapes
<1>3. FirstBackup'
    BY DEF RenderQueue!Submit, FirstBackup, Ahead, Queued, Takes, RenderShapes,
           RenderQueue!Files
<1> QED BY <1>1, <1>2, <1>3, RenderFilesAlone DEF RenderQueue!Submit

\* The flag of a cancellation touches no file.
LEMMA AttachFlagKeeps ==
    ASSUME RendersAssumption, RenderInv, NEW r \in Renders, RenderQueue!AttachFlag(r)
    PROVE  RenderInv'
<1> USE DEF RenderInv
<1>1. RenderShapes'
    BY DEF RenderQueue!AttachFlag, RenderShapes, RenderQueue!Files
<1>2. Once'
    BY DEF RenderQueue!AttachFlag, Once, Queued, Takes, RenderShapes
<1>3. FirstBackup'
    BY DEF RenderQueue!AttachFlag, FirstBackup, Ahead, Queued, Takes, RenderShapes,
           RenderQueue!Files
<1> QED BY <1>1, <1>2, <1>3, RenderFilesAlone DEF RenderQueue!AttachFlag

\* The render moves from its submission into the queue.
LEMMA RenderSendKeeps ==
    ASSUME RendersAssumption, RenderInv, NEW r \in Renders, RenderQueue!Send(r)
    PROVE  RenderInv'
<1> USE DEF RenderInv
<1> DEFINE n == Len(queue)
<1>1. /\ queue' \in Seq(Renders) /\ Len(queue') = n + 1 /\ n \in Nat
      /\ \A i \in 1..n : queue'[i] = queue[i]
      /\ queue'[n + 1] = r
    BY DEF RenderQueue!Send, RenderShapes
<1>2. \A s \in Renders : Queued(s)' <=> Queued(s) \/ s = r
    BY <1>1 DEF Queued
<1>3. ~Queued(r) /\ ~Takes(r) /\ renderRow[r] # "none"
    BY DEF RenderQueue!Send, Once
<1>4. RenderShapes'
    BY <1>1 DEF RenderQueue!Send, RenderShapes, RenderQueue!Files
<1>5. \A i, j \in 1..Len(queue)' : queue'[i] = queue'[j] => i = j
    <2> SUFFICES ASSUME NEW i \in 1..(n + 1), NEW j \in 1..(n + 1), queue'[i] = queue'[j]
                 PROVE  i = j
        BY <1>1
    <2>1. CASE i = n + 1 /\ j = n + 1
        BY <2>1
    <2>2. CASE i = n + 1 /\ j \in 1..n
        BY <2>2, <1>1, <1>3 DEF Queued
    <2>3. CASE i \in 1..n /\ j = n + 1
        BY <2>3, <1>1, <1>3 DEF Queued
    <2>4. CASE i \in 1..n /\ j \in 1..n
        BY <2>4, <1>1 DEF Once
    <2> QED BY <2>1, <2>2, <2>3, <2>4, <1>1
<1>6. Once'
    BY <1>2, <1>3, <1>5 DEF RenderQueue!Send, Once, Takes, RenderShapes
<1>7. FirstBackup'
    BY <1>2 DEF RenderQueue!Send, FirstBackup, Ahead, Takes, RenderShapes, RenderQueue!Files
<1> QED BY <1>4, <1>6, <1>7, RenderFilesAlone DEF RenderQueue!Send

\* A cancellation writes the row and the flag, also over a render that runs.
LEMMA CancelRenderKeeps ==
    ASSUME RendersAssumption, RenderInv, NEW r \in Renders, RenderQueue!CancelRender(r)
    PROVE  RenderInv'
<1> USE DEF RenderInv
<1>1. RenderShapes'
    BY DEF RenderQueue!CancelRender, RenderShapes, RenderQueue!Files
<1>2. Once'
    BY DEF RenderQueue!CancelRender, Once, Queued, Takes
<1>3. FirstBackup'
    BY DEF RenderQueue!CancelRender, FirstBackup, Ahead, Queued, Takes, RenderQueue!Files
<1> QED BY <1>1, <1>2, <1>3, RenderFilesAlone DEF RenderQueue!CancelRender

\* A row that is marked was there before.
LEMMA CancelMarksKeeps ==
    ASSUME RendersAssumption, RenderInv, NEW r \in Renders, RenderQueue!CancelMarks(r)
    PROVE  RenderInv'
<1> USE DEF RenderInv
<1>0. \A s \in Renders : renderRow'[s] = "none" => renderRow[s] = "none"
    BY DEF RenderQueue!CancelMarks, RenderShapes
<1>1. RenderShapes'
    BY DEF RenderQueue!CancelMarks, RenderShapes, RenderQueue!Files, RenderQueue!Finished
<1>2. Once'
    BY <1>0 DEF RenderQueue!CancelMarks, Once, Queued, Takes
<1>3. FirstBackup'
    BY <1>0 DEF RenderQueue!CancelMarks, FirstBackup, Ahead, Queued, Takes,
           RenderQueue!Files
<1> QED BY <1>1, <1>2, <1>3, RenderFilesAlone DEF RenderQueue!CancelMarks

(***************************************************************************)
(* The worker.                                                             *)
(***************************************************************************)
\* A step of the worker that keeps its render, moves no file and puts nothing in the queue
\* keeps where every render is, if it marks rows only as rows are marked.
LEMMA PlacesStay ==
    ASSUME Once, UNCHANGED <<queue, submitting>>, engine'.render = engine.render,
           \A r \in Renders : renderRow'[r] = "none" => renderRow[r] = "none"
    PROVE  Once'
BY DEF Once, Queued, Takes

\* As it goes on a render leaves the places before its backup.
LEMMA BackupsStay ==
    ASSUME FirstBackup, UNCHANGED <<queue, submitting, previous>>,
           engine'.render = engine.render,
           engine'.pc \in BeforeBackup => engine.pc \in BeforeBackup,
           \A r \in Renders : renderRow'[r] = "none" => renderRow[r] = "none"
    PROVE  FirstBackup'
BY DEF FirstBackup, Ahead, Queued, Takes

\* A row is written or only logged.
LEMMA RowsWritten ==
    ASSUME RenderShapes, NEW r, NEW status \in {"running"} \cup RenderQueue!Finished,
           RenderQueue!Writes(r, status)
   
    PROVE   /\ renderRow' \in [Renders -> {"none", "queued", "running"} \cup RenderQueue!Finished]
           /\ \A s \in Renders : renderRow'[s] = "none" => renderRow[s] = "none"
BY DEF RenderShapes, RenderQueue!Writes, RenderQueue!Finished

\* The worker takes the render at the head of the queue.
LEMMA ReceiveKeeps ==
    ASSUME RendersAssumption, RenderInv, RenderQueue!Receive PROVE RenderInv'
<1> USE DEF RenderInv
<1> DEFINE h == Head(queue)  n == Len(queue)
<1>1. /\ n \in Nat \ {0} /\ h = queue[1] /\ h \in Renders
      /\ queue' \in Seq(Renders) /\ Len(queue') = n - 1
      /\ \A i \in 1..(n - 1) : queue'[i] = queue[i + 1]
    BY DEF RenderQueue!Receive, RenderShapes
<1>2. /\ engine' \in Engines /\ engine'.render = h
      /\ engine'.pc \in {"taken", "cancelled"}
    <2> HIDE DEF h
    <2>1. RenderQueue!Waiting \in [pc : EngineSteps, render : Renders \cup {None}, attempt : Nat]
        BY WaitingShape DEF Engines
    <2>2. CASE flag[h] = "set"
        <3>1. engine' = [RenderQueue!Waiting EXCEPT !.render = h, !.pc = "cancelled"]
            BY <2>2 DEF RenderQueue!Receive, h
        <3> QED BY <3>1, <2>1, <1>1, Zenon DEF Engines, EngineSteps
    <2>3. CASE flag[h] # "set"
        <3>1. engine' = [RenderQueue!Waiting EXCEPT !.render = h, !.pc = "taken"]
            BY <2>3 DEF RenderQueue!Receive, h
        <3> QED BY <3>1, <2>1, <1>1, Zenon DEF Engines, EngineSteps
    <2> QED BY <2>2, <2>3
<1>3. \A s \in Renders : Queued(s)' => Queued(s) /\ s # h
    <2> SUFFICES ASSUME NEW s \in Renders, NEW i \in 1..(n - 1), queue'[i] = s
                 PROVE  Queued(s) /\ s # h
        BY <1>1 DEF Queued
    <2>1. i + 1 \in 1..n /\ 1 \in 1..n /\ queue[i + 1] = s
        BY <1>1
    <2> QED BY <2>1, <1>1 DEF Queued, Once
<1>4. Queued(h) /\ engine.pc = "waiting" /\ engine.render = None
    BY <1>1 DEF RenderQueue!Receive, Queued, RenderQueue!At, RenderShapes
<1>5. RenderShapes'
    <2>1. h # None /\ engine'.pc # "waiting"
        BY <1>1, <1>2 DEF RendersAssumption
    <2> QED BY <1>1, <1>2, <2>1 DEF RenderQueue!Receive, RenderShapes, RenderQueue!Files
<1>6. \A i, j \in 1..Len(queue)' : queue'[i] = queue'[j] => i = j
    <2> SUFFICES ASSUME NEW i \in 1..(n - 1), NEW j \in 1..(n - 1), queue'[i] = queue'[j]
                 PROVE  i = j
        BY <1>1
    <2>1. i + 1 \in 1..n /\ j + 1 \in 1..n /\ queue[i + 1] = queue[j + 1]
        BY <1>1
    <2>2. i + 1 = j + 1
        BY <2>1 DEF Once
    <2> QED BY <2>2
<1> HIDE DEF h
<1>7. UNCHANGED <<renderRow, submitting, RenderQueue!Files>>
    BY DEF RenderQueue!Receive
<1>8. Once'
    BY <1>1, <1>2, <1>3, <1>4, <1>6, <1>7 DEF Once, Takes
<1>9. FirstBackup'
    BY <1>1, <1>2, <1>3, <1>4, <1>7
       DEF FirstBackup, Ahead, Takes, RenderQueue!Files, BeforeBackup
<1>10. WorkerKnows' /\ UserKept'
    BY <1>2, <1>7 DEF WorkerKnows, UserKept, Aside, RenderQueue!Files
<1> QED BY <1>5, <1>8, <1>9, <1>10

\* The worker takes a render up, or leaves one that was cancelled or cannot begin.
LEMMA MarkRunningKeeps ==
    ASSUME RendersAssumption, RenderInv, RenderQueue!MarkRunning PROVE RenderInv'
<1> USE DEF RenderInv
<1>1. RenderQueue!GoesTo("leaving") \/ RenderQueue!GoesTo("encode")
    BY DEF RenderQueue!MarkRunning
<1>2. /\ engine' \in Engines /\ engine'.render = engine.render
      /\ engine'.pc \in {"leaving", "encode"} /\ engine.pc = "taken"
    BY <1>1, GoingTo DEF RenderQueue!MarkRunning, RenderShapes, RenderQueue!At, EngineSteps
<1>3. /\ renderRow' \in [Renders -> {"none", "queued", "running"} \cup RenderQueue!Finished]
      /\ \A s \in Renders : renderRow'[s] = "none" => renderRow[s] = "none"
    BY RowsWritten DEF RenderQueue!MarkRunning
<1>4. hidden' \in [Renders -> {None, "piece", "video"}]
    BY DEF RenderQueue!MarkRunning, RenderShapes
<1>5. UNCHANGED <<queue, submitting, stopping, previous, output, owned>>
    BY DEF RenderQueue!MarkRunning
<1>6. RenderShapes'
    BY <1>2, <1>3, <1>4, <1>5 DEF RenderShapes
<1>7. Once' /\ FirstBackup'
    BY <1>2, <1>3, <1>5, PlacesStay, BackupsStay DEF BeforeBackup
<1>8. WorkerKnows' /\ UserKept'
    BY <1>2, <1>5 DEF WorkerKnows, UserKept, Aside
<1> QED BY <1>6, <1>7, <1>8

\* A failed attempt gives way to the next one, or ends the render.
LEMMA FailureMoves ==
    ASSUME engine \in Engines, engine.pc = "encode", RenderQueue!EncodeFails
    PROVE  /\ engine' \in Engines /\ engine'.render = engine.render
           /\ engine'.pc \in {"failed", "encode"}
<1>1. PICK audioFailed \in BOOLEAN :
         engine' = IF RenderQueue!Fallback(audioFailed) = 0 THEN [engine EXCEPT !.pc = "failed"]
                   ELSE [engine EXCEPT !.attempt = RenderQueue!Fallback(audioFailed)]
    BY DEF RenderQueue!EncodeFails
<1>2. RenderQueue!Fallback(audioFailed) \in Nat
    BY DEF RenderQueue!Fallback, Engines
<1>3. engine \in [pc : EngineSteps, render : Renders \cup {None}, attempt : Nat]
    BY DEF Engines
<1>4. CASE engine' = [engine EXCEPT !.pc = "failed"]
    BY <1>3, <1>4, Zenon DEF Engines, EngineSteps
<1>5. CASE engine' = [engine EXCEPT !.attempt = RenderQueue!Fallback(audioFailed)]
    <2>1. engine' \in Engines /\ engine'.render = engine.render /\ engine'.pc = engine.pc
        BY <1>2, <1>3, <1>5, Zenon DEF Engines
    <2> QED BY <2>1
<1> QED BY <1>1, <1>4, <1>5

\* The steps of the encoder change the hidden file of its render only.
LEMMA EncoderKeeps ==
    ASSUME RendersAssumption, RenderInv,
           RenderQueue!EncodeStopped \/ RenderQueue!Encoded \/ RenderQueue!EncodeFails
    PROVE  RenderInv'
<1> USE DEF RenderInv
<1>1. engine.pc = "encode" /\ engine.render \in Renders
    BY DEF RenderQueue!EncodeStopped, RenderQueue!Encoded, RenderQueue!EncodeFails,
           RenderQueue!At, RenderShapes, Engines
<1>2. /\ engine' \in Engines /\ engine'.render = engine.render
      /\ engine'.pc \in {"cancelled", "install", "failed", "encode"}
    <2>1. CASE RenderQueue!EncodeStopped
        BY <2>1, GoingTo DEF RenderQueue!EncodeStopped, RenderShapes, EngineSteps
    <2>2. CASE RenderQueue!Encoded
        BY <2>2, GoingTo DEF RenderQueue!Encoded, RenderShapes, EngineSteps
    <2>3. CASE RenderQueue!EncodeFails
        BY <2>3, <1>1, FailureMoves DEF RenderShapes
    <2> QED BY <2>1, <2>2, <2>3
<1>3. hidden' \in [Renders -> {None, "piece", "video"}]
    BY DEF RenderQueue!EncodeStopped, RenderQueue!Encoded, RenderQueue!EncodeFails,
           RenderShapes
<1>4. engine'.pc = "install" => hidden'[engine'.render] = "video"
    <2>1. CASE RenderQueue!EncodeStopped
        BY <2>1, GoingTo DEF RenderQueue!EncodeStopped, RenderShapes, EngineSteps
    <2>2. CASE RenderQueue!Encoded
        BY <2>2, <1>1, <1>2 DEF RenderQueue!Encoded, RenderShapes
    <2>3. CASE RenderQueue!EncodeFails
        BY <2>3, <1>1, FailureMoves DEF RenderShapes
    <2> QED BY <2>1, <2>2, <2>3
<1>5. UNCHANGED <<renderRow, queue, submitting, stopping, previous, output, owned>>
    BY DEF RenderQueue!EncodeStopped, RenderQueue!Encoded, RenderQueue!EncodeFails
<1>6. RenderShapes'
    BY <1>1, <1>2, <1>3, <1>5 DEF RenderShapes
<1>7. Once' /\ FirstBackup'
    BY <1>1, <1>2, <1>5, PlacesStay, BackupsStay DEF BeforeBackup
<1>8. WorkerKnows' /\ UserKept'
    BY <1>1, <1>2, <1>4, <1>5 DEF WorkerKnows, UserKept, Aside
<1> QED BY <1>6, <1>7, <1>8

\* The look at the output: a free one is not owned unless the file is set aside.
LEMMA InstallKeeps ==
    ASSUME RendersAssumption, RenderInv, RenderQueue!Install PROVE RenderInv'
<1> USE DEF RenderInv
<1> DEFINE r == engine.render  p == TargetOf[r]
<1>1. engine.pc = "install" /\ r \in Renders /\ hidden[r] = "video"
    BY DEF RenderQueue!Install, RenderQueue!At, RenderShapes, Engines, WorkerKnows
<1>2. UNCHANGED <<renderRow, queue, submitting, stopping, hidden, previous, output, owned>>
    BY DEF RenderQueue!Install, RenderQueue!Files
<1>3. \/ RenderQueue!GoesTo("move") /\ output[p] = None
      \/ RenderQueue!GoesTo("set aside") /\ r \in Consenting
      \/ RenderQueue!GoesTo("failed")
    BY DEF RenderQueue!Install
<1>4. /\ engine' \in Engines /\ engine'.render = r
      /\ \/ engine'.pc = "move" /\ output[p] = None
         \/ engine'.pc = "set aside" /\ r \in Consenting
         \/ engine'.pc = "failed"
    BY <1>3, GoingTo DEF RenderShapes, EngineSteps
<1> HIDE DEF r, p
<1>5. RenderShapes'
    BY <1>1, <1>2, <1>4 DEF RenderShapes, RendersAssumption
<1>6. Once' /\ FirstBackup'
    BY <1>1, <1>2, <1>4, PlacesStay, BackupsStay DEF r, BeforeBackup
<1>7. UserKept'
    BY <1>2 DEF UserKept, Aside
<1>8. WorkerKnows'
    <2>1. output[p] = None /\ p \in owned => Aside(p)
        BY DEF UserKept, RendersAssumption
    <2> QED BY <1>1, <1>2, <1>4, <2>1 DEF WorkerKnows, Aside, p
<1> QED BY <1>5, <1>6, <1>7, <1>8

\* The video is renamed to its output, over what appeared there since the look; or the
\* rename fails, and what lies there counts from then on.
LEMMA MoveInKeeps ==
    ASSUME RendersAssumption, RenderInv, RenderQueue!MoveIn PROVE RenderInv'
<1> USE DEF RenderInv
<1> DEFINE r == engine.render  p == TargetOf[r]
<1>1. /\ engine.pc = "move" /\ r \in Renders /\ p \in VideoOutputs /\ hidden[r] = "video"
      /\ p \in owned => Aside(p)
    BY DEF RenderQueue!MoveIn, RenderQueue!At, RenderShapes, Engines, WorkerKnows,
           RendersAssumption
<1>2. UNCHANGED <<renderRow, queue, submitting, stopping, previous>>
    BY DEF RenderQueue!MoveIn
<1>3. CASE /\ output' = [output EXCEPT ![p] = r] /\ hidden' = [hidden EXCEPT ![r] = None]
           /\ RenderQueue!GoesTo("done") /\ UNCHANGED owned
    <2>1. engine' \in Engines /\ engine'.render = r /\ engine'.pc = "done"
        BY <1>3, GoingTo DEF RenderShapes, EngineSteps
    <2> HIDE DEF r, p
    <2>2. RenderShapes'
        BY <1>1, <1>2, <1>3, <2>1 DEF RenderShapes, OutputContents, RendersAssumption
    <2>3. Once' /\ FirstBackup'
        BY <1>2, <1>3, <2>1, PlacesStay, BackupsStay DEF r, BeforeBackup
    <2>4. WorkerKnows'
        BY <2>1 DEF WorkerKnows
    <2>5. UserKept'
        <3> SUFFICES ASSUME NEW q \in owned, output'[q] # "user" PROVE Aside(q)
            BY <1>2, <1>3 DEF UserKept, Aside
        <3>1. CASE q = p
            BY <1>1, <3>1
        <3>2. CASE q # p
            BY <1>3, <3>2 DEF UserKept, RenderShapes
        <3> QED BY <3>1, <3>2
    <2> QED BY <2>2, <2>3, <2>4, <2>5
<1>4. CASE /\ UNCHANGED <<output, hidden>> /\ owned' = owned \cup RenderQueue!Lying(output)
           /\ RenderQueue!GoesTo("failed")
    <2>1. engine' \in Engines /\ engine'.render = r /\ engine'.pc = "failed"
        BY <1>4, GoingTo DEF RenderShapes, EngineSteps
    <2> HIDE DEF r, p
    <2>2. RenderShapes'
        BY <1>1, <1>2, <1>4, <2>1 DEF RenderShapes, RendersAssumption, RenderQueue!Lying
    <2>3. Once' /\ FirstBackup'
        BY <1>2, <1>4, <2>1, PlacesStay, BackupsStay DEF r, BeforeBackup
    <2>4. WorkerKnows'
        BY <2>1 DEF WorkerKnows
    <2>5. UserKept'
        BY <1>2, <1>4 DEF UserKept, Aside, RenderQueue!Lying
    <2> QED BY <2>2, <2>3, <2>4, <2>5
<1> QED BY <1>1, <1>3, <1>4, MadeIsVideo DEF RenderQueue!MoveIn

\* What lies at the output is set aside for a render that has nothing aside yet.
LEMMA BackupKeeps ==
    ASSUME RendersAssumption, RenderInv, RenderQueue!SetAside PROVE RenderInv'
<1> USE DEF RenderInv
<1> DEFINE r == engine.render  p == TargetOf[r]
<1>1. /\ engine.pc = "set aside" /\ r \in Renders /\ p \in VideoOutputs
      /\ hidden[r] = "video" /\ r \in Consenting
    BY DEF RenderQueue!SetAside, RenderQueue!At, RenderShapes, Engines, WorkerKnows,
           RendersAssumption
<1>2. UNCHANGED <<renderRow, queue, submitting, stopping, hidden, owned>>
    BY DEF RenderQueue!SetAside
<1>3. previous[r] = None
    BY <1>1 DEF FirstBackup, Ahead, Takes, BeforeBackup
<1>4. CASE /\ previous' = [previous EXCEPT ![r] = output[p]]
           /\ output' = [output EXCEPT ![p] = None] /\ RenderQueue!GoesTo("replace")
    <2>1. engine' \in Engines /\ engine'.render = r /\ engine'.pc = "replace"
        BY <1>4, GoingTo DEF RenderShapes, EngineSteps
    <2> HIDE DEF r, p
    <2>2. RenderShapes'
        BY <1>1, <1>2, <1>4, <2>1 DEF RenderShapes, OutputContents, RendersAssumption
    <2>3. Once'
        BY <1>2, <2>1, PlacesStay DEF r
    <2>4. FirstBackup'
        <3>1. renderRow[r] # "none" /\ submitting[r] = "idle" /\ ~Queued(r)
            BY <1>1 DEF Once, Takes, r
        <3> QED
            BY <1>1, <1>2, <1>4, <2>1, <3>1 DEF FirstBackup, Ahead, Queued, Takes,
                   RenderShapes, BeforeBackup, r
    <2>5. UserKept'
        <3> SUFFICES ASSUME NEW q \in owned
                     PROVE  \/ output'[q] = "user"
                            \/ \E s \in Renders : TargetOf[s] = q /\ previous'[s] = "user"
            BY <1>2 DEF UserKept, Aside
        <3>1. CASE q = p /\ output[p] = "user"
            BY <1>1, <1>4, <3>1 DEF RenderShapes, p
        <3>2. CASE q # p /\ output[q] = "user"
            BY <1>4, <3>2 DEF RenderShapes
        <3>3. CASE output[q] # "user"
            <4>1. PICK s \in Renders : TargetOf[s] = q /\ previous[s] = "user"
                BY <3>3 DEF UserKept, Aside
            <4> QED BY <1>1, <1>3, <1>4, <4>1 DEF RenderShapes, RendersAssumption
        <3> QED BY <3>1, <3>2, <3>3
    <2>6. WorkerKnows'
        <3>1. output'[p] = None
            BY <1>1, <1>4 DEF RenderShapes
        <3>2. p \in owned' => \E s \in Renders : TargetOf[s] = p /\ previous'[s] = "user"
            BY <2>5, <3>1 DEF UserKept, Aside, RendersAssumption
        <3> QED BY <1>1, <1>2, <2>1, <3>2 DEF WorkerKnows, Aside, p, r
    <2> QED BY <2>2, <2>3, <2>4, <2>5, <2>6
<1>5. CASE UNCHANGED <<output, previous>> /\ RenderQueue!GoesTo("failed")
    <2>1. engine' \in Engines /\ engine'.render = r /\ engine'.pc = "failed"
        BY <1>5, GoingTo DEF RenderShapes, EngineSteps
    <2>2. RenderShapes'
        BY <1>1, <1>2, <1>5, <2>1 DEF RenderShapes
    <2>3. Once' /\ FirstBackup'
        BY <1>2, <1>5, <2>1, PlacesStay, BackupsStay DEF BeforeBackup
    <2>4. WorkerKnows' /\ UserKept'
        BY <1>2, <1>5, <2>1 DEF WorkerKnows, UserKept, Aside
    <2> QED BY <2>2, <2>3, <2>4
<1> QED BY <1>4, <1>5 DEF RenderQueue!SetAside

\* The video takes the place of what was set aside, or that comes back, or stays aside.
LEMMA ReplaceKeeps ==
    ASSUME RendersAssumption, RenderInv, RenderQueue!Replace PROVE RenderInv'
<1> USE DEF RenderInv
<1> DEFINE r == engine.render  p == TargetOf[r]
<1>1. /\ engine.pc = "replace" /\ r \in Renders /\ p \in VideoOutputs
      /\ hidden[r] = "video" /\ r \in Consenting /\ (p \in owned => Aside(p))
    BY DEF RenderQueue!Replace, RenderQueue!At, RenderShapes, Engines, WorkerKnows,
           RendersAssumption
<1>2. UNCHANGED <<renderRow, queue, submitting, stopping>>
    BY DEF RenderQueue!Replace
<1>3. renderRow[r] # "none" /\ submitting[r] = "idle" /\ ~Queued(r)
    BY <1>1 DEF Once, Takes
<1>4. CASE RenderQueue!GoesTo("drop previous") /\ UNCHANGED previous
           /\ output' = [output EXCEPT ![p] = r]
           /\ hidden' = [hidden EXCEPT ![r] = None]
           /\ owned' = IF previous[r] = "user" /\ r \in Consenting THEN owned \ {p}
                                                                    ELSE owned
    <2>1. engine' \in Engines /\ engine'.render = r /\ engine'.pc = "drop previous"
        BY <1>4, GoingTo DEF RenderShapes, EngineSteps
    <2> HIDE DEF r, p
    <2>2. RenderShapes'
        BY <1>1, <1>2, <1>4, <2>1 DEF RenderShapes, OutputContents, RendersAssumption
    <2>3. Once' /\ FirstBackup'
        BY <1>2, <1>4, <2>1, PlacesStay, BackupsStay DEF r, BeforeBackup
    <2>4. WorkerKnows'
        BY <1>1, <1>4, <2>1 DEF WorkerKnows, RenderShapes, p, RendersAssumption
    <2>5. UserKept'
        <3> SUFFICES ASSUME NEW q \in owned', output'[q] # "user" PROVE Aside(q)
            BY <1>4 DEF UserKept, Aside
        <3>1. q \in owned
            BY <1>4
        <3>2. CASE q = p
            BY <1>1, <3>1, <3>2
        <3>3. CASE q # p
            BY <1>4, <3>1, <3>3 DEF UserKept, RenderShapes
        <3> QED BY <3>2, <3>3
    <2> QED BY <2>2, <2>3, <2>4, <2>5
<1>5. CASE /\ RenderQueue!GoesTo("failed") /\ UNCHANGED hidden
           /\ owned' = owned \cup RenderQueue!Lying(output')
           /\ output' = [output EXCEPT ![p] = previous[r]]
           /\ previous' = [previous EXCEPT ![r] = None]
    <2>1. engine' \in Engines /\ engine'.render = r /\ engine'.pc = "failed"
        BY <1>5, GoingTo DEF RenderShapes, EngineSteps
    <2> HIDE DEF r, p
    <2>2. RenderShapes'
        <3>1. output' \in [VideoOutputs -> OutputContents]
            BY <1>1, <1>5 DEF RenderShapes
        <3>2. previous' \in [Renders -> OutputContents]
            BY <1>1, <1>5 DEF RenderShapes, OutputContents
        <3>3. owned' \subseteq VideoOutputs
            BY <1>5 DEF RenderShapes, RenderQueue!Lying
        <3> QED
            BY <1>1, <1>2, <1>5, <2>1, <3>1, <3>2, <3>3 DEF RenderShapes, RendersAssumption
    <2>3. Once'
        BY <1>2, <2>1, PlacesStay DEF r
    <2>4. FirstBackup'
        BY <1>2, <1>3, <1>5, <2>1
           DEF FirstBackup, Ahead, Queued, Takes, RenderShapes, BeforeBackup
    <2>5. WorkerKnows'
        BY <2>1 DEF WorkerKnows
    <2>6. UserKept'
        <3> SUFFICES ASSUME NEW q \in owned', output'[q] # "user" PROVE Aside(q)'
            BY DEF UserKept
        <3>1. q \in owned
            BY <1>5 DEF RenderQueue!Lying
        <3>2. Aside(q)
            BY <1>1, <1>5, <3>1 DEF UserKept, RenderShapes
        <3>3. PICK s \in Renders : TargetOf[s] = q /\ previous[s] = "user"
            BY <3>2 DEF Aside
        <3>4. s # r
            BY <1>1, <1>5, <3>1, <3>3 DEF RenderShapes, p
        <3>5. previous'[s] = "user"
            BY <1>5, <3>3, <3>4 DEF RenderShapes
        <3> QED BY <3>3, <3>5 DEF Aside
    <2> QED BY <2>2, <2>3, <2>4, <2>5, <2>6
<1>6. CASE /\ RenderQueue!GoesTo("failed") /\ UNCHANGED <<hidden, output, previous>>
           /\ owned' = owned \cup RenderQueue!Lying(output')
    <2>1. engine' \in Engines /\ engine'.render = r /\ engine'.pc = "failed"
        BY <1>6, GoingTo DEF RenderShapes, EngineSteps
    <2> HIDE DEF r, p
    <2>2. RenderShapes'
        BY <1>1, <1>2, <1>6, <2>1 DEF RenderShapes, RendersAssumption, RenderQueue!Lying
    <2>3. Once' /\ FirstBackup'
        BY <1>2, <1>6, <2>1, PlacesStay, BackupsStay DEF r, BeforeBackup
    <2>4. WorkerKnows'
        BY <2>1 DEF WorkerKnows
    <2>5. UserKept'
        BY <1>6 DEF UserKept, Aside, RenderQueue!Lying
    <2> QED BY <2>2, <2>3, <2>4, <2>5
<1> QED BY <1>1, <1>4, <1>5, <1>6, MadeIsVideo DEF RenderQueue!Replace

\* What was set aside goes only when it is not the user's, or was replaced with consent.
LEMMA DropPreviousKeeps ==
    ASSUME RendersAssumption, RenderInv, RenderQueue!DropPrevious PROVE RenderInv'
<1> USE DEF RenderInv
<1> DEFINE r == engine.render  p == TargetOf[r]
<1>1. /\ engine.pc = "drop previous" /\ r \in Renders /\ p \in VideoOutputs
      /\ previous[r] = "user" => p \notin owned
    BY DEF RenderQueue!DropPrevious, RenderQueue!At, RenderShapes, Engines, WorkerKnows,
           RendersAssumption
<1>2. /\ UNCHANGED <<renderRow, queue, submitting, stopping, hidden, output, owned>>
      /\ RenderQueue!GoesTo("done")
    BY DEF RenderQueue!DropPrevious
<1>3. renderRow[r] # "none" /\ submitting[r] = "idle" /\ ~Queued(r)
    BY <1>1 DEF Once, Takes
<1>4. engine' \in Engines /\ engine'.render = r /\ engine'.pc = "done"
    BY <1>2, GoingTo DEF RenderShapes, EngineSteps
<1>5. previous' = [previous EXCEPT ![r] = None] \/ previous' = previous
    BY DEF RenderQueue!DropPrevious
<1> HIDE DEF r, p
<1>6. RenderShapes'
    BY <1>1, <1>2, <1>4, <1>5 DEF RenderShapes, OutputContents, RendersAssumption
<1>7. Once'
    BY <1>2, <1>4, PlacesStay DEF r
<1>8. FirstBackup'
    BY <1>2, <1>3, <1>4, <1>5
       DEF FirstBackup, Ahead, Queued, Takes, RenderShapes, BeforeBackup
<1>9. WorkerKnows'
    BY <1>4 DEF WorkerKnows
<1>10. UserKept'
    <2> SUFFICES ASSUME NEW q \in owned, output[q] # "user"
                 PROVE  \E s \in Renders : TargetOf[s] = q /\ previous'[s] = "user"
        BY <1>2 DEF UserKept, Aside
    <2>1. PICK s \in Renders : TargetOf[s] = q /\ previous[s] = "user"
        BY DEF UserKept, Aside
    <2>2. s # r
        BY <1>1, <2>1 DEF p
    <2> QED BY <1>5, <2>1, <2>2 DEF RenderShapes
<1> QED BY <1>6, <1>7, <1>8, <1>9, <1>10

\* The last rows of a render, and its end.
LEMMA EndKeeps ==
    ASSUME RendersAssumption, RenderInv, RenderQueue!FinishRow \/ RenderQueue!EndRow
    PROVE  RenderInv'
<1> USE DEF RenderInv
<1>1. RenderQueue!GoesTo("leaving") /\ engine.pc \in {"done", "failed", "cancelled"}
    BY DEF RenderQueue!FinishRow, RenderQueue!EndRow, RenderQueue!At
<1>2. engine' \in Engines /\ engine'.render = engine.render /\ engine'.pc = "leaving"
    BY <1>1, GoingTo DEF RenderShapes, EngineSteps
<1>3. /\ renderRow' \in [Renders -> {"none", "queued", "running"} \cup RenderQueue!Finished]
      /\ \A s \in Renders : renderRow'[s] = "none" => renderRow[s] = "none"
    <2>1. PICK status \in {"running"} \cup RenderQueue!Finished : RenderQueue!Writes(engine.render, status)
        BY <1>1 DEF RenderQueue!FinishRow, RenderQueue!EndRow, RenderQueue!Finished
    <2> QED BY <2>1, RowsWritten
<1>4. hidden' \in [Renders -> {None, "piece", "video"}]
    BY DEF RenderQueue!FinishRow, RenderQueue!EndRow, RenderShapes, RenderQueue!Files
<1>5. UNCHANGED <<queue, submitting, stopping, previous, output, owned>>
    BY DEF RenderQueue!FinishRow, RenderQueue!EndRow, RenderQueue!Files
<1>6. RenderShapes'
    BY <1>1, <1>2, <1>3, <1>4, <1>5 DEF RenderShapes
<1>7. Once' /\ FirstBackup'
    BY <1>1, <1>2, <1>3, <1>5, PlacesStay, BackupsStay DEF BeforeBackup
<1>8. WorkerKnows' /\ UserKept'
    BY <1>2, <1>5 DEF WorkerKnows, UserKept, Aside
<1> QED BY <1>6, <1>7, <1>8

\* The worker lets go of a render that has ended.
LEMMA LeaveKeeps ==
    ASSUME RendersAssumption, RenderInv, RenderQueue!LeaveRender PROVE RenderInv'
<1> USE DEF RenderInv
<1>1. engine' \in Engines /\ engine'.pc = "waiting" /\ engine'.render = None
    BY WaitingShape DEF RenderQueue!LeaveRender
<1>2. UNCHANGED <<renderRow, queue, submitting, stopping, RenderQueue!Files>>
    BY DEF RenderQueue!LeaveRender
<1>3. RenderShapes'
    BY <1>1, <1>2 DEF RenderShapes, RenderQueue!Files
<1>4. Once' /\ FirstBackup'
    BY <1>1, <1>2 DEF Once, FirstBackup, Ahead, Queued, Takes, RenderQueue!Files,
           RendersAssumption, BeforeBackup
<1>5. WorkerKnows' /\ UserKept'
    BY <1>1, <1>2 DEF WorkerKnows, UserKept, Aside, RenderQueue!Files
<1> QED BY <1>3, <1>4, <1>5

(***************************************************************************)
(* The user's files, and a crash.                                          *)
(***************************************************************************)
\* What the user writes himself is his, while the worker sees it.
LEMMA UserWritesKeeps ==
    ASSUME RendersAssumption, RenderInv, NEW p \in VideoOutputs, RenderQueue!UserWrites(p)
    PROVE  RenderInv'
<1> USE DEF RenderInv
<1>1. RenderShapes'
    BY DEF RenderQueue!UserWrites, RenderShapes, OutputContents
<1>2. Once' /\ FirstBackup'
    BY DEF RenderQueue!UserWrites, Once, FirstBackup, Ahead, Queued, Takes
<1>3. WorkerKnows'
    <2>1. engine.pc # "waiting" => TargetOf[engine.render] \in VideoOutputs
        BY DEF RenderShapes, Engines, RendersAssumption
    <2>2. UNCHANGED <<engine, hidden, previous>>
        BY DEF RenderQueue!UserWrites
    <2>3. engine.pc \in {"move", "replace"} /\ TargetOf[engine.render] \in owned'
              => TargetOf[engine.render] \in owned
        BY DEF RenderQueue!UserWrites, RenderQueue!Unseen
    <2>4. engine.pc = "drop previous" => TargetOf[engine.render] # p
        BY DEF RenderQueue!UserWrites, WorkerKnows
    <2> QED
        BY <2>1, <2>2, <2>3, <2>4
           DEF RenderQueue!UserWrites, WorkerKnows, Aside, RenderShapes, RendersAssumption
<1>4. UserKept'
    BY DEF RenderQueue!UserWrites, UserKept, Aside, RenderShapes
<1> QED BY <1>1, <1>2, <1>3, <1>4

\* What was in the queue or with the worker is lost; what was set aside stays.
LEMMA CrashKeeps ==
    ASSUME RendersAssumption, RenderInv, RenderQueue!CrashRenders PROVE RenderInv'
<1> USE DEF RenderInv
<1>1. engine' \in Engines /\ engine'.pc = "waiting" /\ engine'.render = None
    BY WaitingShape DEF RenderQueue!CrashRenders
<1>2. queue' \in Seq(Renders) /\ Len(queue') = 0
    BY DEF RenderQueue!CrashRenders
<1>3. \A r \in Renders : renderRow'[r] = "none" => renderRow[r] = "none"
    BY DEF RenderQueue!CrashRenders
<1>4. /\ UNCHANGED <<hidden, previous, output>>
      /\ owned' = owned \cup RenderQueue!Lying(output)
    BY DEF RenderQueue!CrashRenders
<1>5. RenderShapes'
    <2>1. /\ renderRow' \in [Renders -> {"none", "queued", "running"} \cup RenderQueue!Finished]
          /\ submitting' \in [Renders -> {"idle", "flag", "send"}]
          /\ stopping' \in [Renders -> {None, "queued", "running"}]
        BY DEF RenderQueue!CrashRenders, RenderShapes, RenderQueue!Finished
    <2>2. owned' \subseteq VideoOutputs
        BY <1>4 DEF RenderShapes, RenderQueue!Lying
    <2>3. /\ hidden' \in [Renders -> {None, "piece", "video"}]
          /\ previous' \in [Renders -> OutputContents]
          /\ output' \in [VideoOutputs -> OutputContents]
        BY <1>4 DEF RenderShapes, OutputContents
    <2> QED BY <1>1, <1>2, <2>1, <2>2, <2>3 DEF RenderShapes
<1>6. Once' /\ FirstBackup'
    <2>1. \A r \in Renders : submitting'[r] = "idle" /\ ~Queued(r)' /\ ~Takes(r)'
        BY <1>1, <1>2 DEF RenderQueue!CrashRenders, Queued, Takes, RendersAssumption
    <2>2. Once'
        BY <1>2, <2>1 DEF Once
    <2>3. previous' = previous
        BY <1>4
    <2>4. FirstBackup'
        BY <1>3, <2>1, <2>3 DEF FirstBackup, Ahead
    <2> QED BY <2>2, <2>4
<1>7. WorkerKnows' /\ UserKept'
    BY <1>1, <1>4 DEF WorkerKnows, UserKept, Aside, RenderQueue!Lying
<1> QED BY <1>5, <1>6, <1>7

\* Every step of the renders keeps the invariant.
LEMMA RenderStep ==
    ASSUME RendersAssumption, RenderInv, [RenderQueue!RenderNext]_RenderQueue!renderVars
    PROVE  RenderInv'
<1>1. CASE RenderQueue!Engine
    BY <1>1, ReceiveKeeps, MarkRunningKeeps, EncoderKeeps, InstallKeeps, MoveInKeeps,
       BackupKeeps, ReplaceKeeps, DropPreviousKeeps, EndKeeps, LeaveKeeps DEF RenderQueue!Engine
<1>2. CASE RenderQueue!CrashRenders
    BY <1>2, CrashKeeps
<1>3. ASSUME NEW r \in Renders,
             RenderQueue!Submit(r) \/ RenderQueue!Submitter(r) \/ RenderQueue!CancelRender(r) \/ RenderQueue!CancelMarks(r)
      PROVE  RenderInv'
    BY <1>3, SubmitKeeps, AttachFlagKeeps, RenderSendKeeps, CancelRenderKeeps,
       CancelMarksKeeps
       DEF RenderQueue!Submitter
<1>4. ASSUME NEW p \in VideoOutputs, RenderQueue!UserWrites(p) PROVE RenderInv'
    BY <1>4, UserWritesKeeps
<1>5. CASE UNCHANGED RenderQueue!renderVars
    <2>1. RenderShapes'
        BY <1>5 DEF RenderQueue!renderVars, RenderQueue!Files, RenderInv, RenderShapes
    <2>2. Once' /\ FirstBackup'
        BY <1>5 DEF RenderQueue!renderVars, RenderQueue!Files, RenderInv, Once,
               FirstBackup, Ahead, Queued, Takes
    <2>3. WorkerKnows' /\ UserKept'
        BY <1>5 DEF RenderQueue!renderVars, RenderQueue!Files, RenderInv, WorkerKnows,
               UserKept, Aside
    <2> QED BY <2>1, <2>2, <2>3 DEF RenderInv
<1> QED BY <1>1, <1>2, <1>3, <1>4, <1>5 DEF RenderQueue!RenderNext

\* The invariant says that the files of the user are safe (install_rendered_output).
LEMMA OutputsKept == RenderInv => RenderQueue!OutputSafe
    BY DEF RenderInv, RenderShapes, UserKept, Aside, RenderQueue!OutputSafe, OutputContents

\* What lies at an output is a whole video or a file of the user, and a file of the user is
\* there, or set aside, until a whole video takes its place with consent, for any renders
\* to any outputs, through cancellations, failed renames, crashes at every step and files
\* that appear during the rendering (local_render_service.rs, install_rendered_output). A
\* file that appears after the look at the output, or between the two renames, is in this
\* only once the renames are over: the code overwrites it (RenderQueue!Unseen).
THEOREM OutputsSafe ==
    ASSUME RendersAssumption
    PROVE  RenderQueue!RenderSpec => []RenderQueue!OutputSafe
<1>1. RenderQueue!RenderInit => RenderInv
    BY RendersInitially
<1>2. RenderInv /\ [RenderQueue!RenderNext]_RenderQueue!renderVars => RenderInv'
    BY RenderStep
<1>3. RenderInv => RenderQueue!OutputSafe
    BY OutputsKept
<1> QED BY <1>1, <1>2, <1>3, PTL DEF RenderQueue!RenderSpec

(***************************************************************************)
(* MediaServing: what is sent is what was asked for.                       *)
(*                                                                         *)
(* What was sent and what is left to send are, one after the other, the    *)
(* positions that the request promised; nothing left goes past the length  *)
(* the file had when it was opened, and what was read is no newer than     *)
(* the open file. What a sequence of sequences flattens to comes first.    *)
(***************************************************************************)
file == x1
registered == x2
reply == x3
pieces == x4
body == x7
ending == x8
USE DEF file, registered, reply, pieces, handle, writes, body, ending

\* What holds of 0, and of each number after one of which it holds.
LEMMA Climb ==
    ASSUME NEW n \in Nat, NEW T, 0 \in T, \A k \in 0..n - 1 : k \in T => k + 1 \in T
    PROVE  0..n \subseteq T
<1> DEFINE B == (0..n) \ T
           R == {ss \in Nat \X Nat : ss[1] < ss[2]}
<1> SUFFICES ASSUME B # {} PROVE FALSE
    OBVIOUS
<1>1. PICK x \in B : \A y \in B : ~ (<<y, x>> \in R)
    <2>1. IsWellFoundedOn(R, Nat)
        BY NatLessThanWellFounded DEF OpToRel
    <2>2. B \subseteq Nat
        OBVIOUS
    <2> HIDE DEF B, R
    <2> QED
        BY <2>1, <2>2, WFMin
<1>2. x \in Nat /\ x > 0 /\ x - 1 \in 0..n - 1
    BY DEF B
<1>3. x - 1 \notin T
    BY <1>2
<1>4. x - 1 \in B
    BY <1>2, <1>3
<1>5. <<x - 1, x>> \in R
    BY <1>2
<1> QED
    BY <1>1, <1>4, <1>5

\* Two sequences, one after the other.
After(x, y) == x \o y

\* It is a sequence.
LEMMA AfterIsSeq ==
    ASSUME NEW V, NEW x \in Seq(V), NEW y \in Seq(V)
    PROVE  After(x, y) \in Seq(V) /\ Len(After(x, y)) = Len(x) + Len(y)
    BY ConcatProperties DEF After

\* The empty sequence adds nothing.
LEMMA AfterEmpty ==
    ASSUME NEW V, NEW x \in Seq(V)
    PROVE  After(x, <<>>) = x /\ After(<<>>, x) = x
    BY ConcatEmptySeq DEF After

\* Three sequences may be joined in either order.
LEMMA AfterAfter ==
    ASSUME NEW V, NEW x \in Seq(V), NEW y \in Seq(V), NEW z \in Seq(V)
    PROVE  After(After(x, y), z) = After(x, After(y, z))
    BY ConcatAssociative DEF After

\* The sequences that one after the other leads to.
Gathers(V, s, h) ==
/\ h \in [0..Len(s) -> Seq(V)] /\ h[0] = <<>>
/\ \A k \in 1..Len(s) : h[k] = After(h[k - 1], s[k])

\* They exist.
LEMMA JoinsExist ==
    ASSUME NEW V, NEW s \in Seq(Seq(V)) PROVE \E h : Gathers(V, s, h)
<1> DEFINE n == Len(s)
           P(k, h) == /\ h \in [0..k -> Seq(V)] /\ h[0] = <<>>
                      /\ \A i \in 1..k : h[i] = After(h[i - 1], s[i])
           T == {k \in 0..n : \E h : P(k, h)}
<1>1. n \in Nat /\ \A k \in 1..n : s[k] \in Seq(V)
    BY LenProperties, ElementOfSeq
<1>2. 0 \in T
    <2>1. P(0, [i \in 0..0 |-> <<>>])
        BY EmptySeq
    <2> HIDE DEF P
    <2> QED
        BY <2>1, <1>1
<1>3. ASSUME NEW k \in 0..n - 1, k \in T PROVE k + 1 \in T
    <2>1. PICK h : P(k, h)
        BY <1>3
    <2> DEFINE g == [i \in 0..k + 1 |-> IF i <= k THEN h[i] ELSE After(h[k], s[k + 1])]
    <2>2. s[k + 1] \in Seq(V) /\ h[k] \in Seq(V) /\ k \in Nat
        BY <1>1, <2>1
    <2>3. After(h[k], s[k + 1]) \in Seq(V)
        BY <2>2, AfterIsSeq
    <2>4. g \in [0..k + 1 -> Seq(V)] /\ g[0] = <<>>
        BY <2>1, <2>2, <2>3
    <2>5. ASSUME NEW i \in 1..k + 1 PROVE g[i] = After(g[i - 1], s[i])
        <3>1. CASE i <= k
            BY <3>1, <2>1, <2>2
        <3>2. CASE i = k + 1
            BY <3>2, <2>2
        <3> QED
            BY <3>1, <3>2, <2>2
    <2>6. P(k + 1, g)
        BY <2>4, <2>5
    <2> HIDE DEF P, g
    <2> QED
        BY <2>6, <1>1
<1>4. 0..n \subseteq T
    <2> HIDE DEF T
    <2> QED
        BY <1>1, <1>2, <1>3, Climb
<1>5. n \in T
    <2> HIDE DEF T
    <2> QED
        BY <1>1, <1>4
<1> QED
    BY <1>5 DEF Gathers

\* FlattenSeq is the last of them.
LEMMA FlattenIs ==
    ASSUME NEW V, NEW s \in Seq(Seq(V)), NEW h, Gathers(V, s, h)
    PROVE  Media!FlattenSeq(s) = h[Len(s)]
<1> DEFINE n == Len(s)
           step(f) == [i \in 1..n |-> IF i = 1 THEN s[i] ELSE After(f[i - 1], s[i])]
           f == CHOOSE f : f = step(f)
<1>1. n \in Nat /\ \A k \in 1..n : s[k] \in Seq(V)
    BY LenProperties, ElementOfSeq
<1>0. /\ h \in [0..n -> Seq(V)] /\ h[0] = <<>>
      /\ \A k \in 1..n : h[k] = After(h[k - 1], s[k])
    BY DEF Gathers
<1>2. CASE n = 0
    <2>1. s = <<>>
        BY <1>2, <1>1, EmptySeq
    <2> QED
        BY <1>2, <2>1, <1>0 DEF Media!FlattenSeq
<1>3. CASE n # 0
    <2>0. Media!FlattenSeq(s) = f[n]
        BY <1>3, <1>1 DEF Media!FlattenSeq, After
    <2> DEFINE g == [i \in 1..n |-> h[i]]
    <2>1. \A i \in 1..n : g[i] = IF i = 1 THEN s[i] ELSE After(g[i - 1], s[i])
        <3> TAKE i \in 1..n
        <3>1. h[i] = After(h[i - 1], s[i]) /\ s[i] \in Seq(V) /\ g[i] = h[i]
            BY <1>1, <1>0
        <3>2. CASE i = 1
            <4>1. After(<<>>, s[i]) = s[i]
                BY <3>1, AfterEmpty
            <4> QED
                BY <3>1, <3>2, <4>1, <1>0
        <3>3. CASE i # 1
            <4>1. g[i - 1] = h[i - 1]
                BY <3>3, <1>1
            <4> QED
                BY <3>1, <3>3, <4>1
        <3> QED
            BY <3>2, <3>3
    <2>2. g = step(g)
        BY <2>1
    <2>3. f = step(f)
        <3> HIDE DEF g
        <3> QED
            BY <2>2
    <2> DEFINE T == {k \in 0..n : k = 0 \/ f[k] = h[k]}
    <2>5. \A i \in 1..n : f[i] = IF i = 1 THEN s[i] ELSE After(f[i - 1], s[i])
        <3> HIDE DEF f
        <3> QED
            BY <2>3
    <2> HIDE DEF f
    <2>6. 0 \in T
        BY <1>1
    <2>7. ASSUME NEW k \in 0..n - 1, k \in T PROVE k + 1 \in T
        <3>1. k + 1 \in 1..n /\ k \in Nat /\ s[k + 1] \in Seq(V) /\ (k + 1) - 1 = k
            BY <1>1
        <3>2. h[k + 1] = After(h[k], s[k + 1])
            BY <3>1, <1>0
        <3>3. CASE k = 0
            <4>1. After(<<>>, s[1]) = s[1]
                BY <3>1, <3>3, <1>1, AfterEmpty
            <4> QED
                BY <3>1, <3>2, <3>3, <4>1, <2>5, <1>0, <1>1
        <3>4. CASE k # 0
            BY <3>1, <3>2, <3>4, <2>5, <2>7, <1>1
        <3> QED
            BY <3>3, <3>4
    <2>8. 0..n \subseteq T
        <3> HIDE DEF T
        <3> QED
            BY <1>1, <2>6, <2>7, Climb
    <2>9. n \in 0..n
        BY <1>1
    <2> QED
        BY <2>0, <2>8, <2>9, <1>3
<1> QED
    BY <1>2, <1>3

\* It is a sequence of the same things.
LEMMA FlattenJoins ==
    ASSUME NEW V, NEW s \in Seq(Seq(V))
    PROVE  /\ Media!FlattenSeq(s) \in Seq(V)
           /\ \E h : Gathers(V, s, h) /\ Media!FlattenSeq(s) = h[Len(s)]
<1>1. PICK h : Gathers(V, s, h)
    BY JoinsExist
<1>2. Media!FlattenSeq(s) = h[Len(s)]
    BY <1>1, FlattenIs
<1>3. h[Len(s)] \in Seq(V)
    BY <1>1, LenProperties DEF Gathers
<1> QED
    BY <1>1, <1>2, <1>3

\* One more sequence at the end.
LEMMA FlattenAppend ==
    ASSUME NEW V, NEW s \in Seq(Seq(V)), NEW x \in Seq(V)
    PROVE  Media!FlattenSeq(Append(s, x)) = After(Media!FlattenSeq(s), x)
<1>1. PICK h : Gathers(V, s, h) /\ Media!FlattenSeq(s) = h[Len(s)]
    BY FlattenJoins
<1> DEFINE n == Len(s)
           t == Append(s, x)
           g == [k \in 0..n + 1 |-> IF k <= n THEN h[k] ELSE After(h[n], x)]
<1>2. /\ n \in Nat /\ t \in Seq(Seq(V)) /\ Len(t) = n + 1 /\ t[n + 1] = x
      /\ \A k \in 1..n : t[k] = s[k]
    BY AppendProperties, LenProperties
<1> HIDE DEF t
<1>3. h[n] \in Seq(V) /\ After(h[n], x) \in Seq(V)
    <2>1. h[n] \in Seq(V)
        <3>1. h \in [0..n -> Seq(V)] /\ n \in 0..n
            BY <1>1, <1>2 DEF Gathers
        <3> HIDE DEF n
        <3> QED
            BY <3>1
    <2> QED
        BY <2>1, AfterIsSeq
<1>4. g \in [0..n + 1 -> Seq(V)] /\ g[0] = <<>>
    BY <1>1, <1>2, <1>3 DEF Gathers
<1>5. ASSUME NEW k \in 1..n + 1 PROVE g[k] = After(g[k - 1], t[k])
    <2>1. CASE k <= n
        BY <2>1, <1>1, <1>2 DEF Gathers
    <2>2. CASE k = n + 1
        BY <2>2, <1>2
    <2> QED
        BY <2>1, <2>2, <1>2
<1>6. Gathers(V, t, g)
    <2> HIDE DEF g
    <2> QED
        BY <1>2, <1>4, <1>5 DEF Gathers
<1>7. Media!FlattenSeq(t) = g[Len(t)]
    BY <1>2, <1>6, FlattenIs
<1>8. g[Len(t)] = After(h[n], x)
    BY <1>2
<1> QED
    BY <1>1, <1>7, <1>8 DEF t

\* One more at the beginning.
LEMMA FlattenFirst ==
    ASSUME NEW V, NEW s \in Seq(Seq(V)), s # <<>>
    PROVE  Media!FlattenSeq(s) = After(Head(s), Media!FlattenSeq(Tail(s)))
<1> DEFINE t == Tail(s)
           m == Len(t)
           x == Head(s)
<1>1. /\ t \in Seq(Seq(V)) /\ m = Len(s) - 1 /\ Len(s) \in Nat /\ Len(s) # 0
      /\ \A i \in 1..m : t[i] = s[i + 1]
      /\ x \in Seq(V) /\ s[1] = x
    BY HeadTailProperties, LenProperties, EmptySeq, ElementOfSeq
<1> HIDE DEF t, x
<1>2. PICK h : Gathers(V, t, h) /\ Media!FlattenSeq(t) = h[m]
    BY <1>1, FlattenJoins
<1> DEFINE g == [k \in 0..m + 1 |-> IF k = 0 THEN <<>> ELSE After(x, h[k - 1])]
<1>3. \A k \in 0..m : h[k] \in Seq(V) /\ After(x, h[k]) \in Seq(V)
    BY <1>1, <1>2, AfterIsSeq DEF Gathers
<1>4. m \in Nat /\ Len(s) = m + 1
    BY <1>1
<1>5. g \in [0..Len(s) -> Seq(V)] /\ g[0] = <<>>
    BY <1>3, <1>4, EmptySeq
<1>6. ASSUME NEW k \in 1..Len(s) PROVE g[k] = After(g[k - 1], s[k])
    <2>1. CASE k = 1
        <3>1. g[k] = After(x, <<>>) /\ g[k - 1] = <<>> /\ s[k] = x
            BY <2>1, <1>1, <1>2, <1>4 DEF Gathers
        <3> QED
            BY <3>1, <1>1, AfterEmpty
    <2>2. CASE k # 1
        <3>1. k - 1 \in 1..m /\ k - 2 \in 0..m /\ k \in 0..m + 1 /\ k - 1 \in 0..m + 1 /\ k # 0
              /\ k - 1 # 0 /\ (k - 1) + 1 = k /\ (k - 1) - 1 = k - 2
            BY <2>2, <1>4
        <3>2. g[k] = After(x, h[k - 1]) /\ g[k - 1] = After(x, h[k - 2])
            BY <3>1
        <3>3. h[k - 1] = After(h[k - 2], t[k - 1]) /\ t[k - 1] = s[k]
            BY <3>1, <1>1, <1>2 DEF Gathers
        <3>4. t[k - 1] \in Seq(V) /\ h[k - 2] \in Seq(V)
            BY <3>1, <1>1, <1>3, ElementOfSeq
        <3>5. After(x, After(h[k - 2], t[k - 1])) = After(After(x, h[k - 2]), t[k - 1])
            BY <3>4, <1>1, AfterAfter
        <3> HIDE DEF g
        <3> QED
            BY <3>2, <3>3, <3>5
    <2> QED
        BY <2>1, <2>2
<1>7. Gathers(V, s, g)
    <2> HIDE DEF g
    <2> QED
        BY <1>5, <1>6 DEF Gathers
<1>8. Media!FlattenSeq(s) = g[Len(s)]
    BY <1>7, FlattenIs
<1>9. g[Len(s)] = After(x, h[m])
    BY <1>4
<1> QED
    BY <1>2, <1>8, <1>9 DEF t, x

MediaAssumption ==
    /\ FileLengths \subseteq Nat /\ MaxRanges \in Nat /\ ReadSize \in Nat
    /\ Ranges \subseteq Seq([first : Nat \cup {None}, last : Nat \cup {None}])
    /\ None \notin Nat \cup {"complete", "error"} \cup [number : Nat, length : Nat, mark : Nat]
    /\ None \notin [status : {200, 206, 416}, declared : Nat, asked : Ranges, length : Nat, mark : Nat]
    /\ Frame \notin Nat \X Nat

BodyPieces == {Frame} \cup (Nat \X Nat)
Positions == {Frame} \cup Nat

\* The positions of a piece.
Of(p) == IF p = Frame THEN <<Frame>> ELSE [k \in 1..p[2] |-> p[1] + k - 1]
Each(rest) == [k \in DOMAIN rest |-> Of(rest[k])]
\* The positions that are left to send.
ToSend(rest) == Media!FlattenSeq(Each(rest))

\* They are as many as the piece says.
LEMMA OfIs ==
    ASSUME NEW p \in BodyPieces
    PROVE  /\ Of(p) \in Seq(Positions)
           /\ Len(Of(p)) = IF p = Frame THEN 1 ELSE p[2]
<1>1. CASE p = Frame
    BY <1>1 DEF Of, Positions
<1>2. CASE p # Frame
    <2>1. p[2] \in Nat /\ p[1] \in Nat
        BY <1>2 DEF BodyPieces
    <2> DEFINE e(k) == p[1] + k - 1
    <2>2. \A k \in 1..p[2] : e(k) \in Positions
        BY <2>1 DEF Positions
    <2>3. [k \in 1..p[2] |-> e(k)] \in Seq(Positions)
        <3> HIDE DEF e
        <3> QED
            BY <2>1, <2>2, IsASeq
    <2>4. Of(p) = [k \in 1..p[2] |-> e(k)]
        BY <1>2 DEF Of
    <2>5. Len([k \in 1..p[2] |-> e(k)]) = p[2]
        <3> HIDE DEF e
        <3> QED
            BY <2>1
    <2> HIDE DEF e
    <2> QED
        BY <1>2, <2>3, <2>4, <2>5
<1> QED
    BY <1>1, <1>2

\* Piece by piece.
LEMMA EachIs ==
    ASSUME NEW rest \in Seq(BodyPieces)
    PROVE  /\ Each(rest) \in Seq(Seq(Positions)) /\ Len(Each(rest)) = Len(rest)
           /\ \A k \in 1..Len(rest) : Each(rest)[k] = Of(rest[k])
<1>1. /\ Len(rest) \in Nat /\ DOMAIN rest = 1..Len(rest)
      /\ \A k \in 1..Len(rest) : rest[k] \in BodyPieces
    BY LenProperties, ElementOfSeq
<1> DEFINE e(k) == Of(rest[k])
<1>2. \A k \in 1..Len(rest) : e(k) \in Seq(Positions)
    BY <1>1, OfIs
<1>3. Each(rest) = [k \in 1..Len(rest) |-> e(k)]
    BY <1>1 DEF Each
<1>4. [k \in 1..Len(rest) |-> e(k)] \in Seq(Seq(Positions))
    <2> HIDE DEF e
    <2> QED
        BY <1>1, <1>2, IsASeq
<1>5. \A k \in 1..Len(rest) : Each(rest)[k] = e(k)
    BY <1>3
<1>6. Len([k \in 1..Len(rest) |-> e(k)]) = Len(rest)
    <2> HIDE DEF e
    <2> QED
        BY <1>1
<1> QED
    BY <1>3, <1>4, <1>5, <1>6

\* What is left to send is a sequence of positions.
LEMMA ToSendIs ==
    ASSUME NEW rest \in Seq(BodyPieces) PROVE ToSend(rest) \in Seq(Positions)
    BY EachIs, FlattenJoins DEF ToSend

\* Nothing is left of nothing.
LEMMA NothingToSend == ToSend(<<>>) = <<>>
<1>1. <<>> \in Seq(BodyPieces) /\ Len(<<>>) = 0
    BY EmptySeq
<1>2. Each(<<>>) \in Seq(Seq(Positions)) /\ Len(Each(<<>>)) = 0
    BY <1>1, EachIs
<1>3. Each(<<>>) = <<>>
    BY <1>2, EmptySeq
<1> QED
    BY <1>3 DEF ToSend, Media!FlattenSeq

\* One more piece.
LEMMA SendAfter ==
    ASSUME NEW rest \in Seq(BodyPieces), NEW p \in BodyPieces
    PROVE  ToSend(Append(rest, p)) = After(ToSend(rest), Of(p))
<1> DEFINE t == Append(rest, p)
           a == Append(Each(rest), Of(p))
<1>1. /\ t \in Seq(BodyPieces) /\ Len(t) = Len(rest) + 1 /\ t[Len(rest) + 1] = p
      /\ \A k \in 1..Len(rest) : t[k] = rest[k]
      /\ Len(rest) \in Nat
    BY AppendProperties, LenProperties
<1> HIDE DEF t
<1>2. /\ Each(t) \in Seq(Seq(Positions)) /\ Len(Each(t)) = Len(rest) + 1
      /\ \A k \in 1..Len(rest) + 1 : Each(t)[k] = Of(t[k])
    BY <1>1, EachIs
<1>3. /\ Each(rest) \in Seq(Seq(Positions)) /\ Len(Each(rest)) = Len(rest)
      /\ \A k \in 1..Len(rest) : Each(rest)[k] = Of(rest[k])
    BY EachIs
<1>4. Of(p) \in Seq(Positions)
    BY OfIs
<1>5. /\ a \in Seq(Seq(Positions)) /\ Len(a) = Len(rest) + 1 /\ a[Len(rest) + 1] = Of(p)
      /\ \A k \in 1..Len(rest) : a[k] = Each(rest)[k]
    BY <1>3, <1>4, AppendProperties
<1> HIDE DEF a
<1>6. ASSUME NEW k \in 1..Len(rest) + 1 PROVE Each(t)[k] = a[k]
    <2>1. CASE k = Len(rest) + 1
        BY <2>1, <1>1, <1>2, <1>5
    <2>2. CASE k \in 1..Len(rest)
        <3>1. Each(t)[k] = Of(t[k]) /\ t[k] = rest[k]
            BY <2>2, <1>1, <1>2
        <3>2. a[k] = Each(rest)[k] /\ Each(rest)[k] = Of(rest[k])
            BY <2>2, <1>3, <1>5
        <3> QED
            BY <3>1, <3>2
    <2> QED
        BY <2>1, <2>2, <1>1
<1>7. Each(t) = a
    BY <1>2, <1>5, <1>6, SeqEqual
<1> QED
    BY <1>7, <1>3, <1>4, FlattenAppend DEF ToSend, t, a

\* What is left is the next piece and the others.
LEMMA SendNext ==
    ASSUME NEW rest \in Seq(BodyPieces), rest # <<>>
    PROVE  ToSend(rest) = After(Of(Head(rest)), ToSend(Tail(rest)))
<1> DEFINE t == Tail(rest)
           b == Tail(Each(rest))
<1>1. /\ t \in Seq(BodyPieces) /\ Len(t) = Len(rest) - 1 /\ Len(rest) \in Nat /\ Len(rest) # 0
      /\ \A k \in 1..Len(t) : t[k] = rest[k + 1]
      /\ Head(rest) = rest[1]
    BY HeadTailProperties, LenProperties, EmptySeq
<1> HIDE DEF t
<1>2. /\ Each(t) \in Seq(Seq(Positions)) /\ Len(Each(t)) = Len(t)
      /\ \A k \in 1..Len(t) : Each(t)[k] = Of(t[k])
    BY <1>1, EachIs
<1>3. /\ Each(rest) \in Seq(Seq(Positions)) /\ Len(Each(rest)) = Len(rest)
      /\ \A k \in 1..Len(rest) : Each(rest)[k] = Of(rest[k])
    BY EachIs
<1>4. Each(rest) # <<>>
    BY <1>1, <1>3, EmptySeq
<1>5. /\ b \in Seq(Seq(Positions)) /\ Len(b) = Len(Each(rest)) - 1
      /\ \A k \in 1..Len(b) : b[k] = Each(rest)[k + 1]
    BY <1>3, <1>4, HeadTailProperties
<1> HIDE DEF b
<1>6. ASSUME NEW k \in 1..Len(t) PROVE Each(t)[k] = b[k]
    <2>1. k \in 1..Len(b) /\ k + 1 \in 1..Len(rest)
        BY <1>1, <1>3, <1>5
    <2>2. Each(t)[k] = Of(t[k]) /\ t[k] = rest[k + 1]
        BY <1>1, <1>2
    <2>3. b[k] = Each(rest)[k + 1] /\ Each(rest)[k + 1] = Of(rest[k + 1])
        BY <2>1, <1>3, <1>5
    <2> QED
        BY <2>2, <2>3
<1>7. Each(t) = b
    BY <1>1, <1>2, <1>3, <1>5, <1>6, SeqEqual
<1>8. Head(Each(rest)) = Of(Head(rest))
    BY <1>1, <1>3
<1>9. Media!FlattenSeq(Each(rest)) = After(Head(Each(rest)), Media!FlattenSeq(Tail(Each(rest))))
    BY <1>3, <1>4, FlattenFirst
<1> QED
    BY <1>7, <1>8, <1>9 DEF ToSend, t, b

\* What SizeOf counts.
LEMMA SizeIs ==
    ASSUME NEW rest \in Seq(BodyPieces) PROVE Media!SizeOf(rest) = Len(ToSend(rest))
<1> DEFINE n == Len(rest)
           size(k) == IF rest[k] = Frame THEN 1 ELSE rest[k][2]
           step(f) == [k \in 0..n |-> IF k = 0 THEN 0 ELSE f[k - 1] + size(k)]
           f == CHOOSE f : f = step(f)
<1>1. /\ n \in Nat /\ \A k \in 1..n : rest[k] \in BodyPieces
    BY LenProperties, ElementOfSeq
<1>2. PICK h : Gathers(Positions, Each(rest), h) /\ ToSend(rest) = h[Len(Each(rest))]
    BY EachIs, FlattenJoins DEF ToSend
<1>3. /\ h \in [0..n -> Seq(Positions)] /\ h[0] = <<>>
      /\ \A k \in 1..n : h[k] = After(h[k - 1], Of(rest[k]))
    BY <1>2, EachIs DEF Gathers
<1>4. Media!SizeOf(rest) = f[n]
    BY DEF Media!SizeOf
<1> DEFINE g == [k \in 0..n |-> Len(h[k])]
<1>5. ASSUME NEW k \in 1..n PROVE Len(h[k]) = Len(h[k - 1]) + size(k)
    <2>1. h[k - 1] \in Seq(Positions) /\ h[k] = After(h[k - 1], Of(rest[k]))
        <3>1. k - 1 \in 0..n
            BY <1>1
        <3>2. h[k - 1] \in Seq(Positions)
            BY <1>3, <3>1
        <3> HIDE DEF n
        <3> QED
            BY <1>3, <3>2
    <2>2. Of(rest[k]) \in Seq(Positions) /\ Len(Of(rest[k])) = size(k)
        BY <1>1, OfIs
    <2> HIDE DEF size
    <2>3. Len(After(h[k - 1], Of(rest[k]))) = Len(h[k - 1]) + Len(Of(rest[k]))
        BY <2>1, <2>2, AfterIsSeq
    <2> QED
        BY <2>1, <2>2, <2>3
<1> HIDE DEF size
<1>6. Len(h[0]) = 0
    BY <1>3, EmptySeq
<1>7. \A k \in 0..n : g[k] = IF k = 0 THEN 0 ELSE g[k - 1] + size(k)
    BY <1>1, <1>5, <1>6
<1>8. g = step(g)
    BY <1>7
<1>9. f = step(f)
    <2> HIDE DEF g
    <2> QED
        BY <1>8
<1>10. \A k \in 0..n : f[k] = IF k = 0 THEN 0 ELSE f[k - 1] + size(k)
    <2> HIDE DEF f
    <2> QED
        BY <1>9
<1> HIDE DEF f, g
<1> DEFINE T == {k \in 0..n : f[k] = Len(h[k])}
<1>11. 0 \in T
    BY <1>1, <1>6, <1>10
<1>12. \A k \in 0..n - 1 : k \in T => k + 1 \in T
    BY <1>1, <1>5, <1>10
<1>13. 0..n \subseteq T
    <2> HIDE DEF T
    <2> QED
        BY <1>1, <1>11, <1>12, Climb
<1>14. f[n] = Len(h[n])
    BY <1>1, <1>13
<1> QED
    BY <1>2, <1>4, <1>14, EachIs


\* The first bytes of a piece, and the others.
LEMMA OfTwo ==
    ASSUME NEW a \in Nat, NEW n \in Nat, NEW m \in Nat, Frame \notin Nat \X Nat
    PROVE  Of(<<a, n + m>>) = After(Of(<<a, n>>), Of(<<a + n, m>>))
<1> DEFINE x == Of(<<a, n>>)
           y == Of(<<a + n, m>>)
           z == Of(<<a, n + m>>)
<1>1. <<a, n>> \in BodyPieces /\ <<a + n, m>> \in BodyPieces /\ <<a, n + m>> \in BodyPieces
    BY DEF BodyPieces
<1>2. Frame # <<a, n>> /\ Frame # <<a + n, m>> /\ Frame # <<a, n + m>>
    OBVIOUS
<1>3. /\ x = [k \in 1..n |-> a + k - 1] /\ y = [k \in 1..m |-> (a + n) + k - 1]
      /\ z = [k \in 1..n + m |-> a + k - 1]
    BY <1>2 DEF Of
<1>4. /\ x \in Seq(Positions) /\ Len(x) = n
      /\ y \in Seq(Positions) /\ Len(y) = m
      /\ z \in Seq(Positions) /\ Len(z) = n + m
    BY <1>1, <1>2, OfIs
<1>5. /\ \A k \in 1..n : x[k] = a + k - 1
      /\ \A k \in 1..m : y[k] = (a + n) + k - 1
      /\ \A k \in 1..n + m : z[k] = a + k - 1
    BY <1>3
<1> HIDE DEF x, y, z
<1>6. /\ After(x, y) \in Seq(Positions) /\ Len(After(x, y)) = n + m
      /\ \A k \in 1..n + m : After(x, y)[k] = IF k <= n THEN x[k] ELSE y[k - n]
    BY <1>4, ConcatProperties DEF After
<1>7. ASSUME NEW k \in 1..n + m PROVE z[k] = After(x, y)[k]
    <2>1. CASE k <= n
        BY <2>1, <1>5, <1>6
    <2>2. CASE ~ (k <= n)
        <3>1. k - n \in 1..m
            BY <2>2
        <3>2. y[k - n] = (a + n) + (k - n) - 1
            BY <3>1, <1>5
        <3> QED
            BY <2>2, <3>2, <1>5, <1>6
    <2> QED
        BY <2>1, <2>2
<1>8. z = After(x, y)
    BY <1>4, <1>6, <1>7, SeqEqual
<1> QED
    BY <1>8 DEF x, y, z

\* The positions of an interval.
LEMMA InOrderIs ==
    ASSUME NEW a \in Nat, NEW b \in Nat, a <= b, Frame \notin Nat \X Nat
    PROVE  Media!InOrder(a..b) = Of(<<a, b - a + 1>>)
<1>1. Cardinality(a..b) = b - a + 1
    BY FS_Interval
<1>2. Media!Min(a..b) = a
    <2>1. a \in a..b /\ \A y \in a..b : a <= y
        OBVIOUS
    <2>2. \A x \in a..b : (\A y \in a..b : x <= y) => x = a
        BY <2>1
    <2> QED
        BY <2>1, <2>2 DEF Media!Min
<1>3. Media!InOrder(a..b) = [k \in 1..b - a + 1 |-> a + k - 1]
    <2>1. Media!Cardinality(a..b) = b - a + 1
        BY <1>1 DEF Media!Cardinality, Cardinality
    <2> QED
        BY <1>2, <2>1 DEF Media!InOrder
<1>4. <<a, b - a + 1>> # Frame
    OBVIOUS
<1> QED
    BY <1>3, <1>4 DEF Of

\* A wanted of a header is sound when it names a position, and its span are those it names.
LEMMA SpanNamed ==
    ASSUME NEW length \in Nat, length > 0, None \notin Nat,
           NEW wanted \in [first : Nat \cup {None}, last : Nat \cup {None}]
    PROVE  /\ Media!Sound(wanted, length) <=> Media!Named(wanted, length) # {}
           /\ Media!Sound(wanted, length) =>
              /\ Media!Span(wanted, length) \in Nat \X Nat
              /\ Media!Span(wanted, length)[1] <= Media!Span(wanted, length)[2]
              /\ Media!Span(wanted, length)[2] < length
              /\ Media!Named(wanted, length) = Media!Span(wanted, length)[1]..Media!Span(wanted, length)[2]
<1>1. CASE wanted.first = None /\ wanted.last = None
    BY <1>1 DEF Media!Sound, Media!Named
<1>2. CASE wanted.first = None /\ wanted.last # None
    <2>1. wanted.last \in Nat
        BY <1>2
    <2> DEFINE l == wanted.last
               a == IF l < length THEN length - l ELSE 0
    <2>2. Media!Span(wanted, length) = <<a, length - 1>>
        BY <1>2, <2>1 DEF Media!Span, Media!Least
    <2>3. Media!Named(wanted, length) = {k \in 0..length : k < length /\ k + l >= length}
        BY <1>2 DEF Media!Named
    <2>4. Media!Sound(wanted, length) <=> l > 0
        BY <1>2, <2>1, <2>2 DEF Media!Sound
    <2>5. l > 0 => Media!Named(wanted, length) = a..length - 1
        BY <2>1, <2>3
    <2>6. l > 0 => a..length - 1 # {}
        <3>1. l > 0 => length - 1 \in a..length - 1
            BY <2>1
        <3> QED
            BY <3>1
    <2>7. ~ (l > 0) => Media!Named(wanted, length) = {}
        BY <2>1, <2>3
    <2>8. l \in Nat /\ a \in Nat /\ length - 1 \in Nat /\ (l > 0 => a <= length - 1)
        BY <2>1
    <2>9. length - 1 < length
        OBVIOUS
    <2> HIDE DEF l, a
    <2>10. CASE l > 0
        <3>1. Media!Named(wanted, length) # {} /\ Media!Sound(wanted, length)
            BY <2>4, <2>5, <2>6, <2>10
        <3>2. Media!Span(wanted, length)[1] = a /\ Media!Span(wanted, length)[2] = length - 1
            BY <2>2
        <3>3. Media!Span(wanted, length) \in Nat \X Nat
            BY <2>2, <2>8
        <3> QED
            BY <3>1, <3>2, <3>3, <2>5, <2>8, <2>9, <2>10
    <2>11. CASE ~ (l > 0)
        BY <2>4, <2>7, <2>11
    <2> QED
        BY <2>10, <2>11
<1>3. CASE wanted.first # None
    <2>1. wanted.first \in Nat /\ wanted.last \in Nat \cup {None}
        BY <1>3
    <2> DEFINE f == wanted.first
               b == IF wanted.last = None THEN length - 1 ELSE Media!Least(wanted.last, length - 1)
    <2>2. Media!Span(wanted, length) = <<f, b>>
        BY <1>3 DEF Media!Span
    <2>3. b \in Nat /\ b < length
        BY <2>1 DEF Media!Least
    <2>4. Media!Sound(wanted, length) <=> f < length /\ f <= b
        BY <1>3, <2>2 DEF Media!Sound
    <2>5. Media!Named(wanted, length) =
            {k \in f..length : k < length /\ (wanted.last # None => k <= wanted.last)}
        BY <1>3 DEF Media!Named
    <2>6. Media!Named(wanted, length) = f..b
        BY <2>1, <2>5 DEF Media!Least
    <2>7. f <= b <=> f..b # {}
        BY <2>1, <2>3
    <2> HIDE DEF b, f
    <2>8. f \in Nat
        BY <2>1 DEF f
    <2> QED
        BY <2>2, <2>3, <2>4, <2>6, <2>7, <2>8
<1> QED
    BY <1>1, <1>2, <1>3

\* A range of a multipart body: its pieces, and their positions.
RangePieces(w) == <<Frame, w, Frame>>
RangePositions(w) == After(After(<<Frame>>, Of(w)), <<Frame>>)

\* A range of a multipart body.
LEMMA SendFramed ==
    ASSUME NEW x \in Seq(BodyPieces), NEW w \in BodyPieces
    PROVE  /\ After(x, RangePieces(w)) \in Seq(BodyPieces)
           /\ ToSend(After(x, RangePieces(w))) = After(ToSend(x), RangePositions(w))
<1> DEFINE a == Append(x, Frame)
           b == Append(a, w)
           c == Append(b, Frame)
           f == <<Frame>>
<1>1. Frame \in BodyPieces /\ f \in Seq(Positions) /\ Of(Frame) = f
    BY DEF BodyPieces, Positions, Of
<1> HIDE DEF f
<1>2. a \in Seq(BodyPieces)
    BY <1>1, AppendProperties
<1>3. b \in Seq(BodyPieces)
    BY <1>2, AppendProperties
<1>4. c \in Seq(BodyPieces)
    BY <1>1, <1>3, AppendProperties
<1>5. After(x, <<Frame, w, Frame>>) = c
    <2> DEFINE y == <<Frame, w, Frame>>
               d == After(x, y)
    <2>1. y \in Seq(BodyPieces) /\ Len(y) = 3 /\ y[1] = Frame /\ y[2] = w /\ y[3] = Frame
        BY <1>1
    <2> HIDE DEF y
    <2>2. /\ d \in Seq(BodyPieces) /\ Len(d) = Len(x) + 3 /\ Len(x) \in Nat
          /\ \A k \in 1..Len(x) + 3 : d[k] = IF k <= Len(x) THEN x[k] ELSE y[k - Len(x)]
        <3>1. /\ d \in Seq(BodyPieces) /\ Len(d) = Len(x) + Len(y)
              /\ \A k \in 1..Len(x) + Len(y) : d[k] = IF k <= Len(x) THEN x[k] ELSE y[k - Len(x)]
            BY <2>1, ConcatProperties DEF After
        <3>2. Len(x) \in Nat
            BY LenProperties
        <3> HIDE DEF d
        <3> QED
            BY <3>1, <3>2, <2>1
    <2>3. /\ Len(a) = Len(x) + 1 /\ a[Len(x) + 1] = Frame
          /\ \A k \in 1..Len(x) : a[k] = x[k]
        BY <1>1, AppendProperties
    <2>4. /\ Len(b) = Len(x) + 2 /\ b[Len(x) + 2] = w
          /\ \A k \in 1..Len(x) + 1 : b[k] = a[k]
        <3> HIDE DEF a
        <3>1. Len(b) = Len(a) + 1 /\ b[Len(a) + 1] = w /\ \A k \in 1..Len(a) : b[k] = a[k]
            BY <1>2, AppendProperties
        <3> QED
            BY <3>1, <2>2, <2>3
    <2>5. /\ Len(c) = Len(x) + 3 /\ c[Len(x) + 3] = Frame
          /\ \A k \in 1..Len(x) + 2 : c[k] = b[k]
        <3> HIDE DEF b
        <3>1. Len(c) = Len(b) + 1 /\ c[Len(b) + 1] = Frame /\ \A k \in 1..Len(b) : c[k] = b[k]
            BY <1>1, <1>3, AppendProperties
        <3> QED
            BY <3>1, <2>2, <2>4
    <2> HIDE DEF a, b, c, d
    <2>6. ASSUME NEW k \in 1..Len(x) + 3 PROVE d[k] = c[k]
        <3>1. CASE k <= Len(x)
            BY <3>1, <2>2, <2>3, <2>4, <2>5
        <3>2. CASE k = Len(x) + 1
            BY <3>2, <2>1, <2>2, <2>3, <2>4, <2>5
        <3>3. CASE k = Len(x) + 2
            BY <3>3, <2>1, <2>2, <2>4, <2>5
        <3>4. CASE k = Len(x) + 3
            <4>1. k - Len(x) = 3 /\ ~ (k <= Len(x))
                BY <3>4, <2>2
            <4>2. d[k] = y[3]
                BY <4>1, <2>2
            <4> QED
                BY <4>2, <3>4, <2>1, <2>5
        <3> QED
            BY <3>1, <3>2, <3>3, <3>4, <2>2
    <2>7. d = c
        BY <1>4, <2>2, <2>5, <2>6, SeqEqual
    <2> QED
        BY <2>7 DEF d, y
<1>6. ToSend(a) = After(ToSend(x), f)
    BY <1>1, SendAfter
<1>7. ToSend(b) = After(ToSend(a), Of(w))
    BY <1>2, SendAfter
<1>8. ToSend(c) = After(ToSend(b), f)
    BY <1>1, <1>3, SendAfter
<1> HIDE DEF a, b, c
<1>9. ToSend(x) \in Seq(Positions) /\ Of(w) \in Seq(Positions)
    BY ToSendIs, OfIs
<1>10. ToSend(b) = After(ToSend(x), After(f, Of(w)))
    <2>1. After(After(ToSend(x), f), Of(w)) = After(ToSend(x), After(f, Of(w)))
        BY <1>1, <1>9, AfterAfter
    <2> QED
        BY <2>1, <1>6, <1>7
<1>11. After(f, Of(w)) \in Seq(Positions)
    BY <1>1, <1>9, AfterIsSeq
<1>12. ToSend(c) = After(ToSend(x), After(After(f, Of(w)), f))
    <2> DEFINE y == After(f, Of(w))
    <2>1. y \in Seq(Positions)
        BY <1>11
    <2> HIDE DEF y
    <2>2. After(After(ToSend(x), y), f) = After(ToSend(x), After(y, f))
        BY <2>1, <1>1, <1>9, AfterAfter
    <2> QED
        BY <2>2, <1>8, <1>10 DEF y
<1> QED
    BY <1>4, <1>5, <1>12 DEF RangePieces, RangePositions, f

\* The pieces s and the positions t of n ranges w.
AreRanges(n, w, s, t) ==
    /\ n \in Nat /\ w \in [1..n -> BodyPieces]
    /\ s \in Seq(Seq(BodyPieces)) /\ Len(s) = n
    /\ t \in Seq(Seq(Positions)) /\ Len(t) = n
    /\ \A k \in 1..n : s[k] = RangePieces(w[k]) /\ t[k] = RangePositions(w[k])

\* All ranges.
LEMMA SendRanges ==
    ASSUME NEW n, NEW w, NEW s, NEW t, AreRanges(n, w, s, t)
    PROVE  ToSend(Media!FlattenSeq(s)) = Media!FlattenSeq(t)
<1>0. /\ n \in Nat /\ w \in [1..n -> BodyPieces]
      /\ s \in Seq(Seq(BodyPieces)) /\ Len(s) = n
      /\ t \in Seq(Seq(Positions)) /\ Len(t) = n
      /\ \A k \in 1..n : s[k] = RangePieces(w[k]) /\ t[k] = RangePositions(w[k])
    BY DEF AreRanges
<1>1. PICK h : Gathers(BodyPieces, s, h) /\ Media!FlattenSeq(s) = h[n]
    BY <1>0, FlattenJoins
<1>2. PICK g : Gathers(Positions, t, g) /\ Media!FlattenSeq(t) = g[n]
    BY <1>0, FlattenJoins
<1>3. /\ h \in [0..n -> Seq(BodyPieces)] /\ h[0] = <<>>
      /\ \A k \in 1..n : h[k] = After(h[k - 1], s[k])
    BY <1>0, <1>1 DEF Gathers
<1>4. /\ g \in [0..n -> Seq(Positions)] /\ g[0] = <<>>
      /\ \A k \in 1..n : g[k] = After(g[k - 1], t[k])
    BY <1>0, <1>2 DEF Gathers
<1> DEFINE T == {k \in 0..n : ToSend(h[k]) = g[k]}
<1>5. 0 \in T
    BY <1>0, <1>3, <1>4, NothingToSend
<1>6. ASSUME NEW k \in 0..n - 1, k \in T PROVE k + 1 \in T
    <2>1. k + 1 \in 1..n /\ k \in 0..n /\ (k + 1) - 1 = k /\ k + 1 \in 0..n
        BY <1>0
    <2>2. h[k] \in Seq(BodyPieces) /\ w[k + 1] \in BodyPieces
        BY <2>1, <1>0, <1>3
    <2>3. h[k + 1] = After(h[k], RangePieces(w[k + 1]))
        BY <2>1, <1>0, <1>3
    <2>4. g[k + 1] = After(g[k], RangePositions(w[k + 1]))
        BY <2>1, <1>0, <1>4
    <2>5. ToSend(h[k + 1]) = After(ToSend(h[k]), RangePositions(w[k + 1]))
        BY <2>2, <2>3, SendFramed
    <2> QED
        BY <2>1, <2>4, <2>5, <1>6
<1>7. 0..n \subseteq T
    <2> HIDE DEF T
    <2> QED
        BY <1>0, <1>5, <1>6, Climb
<1> QED
    BY <1>0, <1>1, <1>2, <1>7

HeaderParts == [first : Nat \cup {None}, last : Nat \cup {None}]
BytesOf(spans) == [k \in DOMAIN spans |-> <<Frame, Media!Whole(spans[k]), Frame>>]
Framing(header, length) ==
    [k \in DOMAIN header |-> <<Frame>> \o Media!InOrder(Media!Named(header[k], length)) \o <<Frame>>]

\* A piece for a wanted that is sound.
LEMMA PieceOf ==
    ASSUME NEW wanted \in HeaderParts, NEW length \in Nat, length > 0, Media!Sound(wanted, length),
           None \notin Nat, Frame \notin Nat \X Nat
    PROVE  /\ Media!Whole(Media!Span(wanted, length)) \in Nat \X Nat
           /\ Media!Whole(Media!Span(wanted, length))[1] + Media!Whole(Media!Span(wanted, length))[2] <= length
           /\ Of(Media!Whole(Media!Span(wanted, length))) = Media!InOrder(Media!Named(wanted, length))
<1> DEFINE a == Media!Span(wanted, length)[1]
           b == Media!Span(wanted, length)[2]
<1>1. /\ a \in Nat /\ b \in Nat /\ a <= b /\ b < length
      /\ Media!Named(wanted, length) = a..b
    BY SpanNamed DEF HeaderParts
<1>2. Media!Whole(Media!Span(wanted, length)) = <<a, b - a + 1>>
    BY DEF Media!Whole, Media!Size
<1> HIDE DEF a, b
<1>3. Media!InOrder(a..b) = Of(<<a, b - a + 1>>)
    BY <1>1, InOrderIs
<1> QED
    BY <1>1, <1>2, <1>3

\* The body of an answer with several ranges.
LEMMA FramedIs ==
    ASSUME NEW header \in Seq(HeaderParts), NEW length \in Nat, length > 0,
           \A k \in DOMAIN header : Media!Sound(header[k], length),
           None \notin Nat, Frame \notin Nat \X Nat
    PROVE  LET spans == [k \in DOMAIN header |-> Media!Span(header[k], length)] IN
           /\ Media!Framed(spans) \in Seq(BodyPieces)
           /\ ToSend(Media!Framed(spans)) = After(Media!FlattenSeq(Framing(header, length)), <<Frame>>)
           /\ \A k \in DOMAIN Media!Framed(spans) : Media!Framed(spans)[k] # Frame =>
                   Media!Framed(spans)[k][1] + Media!Framed(spans)[k][2] <= length
<1> DEFINE n == Len(header)
           spans == [k \in DOMAIN header |-> Media!Span(header[k], length)]
           Short == {Frame} \cup {p \in Nat \X Nat : p[1] + p[2] <= length}
           w == [k \in 1..n |-> Media!Whole(Media!Span(header[k], length))]
           s == BytesOf(spans)
           t == Framing(header, length)
<1>1. n \in Nat /\ DOMAIN header = 1..n /\ \A k \in 1..n : header[k] \in HeaderParts
    BY LenProperties, ElementOfSeq
<1>2. \A k \in 1..n : /\ w[k] \in Nat \X Nat /\ w[k][1] + w[k][2] <= length
                      /\ Of(w[k]) = Media!InOrder(Media!Named(header[k], length))
    BY <1>1, PieceOf
<1>3. w \in [1..n -> Short]
    BY <1>2
<1> DEFINE e(k) == <<Frame, w[k], Frame>>
           d(k) == After(After(<<Frame>>, Of(w[k])), <<Frame>>)
<1>4. s = [k \in 1..n |-> e(k)]
    <2>1. DOMAIN spans = 1..n /\ \A k \in 1..n : Media!Whole(spans[k]) = w[k]
        BY <1>1
    <2> HIDE DEF spans, w
    <2> QED
        BY <2>1 DEF BytesOf
<1>5. t = [k \in 1..n |-> d(k)]
    <2> HIDE DEF w
    <2> QED
        BY <1>1, <1>2 DEF Framing, After
<1>6. Media!Framed(spans) = Append(Media!FlattenSeq(s), Frame)
    <2>1. Media!Framed(spans) = Media!FlattenSeq(s) \o <<Frame>>
        BY DEF Media!Framed, BytesOf
    <2>2. s \in Seq(Seq(Short))
        <3>1. \A k \in 1..n : e(k) \in Seq(Short)
            <4> HIDE DEF w
            <4> QED
                BY <1>3
        <3> HIDE DEF e, s
        <3> QED
            BY <1>1, <1>4, <3>1, IsASeq
    <2>3. Media!FlattenSeq(s) \in Seq(Short) /\ Frame \in Short
        <3> HIDE DEF s
        <3> QED
            BY <2>2, FlattenJoins
    <2> QED
        BY <2>1, <2>3, AppendIsConcat
<1>7. Media!FlattenSeq(s) \in Seq(Short) /\ s \in Seq(Seq(BodyPieces)) /\ Len(s) = n
    <2>1. \A k \in 1..n : e(k) \in Seq(Short) /\ e(k) \in Seq(BodyPieces)
        <3>1. Short \subseteq BodyPieces
            BY DEF BodyPieces
        <3> HIDE DEF w
        <3> QED
            BY <1>3, <3>1
    <2> HIDE DEF e, s, Short
    <2>2. s \in Seq(Seq(Short)) /\ s \in Seq(Seq(BodyPieces)) /\ Len(s) = n
        BY <1>1, <1>4, <2>1, IsASeq
    <2> QED
        BY <2>2, FlattenJoins
<1>8. t \in Seq(Seq(Positions)) /\ Len(t) = n
    <2>1. \A k \in 1..n : d(k) \in Seq(Positions)
        <3> TAKE k \in 1..n
        <3>1. <<Frame>> \in Seq(Positions) /\ Of(w[k]) \in Seq(Positions)
            <4>1. w[k] \in BodyPieces
                BY <1>3 DEF BodyPieces
            <4> HIDE DEF w
            <4> QED
                BY <4>1, OfIs DEF Positions
        <3> HIDE DEF w
        <3>2. After(<<Frame>>, Of(w[k])) \in Seq(Positions)
            BY <3>1, AfterIsSeq
        <3> QED
            BY <3>1, <3>2, AfterIsSeq
    <2> HIDE DEF d, t
    <2> QED
        BY <1>1, <1>5, <2>1, IsASeq
<1>9. ToSend(Media!FlattenSeq(s)) = Media!FlattenSeq(t)
    <2>1. w \in [1..n -> BodyPieces]
        BY <1>3 DEF BodyPieces
    <2>2. \A k \in 1..n : s[k] = <<Frame, w[k], Frame>> /\ t[k] = d(k)
        <3> HIDE DEF w, s, t, d
        <3>1. \A k \in 1..n : s[k] = e(k)
            BY <1>4
        <3> QED
            BY <3>1, <1>5
    <2> HIDE DEF w, s, t
    <2>3. \A k \in 1..n : s[k] = RangePieces(w[k]) /\ t[k] = RangePositions(w[k])
        BY <2>2 DEF RangePieces, RangePositions
    <2>4. s \in Seq(Seq(BodyPieces)) /\ Len(s) = n /\ n \in Nat
        BY <1>1, <1>7
    <2>5. t \in Seq(Seq(Positions)) /\ Len(t) = n
        BY <1>8
    <2> HIDE DEF d, e, n
    <2>6. AreRanges(n, w, s, t)
        BY <2>1, <2>3, <2>4, <2>5 DEF AreRanges
    <2> QED
        BY <2>6, SendRanges
<1>10. Frame \in BodyPieces /\ Frame \in Short /\ Of(Frame) = <<Frame>> /\ Short \subseteq BodyPieces
    BY DEF Of, BodyPieces
<1>11. Media!Framed(spans) \in Seq(Short)
    <2> HIDE DEF s, Short, spans
    <2> QED
        BY <1>6, <1>7, <1>10, AppendProperties
<1>12. Media!FlattenSeq(s) \in Seq(BodyPieces)
    <2> HIDE DEF s
    <2> QED
        BY <1>7, FlattenJoins
<1>13. ToSend(Media!Framed(spans)) = After(Media!FlattenSeq(t), <<Frame>>)
    <2> HIDE DEF s, t, spans
    <2> QED
        BY <1>6, <1>9, <1>10, <1>12, SendAfter
<1>14. Media!Framed(spans) \in Seq(BodyPieces)
    <2> HIDE DEF s, spans
    <2> QED
        BY <1>6, <1>10, <1>12, AppendProperties
<1>15. \A k \in DOMAIN Media!Framed(spans) : Media!Framed(spans)[k] \in Short
    <2> HIDE DEF Short, spans
    <2> QED
        BY <1>11, LenProperties, ElementOfSeq
<1>16. \A p \in Short : p # Frame => p[1] + p[2] <= length
    OBVIOUS
<1> HIDE DEF Short, spans
<1> QED
    BY <1>13, <1>14, <1>15, <1>16 DEF spans

MediaFiles == [number : Nat, length : Nat, mark : Nat]
MediaAnswers == [status : {200, 206, 416}, declared : Nat, asked : Ranges, length : Nat, mark : Nat]

MediaShapes ==
    /\ file \in MediaFiles \cup {None} /\ handle \in MediaFiles \cup {None}
    /\ reply \in MediaAnswers \cup {None} /\ (handle = None <=> reply = None)
    /\ registered \in BOOLEAN /\ ending \in {None, "complete", "error"}
    /\ pieces \in Seq(BodyPieces) /\ body \in Seq(BodyPieces) /\ writes \in Nat

\* A file is no newer than the last change, and one number is one file.
OneFile ==
    /\ file # None => file.number <= writes + 1 /\ file.mark <= writes
    /\ handle # None => handle.number <= writes + 1
    /\ file # None /\ handle # None /\ file.number = handle.number => handle = file

\* Until something changes, the open file is as long as it was.
LengthKept == handle # None /\ writes = 0 => handle.length = reply.length

\* What was read is no older than the answer, and no newer than the open file.
InTime ==
    handle # None =>
        /\ reply.mark <= handle.mark
        /\ \A k \in DOMAIN body :
              body[k] # Frame => reply.mark <= body[k][2] /\ body[k][2] <= handle.mark

\* What was sent and what is left to send are what was promised.
OnCourse ==
    handle # None =>
        /\ reply.status = 416 <=> Media!Refused(reply.asked, reply.length)
        /\ Media!Promised(reply.asked, reply.length) = After(Media!Places(body), ToSend(pieces))
        /\ reply.declared = Len(Media!Promised(reply.asked, reply.length))

\* No piece goes past the end.
Within ==
    handle # None =>
        \A k \in DOMAIN pieces : pieces[k] # Frame => pieces[k][1] + pieces[k][2] <= reply.length

\* Nothing is left at the end, unless something changed.
AtTheEnd == (ending = "complete" => pieces = <<>>) /\ (ending = "error" => writes > 0)

MediaInv ==
    /\ MediaShapes /\ OneFile /\ LengthKept /\ InTime /\ OnCourse /\ Within /\ AtTheEnd

\* Places of bytes.
LEMMA PlacesIs ==
    ASSUME NEW b \in Seq(BodyPieces)
    PROVE  /\ Media!Places(b) \in Seq(Positions) /\ Len(Media!Places(b)) = Len(b) /\ Len(b) \in Nat
           /\ \A k \in 1..Len(b) : Media!Places(b)[k] = IF b[k] = Frame THEN Frame ELSE b[k][1]
<1> DEFINE n == Len(b)
           e(k) == IF b[k] = Frame THEN Frame ELSE b[k][1]
<1>1. n \in Nat /\ DOMAIN b = 1..n /\ \A k \in 1..n : b[k] \in BodyPieces
    BY LenProperties, ElementOfSeq
<1>2. \A k \in 1..n : e(k) \in Positions
    BY <1>1 DEF BodyPieces, Positions
<1>3. Media!Places(b) = [k \in 1..n |-> e(k)]
    BY <1>1 DEF Media!Places
<1> HIDE DEF e
<1>4. [k \in 1..n |-> e(k)] \in Seq(Positions) /\ Len([k \in 1..n |-> e(k)]) = n
    BY <1>1, <1>2, IsASeq
<1>5. \A k \in 1..n : Media!Places(b)[k] = e(k)
    BY <1>3
<1> QED
    BY <1>1, <1>3, <1>4, <1>5 DEF e

\* Places of bytes and of those after them.
LEMMA PlacesAfter ==
    ASSUME NEW b \in Seq(BodyPieces), NEW c \in Seq(BodyPieces)
    PROVE  /\ After(b, c) \in Seq(BodyPieces)
           /\ Media!Places(After(b, c)) = After(Media!Places(b), Media!Places(c))
<1> DEFINE d == After(b, c)
           p == Media!Places(b)
           q == Media!Places(c)
           r == Media!Places(d)
           s == After(p, q)
           spot(x) == IF x = Frame THEN Frame ELSE x[1]
<1>1. /\ d \in Seq(BodyPieces) /\ Len(d) = Len(b) + Len(c)
      /\ \A k \in 1..Len(b) + Len(c) : d[k] = IF k <= Len(b) THEN b[k] ELSE c[k - Len(b)]
    BY ConcatProperties DEF After
<1>2. /\ p \in Seq(Positions) /\ Len(p) = Len(b) /\ Len(b) \in Nat
      /\ \A k \in 1..Len(b) : p[k] = spot(b[k])
    BY PlacesIs
<1>3. /\ q \in Seq(Positions) /\ Len(q) = Len(c) /\ Len(c) \in Nat
      /\ \A k \in 1..Len(c) : q[k] = spot(c[k])
    BY PlacesIs
<1> HIDE DEF d
<1>4. /\ r \in Seq(Positions) /\ Len(r) = Len(d)
      /\ \A k \in 1..Len(d) : r[k] = spot(d[k])
    BY <1>1, PlacesIs
<1> HIDE DEF p, q, r
<1>5. /\ s \in Seq(Positions) /\ Len(s) = Len(p) + Len(q)
      /\ \A k \in 1..Len(p) + Len(q) : s[k] = IF k <= Len(p) THEN p[k] ELSE q[k - Len(p)]
    <2>1. p \in Seq(Positions) /\ q \in Seq(Positions)
        BY <1>2, <1>3
    <2> HIDE DEF spot
    <2> QED
        BY <2>1, ConcatProperties DEF After
<1> HIDE DEF s, spot
<1>6. ASSUME NEW k \in 1..Len(d) PROVE r[k] = s[k]
    <2>1. k \in 1..Len(b) + Len(c) /\ r[k] = spot(d[k])
        BY <1>1, <1>4
    <2>2. CASE k <= Len(b)
        <3>1. d[k] = b[k] /\ s[k] = p[k] /\ k \in 1..Len(b)
            BY <2>1, <2>2, <1>1, <1>2, <1>3, <1>5
        <3> QED
            BY <3>1, <2>1, <1>2
    <2>3. CASE ~ (k <= Len(b))
        <3>1. d[k] = c[k - Len(b)] /\ s[k] = q[k - Len(b)] /\ k - Len(b) \in 1..Len(c)
            BY <2>1, <2>3, <1>1, <1>2, <1>3, <1>5
        <3> QED
            BY <3>1, <2>1, <1>3
    <2> QED
        BY <2>2, <2>3
<1>7. r = s
    BY <1>1, <1>2, <1>3, <1>4, <1>5, <1>6, SeqEqual
<1> QED
    BY <1>1, <1>7 DEF d, r, s, p, q

\* What a read sends.
LEMMA SentIs ==
    ASSUME handle \in MediaFiles, NEW start \in Nat, NEW n \in Nat, Frame \notin Nat \X Nat
    PROVE  /\ Media!Sent(start, n) \in Seq(BodyPieces) /\ Len(Media!Sent(start, n)) = n
           /\ Media!Places(Media!Sent(start, n)) = Of(<<start, n>>)
           /\ \A k \in 1..n : Media!Sent(start, n)[k][2] = handle.mark
<1> DEFINE e(k) == <<start + k - 1, handle.mark>>
           s == Media!Sent(start, n)
           o == Of(<<start, n>>)
<1>1. handle.mark \in Nat
    BY DEF MediaFiles
<1>2. s = [k \in 1..n |-> e(k)]
    BY DEF Media!Sent
<1>3. \A k \in 1..n : e(k) \in Nat \X Nat /\ e(k) \in BodyPieces /\ e(k) # Frame
    BY <1>1 DEF BodyPieces
<1>4. s \in Seq(BodyPieces) /\ Len(s) = n /\ \A k \in 1..n : s[k] = e(k)
    <2> HIDE DEF e, s
    <2> QED
        BY <1>2, <1>3, IsASeq
<1>5. \A k \in 1..n : e(k)[1] = start + k - 1 /\ e(k)[2] = handle.mark
    OBVIOUS
<1>6. <<start, n>> # Frame /\ <<start, n>> \in BodyPieces
    BY DEF BodyPieces
<1>7. o \in Seq(Positions) /\ Len(o) = n /\ \A k \in 1..n : o[k] = start + k - 1
    <2>1. o = [k \in 1..n |-> start + k - 1]
        BY <1>6 DEF Of
    <2>2. o \in Seq(Positions) /\ Len(o) = n
        BY <1>6, OfIs
    <2> QED
        BY <2>1, <2>2
<1> HIDE DEF e, s, o
<1>8. /\ Media!Places(s) \in Seq(Positions) /\ Len(Media!Places(s)) = n
      /\ \A k \in 1..n : Media!Places(s)[k] = IF s[k] = Frame THEN Frame ELSE s[k][1]
    BY <1>4, PlacesIs
<1>9. ASSUME NEW k \in 1..n PROVE Media!Places(s)[k] = o[k]
    <2>1. s[k] # Frame /\ s[k][1] = start + k - 1
        BY <1>3, <1>4, <1>5
    <2> QED
        BY <2>1, <1>7, <1>8
<1>10. Media!Places(s) = o
    BY <1>7, <1>8, <1>9, SeqEqual
<1> QED
    BY <1>4, <1>5, <1>10 DEF s, o

\* At first no file is open.
LEMMA MediaInitially == ASSUME MediaAssumption PROVE Media!MediaInit => MediaInv
<1> SUFFICES ASSUME Media!MediaInit PROVE MediaInv
    OBVIOUS
<1>1. PICK n \in FileLengths : file = [number |-> 1, length |-> n, mark |-> 0]
    BY DEF Media!MediaInit
<1>2. file \in MediaFiles
    BY <1>1 DEF MediaFiles, MediaAssumption
<1>3. /\ registered = FALSE /\ handle = None /\ reply = None /\ pieces = <<>> /\ body = <<>>
      /\ ending = None /\ writes = 0
    BY DEF Media!MediaInit
<1>4. MediaShapes
    BY <1>2, <1>3, EmptySeq DEF MediaShapes
<1>5. None # "complete" /\ None # "error"
    BY DEF MediaAssumption
<1>6. OneFile
    BY <1>1, <1>3 DEF OneFile
<1> QED
    BY <1>3, <1>4, <1>5, <1>6 DEF MediaInv, LengthKept, InTime, OnCourse, Within, AtTheEnd

\* What was sent first begins the promise.
LEMMA SentIsPrefix ==
    ASSUME NEW p \in Seq(Positions), NEW q \in Seq(Positions)
    PROVE  Media!IsPrefix(p, After(p, q))
<1> DEFINE t == After(p, q)
           n == Len(p)
<1>1. /\ t \in Seq(Positions) /\ Len(t) = n + Len(q) /\ n \in Nat /\ Len(q) \in Nat
      /\ \A k \in 1..n + Len(q) : t[k] = IF k <= n THEN p[k] ELSE q[k - n]
    BY ConcatProperties, LenProperties DEF After
<1> HIDE DEF t
<1>2. /\ \A k \in 1..n : p[k] \in Positions
      /\ \A k \in 1..n : t[k] \in Positions
    BY <1>1, ElementOfSeq
<1>3. /\ SubSeq(p, 1, n) \in Seq(Positions)
      /\ Len(SubSeq(p, 1, n)) = IF 1 <= n THEN n - 1 + 1 ELSE 0
      /\ \A k \in 1..n - 1 + 1 : SubSeq(p, 1, n)[k] = p[1 + k - 1]
    BY <1>1, <1>2, SubSeqProperties
<1>4. /\ SubSeq(t, 1, n) \in Seq(Positions)
      /\ Len(SubSeq(t, 1, n)) = IF 1 <= n THEN n - 1 + 1 ELSE 0
      /\ \A k \in 1..n - 1 + 1 : SubSeq(t, 1, n)[k] = t[1 + k - 1]
    BY <1>1, <1>2, SubSeqProperties
<1>5. ASSUME NEW k \in 1..n PROVE SubSeq(p, 1, n)[k] = SubSeq(t, 1, n)[k]
    BY <1>1, <1>3, <1>4
<1>6. SubSeq(p, 1, n) = SubSeq(t, 1, n)
    BY <1>1, <1>3, <1>4, <1>5, SeqEqual
<1> QED
    BY <1>1, <1>6 DEF Media!IsPrefix, t

\* The invariant is enough.
LEMMA MediaHolds == MediaInv => Media!ServedAsDeclared
<1> SUFFICES ASSUME MediaInv, reply # None PROVE Media!ServedAsDeclared
    BY DEF Media!ServedAsDeclared
<1> DEFINE promised == Media!Promised(reply.asked, reply.length)
<1>1. MediaShapes /\ InTime /\ OnCourse /\ AtTheEnd
    BY DEF MediaInv
<1>2. handle # None /\ pieces \in Seq(BodyPieces) /\ body \in Seq(BodyPieces)
    BY <1>1 DEF MediaShapes
<1>3. /\ Media!Places(body) \in Seq(Positions) /\ Len(Media!Places(body)) = Len(body)
      /\ ToSend(pieces) \in Seq(Positions)
    BY <1>2, PlacesIs, ToSendIs
<1>4. /\ promised = After(Media!Places(body), ToSend(pieces)) /\ reply.declared = Len(promised)
      /\ reply.status = 416 <=> Media!Refused(reply.asked, reply.length)
    BY <1>1, <1>2 DEF OnCourse
<1>5. Media!IsPrefix(Media!Places(body), promised)
    BY <1>3, <1>4, SentIsPrefix
<1>6. ASSUME ending = "complete" PROVE Len(body) = reply.declared
    <2>1. pieces = <<>>
        BY <1>1, <1>6 DEF AtTheEnd
    <2>2. ToSend(pieces) = <<>>
        BY <2>1, NothingToSend
    <2>3. promised = Media!Places(body)
        BY <2>2, <1>3, <1>4, AfterEmpty
    <2> QED
        BY <2>3, <1>3, <1>4
<1>7. ending = "error" => writes > 0
    BY <1>1 DEF AtTheEnd
<1>8. ASSUME NEW k \in DOMAIN body, body[k] # Frame, body[k][2] # reply.mark
      PROVE  handle.mark # reply.mark
    <2>1. k \in 1..Len(body) /\ body[k] \in BodyPieces
        BY <1>2, LenProperties, ElementOfSeq
    <2>2. body[k][2] \in Nat
        BY <2>1, <1>8 DEF BodyPieces
    <2>3. reply.mark \in Nat /\ handle.mark \in Nat
        BY <1>1, <1>2 DEF MediaShapes, MediaFiles, MediaAnswers
    <2>4. reply.mark <= body[k][2] /\ body[k][2] <= handle.mark
        BY <1>1, <1>2, <1>8 DEF InTime
    <2> QED
        BY <2>2, <2>3, <2>4, <1>8
<1> HIDE DEF promised
<1> QED
    BY <1>4, <1>5, <1>6, <1>7, <1>8 DEF Media!ServedAsDeclared, promised

\* One piece.
LEMMA SendOne ==
    ASSUME NEW p \in BodyPieces PROVE <<p>> \in Seq(BodyPieces) /\ ToSend(<<p>>) = Of(p)
<1>1. <<>> \in Seq(BodyPieces) /\ <<p>> = Append(<<>>, p)
    BY EmptySeq
<1>2. ToSend(Append(<<>>, p)) = After(ToSend(<<>>), Of(p))
    BY <1>1, SendAfter
<1>3. Of(p) \in Seq(Positions)
    BY OfIs
<1>4. After(<<>>, Of(p)) = Of(p)
    BY <1>3, AfterEmpty
<1> QED
    BY <1>1, <1>2, <1>4, NothingToSend, AppendProperties

\* What parse_byte_ranges refuses.
LEMMA RefusedIs ==
    ASSUME MediaAssumption, NEW header \in Ranges, header # <<>>, NEW length \in Nat
    PROVE  /\ header \in Seq(HeaderParts)
           /\ Media!ParseByteRanges(header, length) = <<>> <=> Media!Refused(header, length)
           /\ ~Media!Refused(header, length) =>
               /\ length > 0 /\ \A k \in DOMAIN header : Media!Sound(header[k], length)
               /\ Media!ParseByteRanges(header, length) =
                  [k \in DOMAIN header |-> Media!Span(header[k], length)]
<1>1. header \in Seq(HeaderParts) /\ None \notin Nat
    BY DEF MediaAssumption, HeaderParts
<1>2. /\ Len(header) \in Nat /\ Len(header) # 0 /\ DOMAIN header = 1..Len(header)
      /\ \A k \in DOMAIN header : header[k] \in HeaderParts
    BY <1>1, LenProperties, EmptySeq, ElementOfSeq
<1> DEFINE bad == \E k \in DOMAIN header : ~Media!Sound(header[k], length)
           none == \E k \in DOMAIN header : Media!Named(header[k], length) = {}
           spans == [k \in DOMAIN header |-> Media!Span(header[k], length)]
<1>3. Media!Refused(header, length) <=> Len(header) > MaxRanges \/ none
    BY DEF Media!Refused
<1>4. Media!ParseByteRanges(header, length) =
      IF length = 0 \/ Len(header) > MaxRanges \/ bad THEN <<>> ELSE spans
    BY DEF Media!ParseByteRanges
<1>5. spans # <<>>
    <2>1. DOMAIN spans = 1..Len(header)
        BY <1>2
    <2>2. 1 \in DOMAIN spans
        BY <1>2, <2>1
    <2> HIDE DEF spans
    <2> QED
        BY <2>2
<1>6. CASE length = 0
    <2>1. \A k \in DOMAIN header : Media!Named(header[k], length) = {}
        BY <1>1, <1>2, <1>6 DEF Media!Named, HeaderParts
    <2>2. none
        <3>1. 1 \in DOMAIN header
            BY <1>2
        <3> QED
            BY <3>1, <2>1
    <2> HIDE DEF none, bad, spans
    <2> QED
        BY <1>1, <1>3, <1>4, <1>6, <2>2
<1>7. CASE length # 0
    <2>1. \A k \in DOMAIN header : Media!Sound(header[k], length) <=> Media!Named(header[k], length) # {}
        BY <1>1, <1>2, <1>7, SpanNamed DEF HeaderParts
    <2>2. bad <=> none
        BY <2>1
    <2>3. ~bad => \A k \in DOMAIN header : Media!Sound(header[k], length)
        OBVIOUS
    <2> HIDE DEF none, bad, spans
    <2> QED
        BY <1>1, <1>3, <1>4, <1>5, <1>7, <2>2, <2>3 DEF spans
<1> QED
    BY <1>6, <1>7

\* What an answer starts with.
Starts(header, length, status, rest) ==
    /\ rest \in Seq(BodyPieces) /\ status \in {200, 206, 416}
    /\ status = 416 <=> Media!Refused(header, length)
    /\ Media!Promised(header, length) = ToSend(rest)
    /\ \A k \in DOMAIN rest : rest[k] # Frame => rest[k][1] + rest[k][2] <= length

\* An answer without a range is the whole file.
LEMMA StartsWhole ==
    ASSUME MediaAssumption, NEW length \in Nat
    PROVE  Starts(<<>>, length, 200, <<<<0, length>>>>)
<1> DEFINE p == <<0, length>>
<1>1. p \in BodyPieces /\ p # Frame /\ p[1] + p[2] <= length
    BY DEF BodyPieces, MediaAssumption
<1>2. <<p>> \in Seq(BodyPieces) /\ ToSend(<<p>>) = Of(p)
    BY <1>1, SendOne
<1>3. Of(p) = [k \in 1..length |-> 0 + k - 1]
    BY <1>1 DEF Of
<1>4. [k \in 1..length |-> 0 + k - 1] = [k \in 1..length |-> k - 1]
    OBVIOUS
<1>5. ~Media!Refused(<<>>, length)
    BY DEF Media!Refused
<1>6. Media!Promised(<<>>, length) = [k \in 1..length |-> k - 1]
    BY <1>5 DEF Media!Promised
<1>7. \A k \in DOMAIN <<p>> : <<p>>[k] # Frame => <<p>>[k][1] + <<p>>[k][2] <= length
    <2>1. \A k \in DOMAIN <<p>> : <<p>>[k] = p
        OBVIOUS
    <2> HIDE DEF p
    <2> QED
        BY <2>1, <1>1
<1> HIDE DEF p
<1>8. Media!Promised(<<>>, length) = ToSend(<<p>>)
    BY <1>2, <1>3, <1>4, <1>6
<1> QED
    BY <1>2, <1>5, <1>7, <1>8 DEF Starts, p

\* One that is refused is empty.
LEMMA StartsEmpty ==
    ASSUME NEW header, NEW length, Media!Refused(header, length)
    PROVE  Starts(header, length, 416, <<>>)
<1>1. <<>> \in Seq(BodyPieces)
    BY EmptySeq
<1>2. Media!Promised(header, length) = ToSend(<<>>)
    BY NothingToSend DEF Media!Promised
<1>3. DOMAIN <<>> = {}
    OBVIOUS
<1> QED
    BY <1>1, <1>2, <1>3 DEF Starts

\* One range is one piece.
LEMMA StartsOne ==
    ASSUME MediaAssumption, NEW header \in Ranges, NEW length \in Nat,
           Len(header) = 1, ~Media!Refused(header, length)
    PROVE  Starts(header, length, 206, <<Media!Whole(Media!Span(header[1], length))>>)
<1> DEFINE p == Media!Whole(Media!Span(header[1], length))
<1>1. header # <<>>
    BY EmptySeq
<1>2. header \in Seq(HeaderParts) /\ length > 0 /\ \A k \in DOMAIN header : Media!Sound(header[k], length)
    BY <1>1, RefusedIs
<1>3. 1 \in DOMAIN header /\ header[1] \in HeaderParts
    BY <1>2, LenProperties, ElementOfSeq
<1>4. None \notin Nat /\ Frame \notin Nat \X Nat
    BY DEF MediaAssumption
<1>5. p \in Nat \X Nat /\ p[1] + p[2] <= length /\ Of(p) = Media!InOrder(Media!Named(header[1], length))
    BY <1>2, <1>3, <1>4, PieceOf
<1> HIDE DEF p
<1>6. p \in BodyPieces
    BY <1>5 DEF BodyPieces
<1>7. <<p>> \in Seq(BodyPieces) /\ ToSend(<<p>>) = Of(p)
    BY <1>6, SendOne
<1>8. Media!Promised(header, length) = Media!InOrder(Media!Named(header[1], length))
    BY <1>1 DEF Media!Promised
<1>9. \A k \in DOMAIN <<p>> : <<p>>[k] = p
    OBVIOUS
<1>10. \A k \in DOMAIN <<p>> : <<p>>[k] # Frame => <<p>>[k][1] + <<p>>[k][2] <= length
    BY <1>5, <1>9
<1> QED
    BY <1>5, <1>7, <1>8, <1>10 DEF Starts, p

\* Several ranges are framed.
LEMMA StartsFramed ==
    ASSUME MediaAssumption, NEW header \in Ranges, NEW length \in Nat,
           Len(header) > 1, ~Media!Refused(header, length)
    PROVE  Starts(header, length, 206, Media!Framed(Media!ParseByteRanges(header, length)))
<1>1. header # <<>> /\ Len(header) # 1
    <2>1. Len(header) \in Nat
        BY LenProperties DEF MediaAssumption
    <2>2. Len(header) # 0 /\ Len(header) # 1
        <3>1. \A n \in Nat : n > 1 => n # 0 /\ n # 1
            OBVIOUS
        <3> QED
            BY <2>1, <3>1
    <2>3. header = <<>> => Len(header) = 0
        BY EmptySeq
    <2> QED
        BY <2>2, <2>3
<1>2. /\ header \in Seq(HeaderParts) /\ length > 0 /\ \A k \in DOMAIN header : Media!Sound(header[k], length)
      /\ Media!ParseByteRanges(header, length) = [k \in DOMAIN header |-> Media!Span(header[k], length)]
    BY <1>1, RefusedIs
<1>4. None \notin Nat /\ Frame \notin Nat \X Nat
    BY DEF MediaAssumption
<1> DEFINE rest == Media!Framed(Media!ParseByteRanges(header, length))
<1>5. /\ rest \in Seq(BodyPieces)
      /\ ToSend(rest) = After(Media!FlattenSeq(Framing(header, length)), <<Frame>>)
      /\ \A k \in DOMAIN rest : rest[k] # Frame => rest[k][1] + rest[k][2] <= length
    BY <1>2, <1>4, FramedIs
<1>6. Media!Promised(header, length) = After(Media!FlattenSeq(Framing(header, length)), <<Frame>>)
    BY <1>1 DEF Media!Promised, Framing, After
<1> HIDE DEF rest
<1> QED
    BY <1>5, <1>6 DEF Starts, rest

\* What Serve answers is what it promises.
LEMMA ServeStarts ==
    ASSUME MediaAssumption, MediaInv, NEW header \in Ranges, Media!Serve(header)
    PROVE  \E status, rest :
               /\ Starts(header, file.length, status, rest)
               /\ reply' = [status |-> status, declared |-> Media!SizeOf(rest), asked |-> header,
                            length |-> file.length, mark |-> file.mark]
               /\ pieces' = rest
<1> DEFINE length == file.length
           spans == Media!ParseByteRanges(header, length)
<1>1. length \in Nat
    BY DEF Media!Serve, MediaInv, MediaShapes, MediaFiles
<1>2. (CASE header = <<>> -> Media!Replies(200, header, <<<<0, length>>>>)
         [] header # <<>> /\ spans = <<>> -> Media!Replies(416, header, <<>>)
         [] Len(spans) = 1 -> Media!Replies(206, header, <<Media!Whole(spans[1])>>)
         [] Len(spans) > 1 -> Media!Replies(206, header, Media!Framed(spans)))
    BY DEF Media!Serve
<1> HIDE DEF length
<1>3. CASE header = <<>>
    <2>1. spans = <<>>
        <3>1. DOMAIN header = {} /\ Len(header) = 0
            BY <1>3
        <3>2. [k \in DOMAIN header |-> Media!Span(header[k], length)] = <<>>
            BY <3>1
        <3> QED
            BY <3>2 DEF Media!ParseByteRanges
    <2>2. Len(spans) = 0
        BY <2>1
    <2> HIDE DEF spans
    <2>3. Media!Replies(200, header, <<<<0, length>>>>)
        BY <1>2, <1>3, <2>1, <2>2
    <2>4. Starts(header, length, 200, <<<<0, length>>>>)
        BY <1>1, <1>3, StartsWhole
    <2> QED
        BY <2>3, <2>4 DEF Media!Replies, length
<1>4. CASE header # <<>> /\ Media!Refused(header, length)
    <2>1. spans = <<>>
        BY <1>1, <1>4, RefusedIs
    <2>2. Len(spans) = 0
        BY <2>1
    <2> HIDE DEF spans
    <2>3. Media!Replies(416, header, <<>>)
        BY <1>2, <1>4, <2>1, <2>2
    <2>4. Starts(header, length, 416, <<>>)
        BY <1>4, StartsEmpty
    <2> QED
        BY <2>3, <2>4 DEF Media!Replies, length
<1>5. CASE header # <<>> /\ ~Media!Refused(header, length)
    <2>1. /\ spans # <<>> /\ header \in Seq(HeaderParts)
          /\ spans = [k \in DOMAIN header |-> Media!Span(header[k], length)]
        BY <1>1, <1>5, RefusedIs
    <2>2. Len(header) \in Nat /\ Len(header) # 0 /\ DOMAIN header = 1..Len(header)
        BY <1>5, <2>1, LenProperties, EmptySeq
    <2>3. Len(spans) = Len(header)
        BY <2>1, <2>2
    <2> HIDE DEF spans
    <2>4. CASE Len(header) = 1
        <3>1. Media!Replies(206, header, <<Media!Whole(spans[1])>>)
            BY <1>2, <1>5, <2>1, <2>3, <2>4
        <3>2. spans[1] = Media!Span(header[1], length)
            BY <2>1, <2>2, <2>4
        <3>3. Starts(header, length, 206, <<Media!Whole(spans[1])>>)
            BY <1>1, <1>5, <2>4, <3>2, StartsOne
        <3> QED
            BY <3>1, <3>3 DEF Media!Replies, length
    <2>5. CASE Len(header) # 1
        <3>1. Len(header) > 1
            BY <2>2, <2>5
        <3>2. Media!Replies(206, header, Media!Framed(spans))
            <4>1. Len(spans) > 1 /\ Len(spans) # 1
                BY <2>3, <2>5, <3>1
            <4> QED
                BY <1>2, <1>5, <2>1, <4>1
        <3>3. Starts(header, length, 206, Media!Framed(spans))
            BY <1>1, <1>5, <3>1, StartsFramed DEF spans
        <3> QED
            BY <3>2, <3>3 DEF Media!Replies, length
    <2> QED
        BY <2>4, <2>5
<1> QED
    BY <1>3, <1>4, <1>5

\* A request is answered.
LEMMA ServeKeeps ==
    ASSUME MediaAssumption, MediaInv, NEW header \in Ranges, Media!Serve(header) PROVE MediaInv'
<1>1. PICK status, rest :
         /\ Starts(header, file.length, status, rest)
         /\ reply' = [status |-> status, declared |-> Media!SizeOf(rest), asked |-> header,
                      length |-> file.length, mark |-> file.mark]
         /\ pieces' = rest
    BY ServeStarts
<1>2. /\ file \in MediaFiles /\ file # None /\ handle' = file /\ body' = <<>> /\ ending' = None
      /\ file' = file /\ registered' = registered /\ writes' = writes
    BY DEF Media!Serve, MediaInv, MediaShapes
<1>3. /\ rest \in Seq(BodyPieces) /\ status \in {200, 206, 416}
      /\ status = 416 <=> Media!Refused(header, file.length)
      /\ Media!Promised(header, file.length) = ToSend(rest)
      /\ \A k \in DOMAIN rest : rest[k] # Frame => rest[k][1] + rest[k][2] <= file.length
    BY <1>1 DEF Starts
<1>4. Media!SizeOf(rest) = Len(ToSend(rest)) /\ ToSend(rest) \in Seq(Positions) /\ Media!SizeOf(rest) \in Nat
    <2>1. Media!SizeOf(rest) = Len(ToSend(rest)) /\ ToSend(rest) \in Seq(Positions)
        BY <1>3, SizeIs, ToSendIs
    <2> QED
        BY <2>1, LenProperties
<1>5. /\ reply'.status = status /\ reply'.declared = Media!SizeOf(rest) /\ reply'.asked = header
      /\ reply'.length = file.length /\ reply'.mark = file.mark
    BY <1>1
<1>6. reply' \in MediaAnswers /\ reply' # None /\ handle' # None /\ handle' \in MediaFiles
    BY <1>1, <1>2, <1>3, <1>4 DEF MediaAnswers, MediaFiles, MediaAssumption
<1>7. MediaShapes'
    BY <1>1, <1>2, <1>3, <1>6, EmptySeq DEF MediaInv, MediaShapes
<1>8. OneFile'
    BY <1>2 DEF OneFile, MediaInv
<1>9. LengthKept'
    BY <1>2, <1>5 DEF LengthKept
<1>10. InTime'
    <2>1. file.mark \in Nat /\ DOMAIN body' = {}
        BY <1>2 DEF MediaFiles
    <2> QED
        BY <1>2, <1>5, <2>1 DEF InTime
<1>11. OnCourse'
    <2>1. Media!Places(<<>>) = <<>>
        <3>1. Media!Places(<<>>) \in Seq(Positions) /\ Len(Media!Places(<<>>)) = Len(<<>>)
            BY EmptySeq, PlacesIs
        <3> QED
            BY <3>1, EmptySeq
    <2>2. After(<<>>, ToSend(rest)) = ToSend(rest)
        BY <1>4, AfterEmpty
    <2>3. Media!Promised(reply'.asked, reply'.length) = After(Media!Places(body'), ToSend(pieces'))
        BY <1>1, <1>2, <1>3, <1>5, <2>1, <2>2
    <2> QED
        BY <1>3, <1>4, <1>5, <2>3 DEF OnCourse
<1>12. Within'
    BY <1>1, <1>3, <1>5 DEF Within
<1>13. AtTheEnd'
    BY <1>2 DEF AtTheEnd, MediaAssumption
<1> QED
    BY <1>7, <1>8, <1>9, <1>10, <1>11, <1>12, <1>13 DEF MediaInv

\* What the invariant says of an open file.
OpenFile ==
    /\ handle \in MediaFiles /\ handle # None /\ reply \in MediaAnswers /\ reply # None
    /\ pieces \in Seq(BodyPieces) /\ body \in Seq(BodyPieces) /\ writes \in Nat

\* It does.
LEMMA FileIsOpen == MediaInv /\ handle # None => OpenFile
    BY DEF MediaInv, MediaShapes, OpenFile

\* The tail of what is left is left.
LEMMA TailIs ==
    ASSUME MediaInv, handle # None, pieces # <<>>
    PROVE  /\ Tail(pieces) \in Seq(BodyPieces) /\ Head(pieces) \in BodyPieces
           /\ ToSend(pieces) = After(Of(Head(pieces)), ToSend(Tail(pieces)))
           /\ \A k \in DOMAIN Tail(pieces) : Tail(pieces)[k] # Frame =>
                   Tail(pieces)[k][1] + Tail(pieces)[k][2] <= reply.length
           /\ Head(pieces) # Frame => Head(pieces)[1] + Head(pieces)[2] <= reply.length
<1>1. pieces \in Seq(BodyPieces)
    BY DEF MediaInv, MediaShapes
<1>2. \A k \in DOMAIN pieces : pieces[k] # Frame => pieces[k][1] + pieces[k][2] <= reply.length
    BY DEF MediaInv, Within
<1>3. /\ Tail(pieces) \in Seq(BodyPieces) /\ Head(pieces) \in BodyPieces
      /\ Len(Tail(pieces)) = Len(pieces) - 1
      /\ \A k \in 1..Len(Tail(pieces)) : Tail(pieces)[k] = pieces[k + 1]
    BY <1>1, HeadTailProperties
<1>4. DOMAIN pieces = 1..Len(pieces) /\ Len(pieces) \in Nat /\ Len(pieces) # 0
    BY <1>1, LenProperties, EmptySeq
<1>5. DOMAIN Tail(pieces) = 1..Len(Tail(pieces))
    BY <1>3, LenProperties
<1>6. ASSUME NEW k \in DOMAIN Tail(pieces), Tail(pieces)[k] # Frame
      PROVE  Tail(pieces)[k][1] + Tail(pieces)[k][2] <= reply.length
    <2>1. k + 1 \in DOMAIN pieces /\ Tail(pieces)[k] = pieces[k + 1]
        BY <1>3, <1>4, <1>5
    <2> QED
        BY <2>1, <1>2, <1>6
<1>7. Head(pieces) = pieces[1] /\ 1 \in DOMAIN pieces
    BY <1>1, <1>4
<1>8. ToSend(pieces) = After(Of(Head(pieces)), ToSend(Tail(pieces)))
    BY <1>1, SendNext
<1> QED
    BY <1>2, <1>3, <1>6, <1>7, <1>8

\* A piece before others.
LEMMA SendBefore ==
    ASSUME NEW q \in BodyPieces, NEW t \in Seq(BodyPieces)
    PROVE  /\ <<q>> \o t \in Seq(BodyPieces) /\ ToSend(<<q>> \o t) = After(Of(q), ToSend(t))
           /\ \A k \in DOMAIN (<<q>> \o t) :
                 (<<q>> \o t)[k] = q \/ \E j \in DOMAIN t : (<<q>> \o t)[k] = t[j]
<1> DEFINE o == <<q>>
           r == o \o t
<1>1. o \in Seq(BodyPieces) /\ Len(o) = 1 /\ o[1] = q
    OBVIOUS
<1> HIDE DEF o
<1>2. /\ r \in Seq(BodyPieces) /\ Len(r) = Len(o) + Len(t) /\ Len(t) \in Nat /\ DOMAIN t = 1..Len(t)
      /\ \A k \in 1..Len(o) + Len(t) : r[k] = IF k <= Len(o) THEN o[k] ELSE t[k - Len(o)]
    BY <1>1, ConcatProperties, LenProperties
<1> HIDE DEF r
<1>3. /\ Len(r) = 1 + Len(t) /\ r[1] = q
      /\ \A k \in 2..1 + Len(t) : r[k] = t[k - 1]
    BY <1>1, <1>2
<1>4. r # <<>>
    BY <1>2, <1>3, EmptySeq
<1>5. Head(r) = q
    BY <1>2, <1>3, <1>4
<1>6. Tail(r) = t
    <2>1. /\ Tail(r) \in Seq(BodyPieces) /\ Len(Tail(r)) = Len(r) - 1
          /\ \A k \in 1..Len(Tail(r)) : Tail(r)[k] = r[k + 1]
        BY <1>2, <1>4, HeadTailProperties
    <2>2. ASSUME NEW k \in 1..Len(t) PROVE Tail(r)[k] = t[k]
        BY <2>1, <1>2, <1>3
    <2> QED
        BY <2>1, <2>2, <1>2, <1>3, SeqEqual
<1>7. ToSend(r) = After(Of(q), ToSend(t))
    BY <1>2, <1>4, <1>5, <1>6, SendNext
<1>8. ASSUME NEW k \in DOMAIN r PROVE r[k] = q \/ \E j \in DOMAIN t : r[k] = t[j]
    <2>1. k \in 1..1 + Len(t)
        BY <1>2, <1>3, LenProperties
    <2>2. CASE k = 1
        BY <2>2, <1>3
    <2>3. CASE k # 1
        <3>1. k - 1 \in DOMAIN t /\ r[k] = t[k - 1]
            BY <2>1, <2>3, <1>2, <1>3
        <3> QED
            BY <3>1
    <2> QED
        BY <2>2, <2>3
<1> QED
    BY <1>2, <1>7, <1>8 DEF r, o

\* The invariant, after some bytes were sent, or none.
LEMMA SendingKeeps ==
    ASSUME MediaAssumption, MediaInv, handle # None, ending = None,
           NEW bytes \in Seq(BodyPieces), NEW rest \in Seq(BodyPieces),
           \A k \in 1..Len(bytes) : bytes[k] # Frame => bytes[k][2] = handle.mark,
           ToSend(pieces) = After(Media!Places(bytes), ToSend(rest)),
           \A k \in DOMAIN rest : rest[k] # Frame => rest[k][1] + rest[k][2] <= reply.length,
           body' = After(body, bytes), pieces' = rest,
           file' = file, registered' = registered, handle' = handle, reply' = reply,
           ending' = ending, writes' = writes
    PROVE  MediaInv'
<1>2. OpenFile
    BY FileIsOpen
<1> DEFINE b == After(body, bytes)
           promised == Media!Promised(reply.asked, reply.length)
<1>5. /\ b \in Seq(BodyPieces) /\ Media!Places(b) = After(Media!Places(body), Media!Places(bytes))
      /\ Len(b) = Len(body) + Len(bytes) /\ Len(body) \in Nat /\ Len(bytes) \in Nat
      /\ \A k \in 1..Len(body) + Len(bytes) :
            b[k] = IF k <= Len(body) THEN body[k] ELSE bytes[k - Len(body)]
    <2>1. body \in Seq(BodyPieces)
        BY <1>2 DEF OpenFile
    <2>2. /\ b \in Seq(BodyPieces) /\ Len(b) = Len(body) + Len(bytes)
          /\ \A k \in 1..Len(body) + Len(bytes) :
                b[k] = IF k <= Len(body) THEN body[k] ELSE bytes[k - Len(body)]
        BY <2>1, ConcatProperties DEF After
    <2>3. Media!Places(b) = After(Media!Places(body), Media!Places(bytes))
        BY <2>1, PlacesAfter
    <2>4. Len(body) \in Nat /\ Len(bytes) \in Nat
        BY <2>1, LenProperties
    <2> HIDE DEF b
    <2> QED
        BY <2>2, <2>3, <2>4
<1> HIDE DEF b
<1>6. body' = b
    BY DEF b
<1>7. promised = After(Media!Places(body), ToSend(pieces))
    BY DEF MediaInv, OnCourse
<1>8. /\ Media!Places(body) \in Seq(Positions) /\ Media!Places(bytes) \in Seq(Positions)
      /\ ToSend(rest) \in Seq(Positions)
    BY <1>2, PlacesIs, ToSendIs DEF OpenFile
<1>9. promised = After(Media!Places(b), ToSend(rest))
    <2>1. After(After(Media!Places(body), Media!Places(bytes)), ToSend(rest))
              = After(Media!Places(body), After(Media!Places(bytes), ToSend(rest)))
        BY <1>8, AfterAfter
    <2> QED
        BY <2>1, <1>5, <1>7
<1> HIDE DEF promised
<1>10. MediaShapes'
    BY <1>5, <1>6 DEF MediaInv, MediaShapes
<1>11. OneFile' /\ LengthKept'
    BY DEF MediaInv, OneFile, LengthKept
<1>12. InTime'
    <2>1. /\ reply.mark <= handle.mark
          /\ \A k \in DOMAIN body :
                body[k] # Frame => reply.mark <= body[k][2] /\ body[k][2] <= handle.mark
        BY DEF MediaInv, InTime
    <2>2. DOMAIN b = 1..Len(body) + Len(bytes) /\ DOMAIN body = 1..Len(body)
        BY <1>2, <1>5, LenProperties DEF OpenFile
    <2>3. handle.mark \in Nat
        BY <1>2 DEF OpenFile, MediaFiles
    <2>4. ASSUME NEW k \in DOMAIN b, b[k] # Frame
          PROVE  reply.mark <= b[k][2] /\ b[k][2] <= handle.mark
        <3>1. CASE k <= Len(body)
            <4>1. k \in DOMAIN body /\ b[k] = body[k]
                BY <3>1, <2>2, <1>5
            <4> QED
                BY <4>1, <2>1, <2>4
        <3>2. CASE ~ (k <= Len(body))
            <4>1. k - Len(body) \in 1..Len(bytes) /\ b[k] = bytes[k - Len(body)]
                BY <3>2, <2>2, <1>5
            <4>2. b[k][2] = handle.mark
                BY <4>1, <2>4
            <4>3. handle.mark <= handle.mark
                BY <2>3
            <4> QED
                BY <4>2, <4>3, <2>1
        <3> QED
            BY <3>1, <3>2
    <2> QED
        BY <1>6, <2>1, <2>4 DEF InTime
<1>13. OnCourse'
    <2>1. Media!Promised(reply'.asked, reply'.length) = promised
        BY DEF promised
    <2>2. reply.declared = Len(promised) /\ (reply.status = 416 <=> Media!Refused(reply.asked, reply.length))
        BY DEF MediaInv, OnCourse, promised
    <2> QED
        BY <1>6, <1>9, <2>1, <2>2 DEF OnCourse
<1>14. Within'
    BY DEF Within
<1>15. AtTheEnd'
    BY DEF AtTheEnd, MediaAssumption
<1> QED
    BY <1>10, <1>11, <1>12, <1>13, <1>14, <1>15 DEF MediaInv

\* A frame is sent.
LEMMA SendFrameKeeps == ASSUME MediaAssumption, MediaInv, Media!SendFrame PROVE MediaInv'
<1>1. /\ handle # None /\ pieces # <<>> /\ Head(pieces) = Frame /\ ending = None
      /\ body' = Append(body, Frame) /\ pieces' = Tail(pieces)
      /\ file' = file /\ registered' = registered /\ handle' = handle /\ reply' = reply
      /\ ending' = ending /\ writes' = writes
    BY DEF Media!SendFrame
<1> DEFINE f == <<Frame>>
<1>2. /\ f \in Seq(BodyPieces) /\ Len(f) = 1 /\ f[1] = Frame /\ f \in Seq(Positions)
    BY DEF BodyPieces, Positions
<1>3. Of(Frame) = f
    BY DEF Of
<1>4. body' = After(body, f)
    <2>1. body \in Seq(BodyPieces) /\ Frame \in BodyPieces
        BY DEF MediaInv, MediaShapes, BodyPieces
    <2>2. Append(body, Frame) = body \o <<Frame>>
        BY <2>1, AppendIsConcat
    <2> QED
        BY <1>1, <2>2 DEF After
<1> HIDE DEF f
<1>5. Media!Places(f) = f
    <2>1. Media!Places(f) \in Seq(Positions) /\ Len(Media!Places(f)) = 1 /\ Media!Places(f)[1] = Frame
        BY <1>2, PlacesIs
    <2> QED
        BY <2>1, <1>2, SeqEqual
<1>6. /\ Tail(pieces) \in Seq(BodyPieces)
      /\ ToSend(pieces) = After(Media!Places(f), ToSend(Tail(pieces)))
      /\ \A k \in DOMAIN Tail(pieces) : Tail(pieces)[k] # Frame =>
              Tail(pieces)[k][1] + Tail(pieces)[k][2] <= reply.length
    BY <1>1, <1>3, <1>5, TailIs
<1>7. \A k \in 1..Len(f) : f[k] # Frame => f[k][2] = handle.mark
    BY <1>2
<1> QED
    BY <1>1, <1>2, <1>4, <1>6, <1>7, SendingKeeps

\* Bytes are read and sent.
LEMMA SendBytesKeeps == ASSUME MediaAssumption, MediaInv, Media!SendBytes PROVE MediaInv'
<1> DEFINE p == Head(pieces)
           start == p[1]
           left == p[2]
           available == IF start < handle.length THEN handle.length - start ELSE 0
<1>1. /\ handle # None /\ pieces # <<>> /\ p # Frame /\ ending = None
      /\ file' = file /\ registered' = registered /\ handle' = handle /\ reply' = reply
      /\ writes' = writes
    BY DEF Media!SendBytes
<1>2. IF left = 0
      THEN pieces' = Tail(pieces) /\ body' = body /\ ending' = ending
      ELSE IF available = 0
      THEN ending' = "error" /\ body' = body /\ pieces' = pieces
      ELSE \E n \in 1..Media!Least(Media!Least(left, ReadSize), available) :
              /\ body' = body \o Media!Sent(start, n)
              /\ pieces' = IF left > n THEN <<<<start + n, left - n>>>> \o Tail(pieces)
                                       ELSE Tail(pieces)
              /\ ending' = ending
    BY DEF Media!SendBytes
<1>3. /\ Tail(pieces) \in Seq(BodyPieces) /\ p \in BodyPieces
      /\ ToSend(pieces) = After(Of(p), ToSend(Tail(pieces)))
      /\ \A k \in DOMAIN Tail(pieces) : Tail(pieces)[k] # Frame =>
              Tail(pieces)[k][1] + Tail(pieces)[k][2] <= reply.length
      /\ start + left <= reply.length
    BY <1>1, TailIs
<1>4. start \in Nat /\ left \in Nat /\ p = <<start, left>>
    BY <1>1, <1>3 DEF BodyPieces
<1>5. handle \in MediaFiles /\ reply \in MediaAnswers /\ body \in Seq(BodyPieces) /\ pieces \in Seq(BodyPieces)
    BY <1>1, FileIsOpen DEF OpenFile
<1>6. handle.length \in Nat /\ reply.length \in Nat /\ ReadSize \in Nat /\ Frame \notin Nat \X Nat
    BY <1>5 DEF MediaFiles, MediaAnswers, MediaAssumption
<1> HIDE DEF start, left
<1>7. CASE left = 0
    <2>1. pieces' = Tail(pieces) /\ body' = body /\ ending' = ending
        BY <1>2, <1>7
    <2>2. <<>> \in Seq(BodyPieces) /\ Len(<<>>) = 0
        BY EmptySeq
    <2>3. Media!Places(<<>>) = <<>> /\ Of(p) = <<>>
        <3>1. Media!Places(<<>>) \in Seq(Positions) /\ Len(Media!Places(<<>>)) = 0
            BY <2>2, PlacesIs
        <3>2. Of(p) \in Seq(Positions) /\ Len(Of(p)) = 0
            BY <1>1, <1>3, <1>7, OfIs DEF left
        <3> QED
            BY <3>1, <3>2, EmptySeq
    <2>4. body' = After(body, <<>>)
        BY <2>1, <1>5, AfterEmpty
    <2>5. ToSend(pieces) = After(Media!Places(<<>>), ToSend(Tail(pieces)))
        BY <1>3, <2>3
    <2>6. \A k \in 1..Len(<<>>) : <<>>[k] # Frame => <<>>[k][2] = handle.mark
        BY <2>2
    <2> QED
        BY <1>1, <1>3, <2>1, <2>2, <2>4, <2>5, <2>6, SendingKeeps
<1>8. CASE left # 0 /\ available = 0
    <2>1. ending' = "error" /\ body' = body /\ pieces' = pieces
        BY <1>2, <1>8
    <2>2. writes > 0
        <3>1. writes \in Nat
            BY DEF MediaInv, MediaShapes
        <3>2. writes = 0 => handle.length = reply.length
            BY <1>1 DEF MediaInv, LengthKept
        <3>3. ~ (start < handle.length)
            BY <1>4, <1>6, <1>8
        <3>4. start + left <= reply.length
            BY <1>3
        <3> QED
            BY <3>1, <3>2, <3>3, <3>4, <1>4, <1>6, <1>8
    <2>3. MediaShapes'
        BY <1>1, <2>1 DEF MediaInv, MediaShapes
    <2>4. OneFile' /\ LengthKept' /\ InTime' /\ OnCourse' /\ Within'
        BY <1>1, <2>1 DEF MediaInv, OneFile, LengthKept, InTime, OnCourse, Within
    <2>5. AtTheEnd'
        BY <1>1, <2>1, <2>2 DEF AtTheEnd
    <2> QED
        BY <2>3, <2>4, <2>5 DEF MediaInv
<1>9. CASE left # 0 /\ available # 0
    <2>1. PICK n \in 1..Media!Least(Media!Least(left, ReadSize), available) :
              /\ body' = body \o Media!Sent(start, n)
              /\ pieces' = IF left > n THEN <<<<start + n, left - n>>>> \o Tail(pieces)
                                       ELSE Tail(pieces)
              /\ ending' = ending
        BY <1>2, <1>9
    <2>2. n \in Nat /\ n <= left
        <3>1. available \in Nat
            BY <1>4, <1>6
        <3> HIDE DEF available
        <3> QED
            BY <3>1, <1>4, <1>6 DEF Media!Least
    <2> DEFINE m == left - n
               bytes == Media!Sent(start, n)
               rest == IF left > n THEN <<<<start + n, m>>>> \o Tail(pieces) ELSE Tail(pieces)
    <2>3. m \in Nat /\ left = n + m /\ start + n \in Nat /\ <<start + n, m>> # Frame
        BY <2>2, <1>4, <1>6
    <2>4. /\ bytes \in Seq(BodyPieces) /\ Len(bytes) = n /\ Media!Places(bytes) = Of(<<start, n>>)
          /\ \A k \in 1..n : bytes[k][2] = handle.mark
        BY <1>4, <1>5, <1>6, <2>2, SentIs
    <2>5. Of(p) = After(Of(<<start, n>>), Of(<<start + n, m>>))
        BY <1>4, <1>6, <2>2, <2>3, OfTwo
    <2> HIDE DEF m, bytes
    <2>6. /\ rest \in Seq(BodyPieces) /\ ToSend(rest) = After(Of(<<start + n, m>>), ToSend(Tail(pieces)))
          /\ \A k \in DOMAIN rest : rest[k] # Frame => rest[k][1] + rest[k][2] <= reply.length
        <3>1. CASE left > n
            <4> DEFINE q == <<start + n, m>>
            <4>1. rest = <<q>> \o Tail(pieces)
                BY <3>1
            <4>2. q \in BodyPieces /\ q[1] + q[2] <= reply.length
                <5>1. q \in BodyPieces /\ q[1] = start + n /\ q[2] = m
                    BY <2>3 DEF BodyPieces
                <5> HIDE DEF q
                <5> QED
                    BY <5>1, <1>3, <1>4, <1>6, <2>2, <2>3
            <4> HIDE DEF q, rest
            <4>3. /\ rest \in Seq(BodyPieces) /\ ToSend(rest) = After(Of(q), ToSend(Tail(pieces)))
                  /\ \A k \in DOMAIN rest :
                        rest[k] = q \/ \E j \in DOMAIN Tail(pieces) : rest[k] = Tail(pieces)[j]
                BY <1>3, <4>1, <4>2, SendBefore
            <4>4. ASSUME NEW k \in DOMAIN rest, rest[k] # Frame
                  PROVE  rest[k][1] + rest[k][2] <= reply.length
                BY <4>2, <4>3, <4>4, <1>3
            <4> QED
                BY <4>3, <4>4 DEF q
        <3>2. CASE ~ (left > n)
            <4>1. rest = Tail(pieces) /\ m = 0
                BY <3>2, <2>2, <2>3, <1>4
            <4>2. <<start + n, m>> \in BodyPieces
                BY <2>3 DEF BodyPieces
            <4>3. Of(<<start + n, m>>) = <<>>
                <5>1. Of(<<start + n, m>>) \in Seq(Positions) /\ Len(Of(<<start + n, m>>)) = 0
                    BY <4>1, <4>2, <2>3, OfIs
                <5> QED
                    BY <5>1, EmptySeq
            <4>4. ToSend(Tail(pieces)) \in Seq(Positions)
                BY <1>3, ToSendIs
            <4>5. After(<<>>, ToSend(Tail(pieces))) = ToSend(Tail(pieces))
                BY <4>4, AfterEmpty
            <4> HIDE DEF rest
            <4> QED
                BY <4>1, <4>3, <4>5, <1>3
        <3> QED
            BY <3>1, <3>2
    <2>7. pieces' = rest /\ body' = After(body, bytes) /\ ending' = ending
        BY <2>1 DEF m, bytes, After
    <2> HIDE DEF rest
    <2>8. ToSend(pieces) = After(Media!Places(bytes), ToSend(rest))
        <3> DEFINE x == Of(<<start, n>>)
                   y == Of(<<start + n, m>>)
                   z == ToSend(Tail(pieces))
        <3>1. x \in Seq(Positions) /\ y \in Seq(Positions) /\ z \in Seq(Positions)
            <4>1. <<start, n>> \in BodyPieces /\ <<start + n, m>> \in BodyPieces
                BY <1>4, <2>2, <2>3 DEF BodyPieces
            <4> QED
                BY <4>1, <1>3, OfIs, ToSendIs
        <3>2. ToSend(pieces) = After(After(x, y), z)
            BY <1>3, <2>5
        <3>3. After(Media!Places(bytes), ToSend(rest)) = After(x, After(y, z))
            BY <2>4, <2>6
        <3> HIDE DEF x, y, z
        <3> QED
            BY <3>1, <3>2, <3>3, AfterAfter
    <2>9. \A k \in 1..Len(bytes) : bytes[k] # Frame => bytes[k][2] = handle.mark
        BY <2>4
    <2> QED
        BY <1>1, <2>4, <2>6, <2>7, <2>8, <2>9, SendingKeeps
<1> QED
    BY <1>7, <1>8, <1>9

\* What was opened and answered is kept.
LEMMA AnswerKept ==
    ASSUME MediaInv, UNCHANGED <<reply, pieces, body>>, handle' # None => handle # None
    PROVE  OnCourse' /\ Within'
    BY DEF MediaInv, OnCourse, Within

\* A read fails: something changed.
LEMMA ReadFailsKeeps == ASSUME MediaAssumption, MediaInv, Media!ReadFails PROVE MediaInv'
<1>1. /\ handle # None /\ writes' = writes + 1 /\ ending' = "error"
      /\ file' = file /\ registered' = registered /\ handle' = handle /\ reply' = reply
      /\ pieces' = pieces /\ body' = body
    BY DEF Media!ReadFails
<1>2. writes \in Nat /\ MediaShapes
    BY DEF MediaInv, MediaShapes
<1>3. MediaShapes'
    BY <1>1, <1>2 DEF MediaShapes
<1>4. OneFile'
    <2>1. /\ file # None => file \in MediaFiles
          /\ handle \in MediaFiles
        BY <1>1, <1>2 DEF MediaShapes
    <2> QED
        BY <1>1, <1>2, <2>1 DEF MediaInv, OneFile, MediaFiles
<1>5. LengthKept' /\ AtTheEnd'
    BY <1>1, <1>2 DEF LengthKept, AtTheEnd
<1>6. InTime'
    BY <1>1 DEF MediaInv, InTime
<1>7. OnCourse' /\ Within'
    BY <1>1, AnswerKept
<1> QED
    BY <1>3, <1>4, <1>5, <1>6, <1>7 DEF MediaInv

\* A body is complete.
LEMMA CompleteKeeps == ASSUME MediaAssumption, MediaInv, Media!Complete PROVE MediaInv'
<1>1. /\ handle # None /\ ending' = "complete" /\ pieces = <<>>
      /\ file' = file /\ registered' = registered /\ handle' = handle /\ reply' = reply
      /\ pieces' = pieces /\ body' = body /\ writes' = writes
    BY DEF Media!Complete
<1>2. MediaShapes'
    BY <1>1 DEF MediaInv, MediaShapes
<1>3. OneFile' /\ LengthKept' /\ InTime' /\ OnCourse' /\ Within'
    BY <1>1 DEF MediaInv, OneFile, LengthKept, InTime, OnCourse, Within
<1>4. AtTheEnd'
    BY <1>1 DEF AtTheEnd
<1> QED
    BY <1>2, <1>3, <1>4 DEF MediaInv

\* A connection is closed.
LEMMA CloseKeeps == ASSUME MediaAssumption, MediaInv, Media!CloseConnection PROVE MediaInv'
<1>1. /\ handle' = None /\ reply' = None /\ pieces' = <<>> /\ body' = <<>> /\ ending' = None
      /\ file' = file /\ registered' = registered /\ writes' = writes
    BY DEF Media!CloseConnection
<1>2. MediaShapes'
    BY <1>1, EmptySeq DEF MediaInv, MediaShapes
<1>3. OneFile'
    BY <1>1 DEF MediaInv, OneFile
<1>4. None # "complete" /\ None # "error"
    BY DEF MediaAssumption
<1>5. LengthKept' /\ InTime' /\ OnCourse' /\ Within' /\ AtTheEnd'
    BY <1>1, <1>4 DEF LengthKept, InTime, OnCourse, Within, AtTheEnd
<1> QED
    BY <1>2, <1>3, <1>5 DEF MediaInv

\* A path is given a token.
LEMMA RegisterKeeps == ASSUME MediaAssumption, MediaInv, Media!Register PROVE MediaInv'
<1>1. /\ registered' = TRUE
      /\ file' = file /\ handle' = handle /\ reply' = reply
      /\ pieces' = pieces /\ body' = body /\ ending' = ending /\ writes' = writes
    BY DEF Media!Register, Media!answer
<1>2. MediaShapes'
    BY <1>1 DEF MediaInv, MediaShapes
<1>3. OneFile' /\ LengthKept' /\ InTime' /\ OnCourse' /\ Within' /\ AtTheEnd'
    BY <1>1 DEF MediaInv, OneFile, LengthKept, InTime, OnCourse, Within, AtTheEnd
<1> QED
    BY <1>2, <1>3 DEF MediaInv

\* The file is written to: a handle on it sees what is newer.
LEMMA WriteInPlaceKeeps ==
    ASSUME MediaAssumption, MediaInv, NEW n \in FileLengths, Media!WriteInPlace(n) PROVE MediaInv'
<1>1. PICK mark \in {file.mark, writes'} :
          file' = [file EXCEPT !.length = n, !.mark = IF n < file.length THEN @ ELSE mark]
    BY DEF Media!WriteInPlace
<1>2. /\ file # None /\ writes' = writes + 1
      /\ handle' = IF handle # None /\ handle.number = file.number THEN file' ELSE handle
      /\ registered' = registered /\ reply' = reply
      /\ pieces' = pieces /\ body' = body /\ ending' = ending
    BY DEF Media!WriteInPlace
<1>3. file \in MediaFiles /\ n \in Nat /\ writes \in Nat /\ None \notin MediaFiles
    <2>1. None \notin MediaFiles
        BY DEF MediaAssumption, MediaFiles
    <2> QED
        BY <1>2, <2>1 DEF MediaInv, MediaShapes, MediaAssumption
<1>4. file.number <= writes + 1 /\ file.mark <= writes
    BY <1>2 DEF MediaInv, OneFile
<1>5. /\ file' \in MediaFiles /\ file'.number = file.number
      /\ file.mark <= file'.mark /\ file'.mark <= writes + 1
    <2> DEFINE m == IF n < file.length THEN file.mark ELSE mark
    <2>1. m \in Nat /\ file.mark <= m /\ m <= writes + 1
        BY <1>1, <1>2, <1>3, <1>4 DEF MediaFiles
    <2>2. file' = [file EXCEPT !.length = n, !.mark = m]
        BY <1>1
    <2> HIDE DEF m
    <2> QED
        BY <2>1, <2>2, <1>3 DEF MediaFiles
<1>6. file' # None
    BY <1>3, <1>5
<1>7. handle # None => handle \in MediaFiles
    BY DEF MediaInv, MediaShapes
<1>8. CASE handle # None /\ handle.number = file.number
    <2>1. handle = file /\ handle' = file'
        BY <1>2, <1>8 DEF MediaInv, OneFile
    <2>2. MediaShapes'
        BY <2>1, <1>2, <1>3, <1>5, <1>6, <1>8 DEF MediaInv, MediaShapes
    <2>3. OneFile'
        <3>1. file'.number <= writes' + 1 /\ file'.mark <= writes'
            BY <1>2, <1>3, <1>4, <1>5 DEF MediaFiles
        <3> QED
            BY <2>1, <3>1 DEF OneFile
    <2>4. LengthKept' /\ AtTheEnd'
        BY <1>2, <1>3 DEF MediaInv, LengthKept, AtTheEnd
    <2>5. InTime'
        <3>1. /\ reply.mark <= file.mark
              /\ \A k \in DOMAIN body :
                    body[k] # Frame => reply.mark <= body[k][2] /\ body[k][2] <= file.mark
            BY <2>1, <1>8 DEF MediaInv, InTime
        <3>2. body \in Seq(BodyPieces) /\ reply \in MediaAnswers
            BY <1>8, FileIsOpen DEF OpenFile
        <3>3. reply.mark \in Nat /\ file.mark \in Nat /\ file'.mark \in Nat
            BY <3>2, <1>3, <1>5 DEF MediaAnswers, MediaFiles
        <3>4. ASSUME NEW k \in DOMAIN body, body[k] # Frame
              PROVE  reply.mark <= body[k][2] /\ body[k][2] <= file'.mark
            <4>1. body[k] \in BodyPieces
                BY <3>2, <3>4, LenProperties, ElementOfSeq
            <4>2. body[k][2] \in Nat
                BY <4>1, <3>4 DEF BodyPieces
            <4> QED
                BY <4>2, <3>1, <3>3, <3>4, <1>5
        <3>5. reply.mark <= file'.mark
            BY <3>1, <3>3, <1>5
        <3> QED
            BY <2>1, <1>2, <3>4, <3>5 DEF InTime
    <2>6. OnCourse' /\ Within'
        BY <1>2, <1>8, AnswerKept
    <2> QED
        BY <2>2, <2>3, <2>4, <2>5, <2>6 DEF MediaInv
<1>9. CASE ~ (handle # None /\ handle.number = file.number)
    <2>1. handle' = handle
        BY <1>2, <1>9
    <2>2. MediaShapes'
        BY <2>1, <1>2, <1>3, <1>5 DEF MediaInv, MediaShapes
    <2>3. OneFile'
        <3>1. file'.number <= writes' + 1 /\ file'.mark <= writes'
            BY <1>2, <1>3, <1>4, <1>5 DEF MediaFiles
        <3>2. handle # None => handle.number <= writes' + 1
            BY <1>2, <1>3, <1>7 DEF MediaInv, OneFile, MediaFiles
        <3> QED
            BY <2>1, <3>1, <3>2, <1>5, <1>9 DEF OneFile
    <2>4. LengthKept' /\ AtTheEnd'
        BY <1>2, <1>3 DEF MediaInv, LengthKept, AtTheEnd
    <2>5. InTime'
        BY <2>1, <1>2 DEF MediaInv, InTime
    <2>6. OnCourse' /\ Within'
        BY <2>1, <1>2, AnswerKept
    <2> QED
        BY <2>2, <2>3, <2>4, <2>5, <2>6 DEF MediaInv
<1> QED
    BY <1>8, <1>9

\* The file is replaced or removed: the open one stays.
LEMMA ReplaceFileKeeps ==
    ASSUME MediaAssumption, MediaInv, NEW n \in FileLengths, Media!ReplaceFile(n) PROVE MediaInv'
<1>1. /\ writes' = writes + 1
      /\ \/ file' = [number |-> writes' + 1, length |-> n, mark |-> writes']
         \/ file' = None
      /\ registered' = registered /\ handle' = handle /\ reply' = reply
      /\ pieces' = pieces /\ body' = body /\ ending' = ending
    BY DEF Media!ReplaceFile, Media!answer
<1>2. writes \in Nat /\ writes' \in Nat /\ n \in Nat /\ (handle # None => handle \in MediaFiles)
    BY <1>1 DEF MediaInv, MediaShapes, MediaAssumption
<1>3. \/ file' = None
      \/ file' \in MediaFiles /\ file'.number = writes' + 1 /\ file'.mark = writes'
    BY <1>1, <1>2 DEF MediaFiles
<1>4. MediaShapes'
    BY <1>1, <1>2, <1>3 DEF MediaInv, MediaShapes
<1>5. OneFile'
    <2>1. handle # None => handle.number <= writes + 1 /\ handle.number \in Nat
        BY <1>2 DEF MediaInv, OneFile, MediaFiles
    <2>2. handle # None => handle.number <= writes' + 1 /\ handle.number # writes' + 1
        BY <2>1, <1>1, <1>2
    <2>3. file' # None => file'.number <= writes' + 1 /\ file'.mark <= writes'
        BY <1>2, <1>3
    <2> QED
        BY <2>2, <2>3, <1>1, <1>3 DEF OneFile
<1>6. LengthKept' /\ AtTheEnd'
    BY <1>1, <1>2 DEF MediaInv, LengthKept, AtTheEnd
<1>7. InTime'
    BY <1>1 DEF MediaInv, InTime
<1>8. OnCourse' /\ Within'
    BY <1>1, AnswerKept
<1> QED
    BY <1>4, <1>5, <1>6, <1>7, <1>8 DEF MediaInv

\* Every step keeps the invariant.
LEMMA MediaStep ==
    ASSUME MediaAssumption, MediaInv, [Media!MediaNext]_Media!mediaVars PROVE MediaInv'
<1>1. CASE Media!Register
    BY <1>1, RegisterKeeps
<1>2. CASE \E header \in Ranges : Media!Serve(header)
    BY <1>2, ServeKeeps
<1>3. CASE Media!SendFrame
    BY <1>3, SendFrameKeeps
<1>4. CASE Media!SendBytes
    BY <1>4, SendBytesKeeps
<1>5. CASE Media!ReadFails
    BY <1>5, ReadFailsKeeps
<1>6. CASE Media!Complete
    BY <1>6, CompleteKeeps
<1>7. CASE Media!CloseConnection
    BY <1>7, CloseKeeps
<1>8. CASE \E n \in FileLengths : Media!WriteInPlace(n) \/ Media!ReplaceFile(n)
    BY <1>8, WriteInPlaceKeeps, ReplaceFileKeeps
<1>9. CASE UNCHANGED Media!mediaVars
    <2>1. /\ file' = file /\ registered' = registered /\ handle' = handle /\ reply' = reply
          /\ pieces' = pieces /\ body' = body /\ ending' = ending /\ writes' = writes
        BY <1>9 DEF Media!mediaVars
    <2>2. MediaShapes'
        BY <2>1 DEF MediaInv, MediaShapes
    <2>3. OneFile' /\ LengthKept' /\ InTime' /\ OnCourse' /\ Within' /\ AtTheEnd'
        BY <2>1 DEF MediaInv, OneFile, LengthKept, InTime, OnCourse, Within, AtTheEnd
    <2> QED
        BY <2>2, <2>3 DEF MediaInv
<1> QED
    BY <1>1, <1>2, <1>3, <1>4, <1>5, <1>6, <1>7, <1>8, <1>9 DEF Media!MediaNext

\* What is sent is what was header for.
THEOREM AnswersAreHonest == ASSUME MediaAssumption PROVE Media!MediaSpec => []Media!ServedAsDeclared
<1>1. Media!MediaInit => MediaInv
    BY MediaInitially
<1>2. MediaInv /\ [Media!MediaNext]_Media!mediaVars => MediaInv'
    BY MediaStep
<1>3. MediaInv => Media!ServedAsDeclared
    BY MediaHolds
<1> QED
    BY <1>1, <1>2, <1>3, PTL DEF Media!MediaSpec
===============================================================================
