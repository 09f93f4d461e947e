---- MODULE Sidecar ----
(***************************************************************************)
(* The anchor sidecar file (internal/game/persist.go): checkpoints that    *)
(* leave the memory of the history grid are appended to a file, and the    *)
(* index of what it holds is rebuilt by a scan at boot.                    *)
(*                                                                         *)
(* The file is a sequence of units: a record is a header and, if it brings *)
(* a new state, the units of its bitmap.  A write that fails, or that the  *)
(* process does not survive, leaves any proper part of a record; a header  *)
(* cut short is a "stub".  A state stands for its bitmap's hash.  What a   *)
(* scan reads as a header where there is none is taken to be implausible   *)
(* (a length beyond the file, or an unknown hash), which ends the scan.    *)
(***************************************************************************)
EXTENDS Integers, Sequences

CONSTANTS
    States,         \* bitmaps of checkpoints
    Payload,        \* units of a bitmap
    None,
    MaxEvictions, MaxBoots, MaxFaults       \* bounds

ASSUME SidecarAssumption ==
    /\ None \notin States
    /\ Payload \in Nat \ {0}
    /\ MaxEvictions \in Nat /\ MaxBoots \in Nat /\ MaxFaults \in Nat

VARIABLES
    file,       \* the sidecar file
    stage,      \* "down", "delta" (warmFromSnapshot folds), "up"
    evicted,    \* ag.evicted
    blobs,      \* anchorBlobs
    last,       \* lastAnchorHash
    opened,     \* anchorFile is open and locked
    minute,     \* the boundary evicted next
    evictions, boots, faults,
    damaged,    \* (only observed) a record has been written in part, or not at all
    offered,    \* (only observed) checkpoints given to writeAnchorBlob
    safe        \* (only observed) checkpoints persisted before any damage

memory == <<evicted, blobs, last>>
counts == <<evictions, boots, faults>>
sidecarVars == <<file, stage, memory, opened, minute, counts, damaged, offered, safe>>

HeadOf(t, s, len) == [kind |-> "head", t |-> t, state |-> s, len |-> len]
Body(s, i) == [kind |-> "body", state |-> s, part |-> i]
Stub == [kind |-> "stub"]
Bodies(s) == [i \in 1..Payload |-> Body(s, i)]
Ref(t, s, loc) == [t |-> t, state |-> s, off |-> loc.off, len |-> loc.len]
NoBlobs == [s \in {} |-> 0]
NoLoc == [off |-> 0, len |-> 0]
Locs == [off : 1..Len(file), len : {Payload}]

SidecarTypeOK ==
    /\ \A i \in 1..Len(file) : file[i].kind \in {"head", "body", "stub"}
    /\ stage \in {"down", "delta", "up"}
    /\ \A i \in 1..Len(evicted) :
        /\ evicted[i].t \in 1..MaxEvictions /\ evicted[i].state \in States
        /\ evicted[i].len \in {0, Payload}
    /\ DOMAIN blobs \subseteq States
    /\ \A s \in DOMAIN blobs : blobs[s].len = Payload
    /\ last \in States \cup {None}
    /\ opened \in BOOLEAN
    /\ minute \in 1..(MaxEvictions + 1)
    /\ evictions \in 0..MaxEvictions /\ boots \in 0..MaxBoots /\ faults \in 0..MaxFaults
    /\ damaged \in BOOLEAN
    /\ safe \subseteq offered /\ offered \subseteq (1..MaxEvictions) \X States

(* A first boot, without snapshot and sidecar; resetAnchorSidecar may have *)
(* failed to open the file.                                                *)
SidecarInit ==
    /\ file = <<>> /\ stage = "up"
    /\ evicted = <<>> /\ blobs = NoBlobs /\ last = None
    /\ opened \in BOOLEAN
    /\ minute = 1
    /\ evictions = 0 /\ boots = 0 /\ faults = 0
    /\ damaged = FALSE /\ offered = {} /\ safe = {}

(***************************************************************************)
(* writeAnchorBlob.                                                        *)
(***************************************************************************)
Known(s) == s \in DOMAIN blobs
Reuses(s) == s = last \/ Known(s)

(* Mutated form of NewLoc: the header is counted in.                       *)
NewLocWithHeader == [off |-> Len(file) + 1, len |-> Payload + 1]

(* A new blob starts after its header.                                     *)
NewLoc == [off |-> Len(file) + 1, len |-> Payload]

LocOf(s) == IF Known(s) THEN blobs[s] ELSE IF Reuses(s) THEN NoLoc ELSE NewLoc

(* A state the file has already, or that was written last, is a header of  *)
(* length 0.                                                               *)
Record(t, s) ==
    IF Reuses(s) THEN <<HeadOf(t, s, 0)>> ELSE <<HeadOf(t, s, Payload)>> \o Bodies(s)

(* The blob is registered before the write, whatever comes of that.        *)
Registered(s) ==
    IF Reuses(s) THEN blobs ELSE [x \in DOMAIN blobs \cup {s} |-> IF x = s THEN NewLoc ELSE blobs[x]]

Offer(s) ==
    /\ stage # "down"
    /\ evictions < MaxEvictions
    /\ evictions' = evictions + 1
    /\ minute' = minute + 1
    /\ offered' = offered \cup {<<minute, s>>}

(* evict keeps the reference of what was written.                          *)
Persist(s) ==
    /\ Offer(s)
    /\ file' = file \o Record(minute, s)
    /\ blobs' = Registered(s)
    /\ last' = s
    /\ evicted' = Append(evicted, Ref(minute, s, LocOf(s)))
    /\ opened' = TRUE
    /\ safe' = IF damaged THEN safe ELSE safe \cup {<<minute, s>>}
    /\ UNCHANGED <<stage, boots, faults, damaged>>

(* Nothing of a record, a stub of its header, or the header and some of    *)
(* the bitmap.                                                             *)
Torn(rec) == {<<>>, <<Stub>>} \cup {SubSeq(rec, 1, n) : n \in 1..(Len(rec) - 1)}

Fault ==
    /\ faults < MaxFaults
    /\ faults' = faults + 1
    /\ damaged' = TRUE

(* The write fails: the checkpoint is dropped.                             *)
WriteFails(s) ==
    /\ Offer(s)
    /\ Fault
    /\ \E part \in Torn(Record(minute, s)) : file' = file \o part
    /\ blobs' = Registered(s)
    /\ opened' = TRUE
    /\ UNCHANGED <<stage, evicted, last, boots, safe>>

(* The file is held by another process, or cannot be opened.               *)
NotOpened(s) ==
    /\ Offer(s)
    /\ ~opened
    /\ UNCHANGED <<file, stage, memory, opened, boots, faults, damaged, safe>>

Gone ==
    /\ stage' = "down"
    /\ evicted' = <<>> /\ blobs' = NoBlobs /\ last' = None
    /\ opened' = FALSE

DieWriting(s) ==
    /\ Offer(s)
    /\ Fault
    /\ \E part \in Torn(Record(minute, s)) : file' = file \o part
    /\ Gone
    /\ UNCHANGED <<boots, safe>>

Die ==
    /\ stage # "down"
    /\ Gone
    /\ UNCHANGED <<file, minute, counts, damaged, offered, safe>>

(***************************************************************************)
(* Boot.                                                                   *)
(***************************************************************************)
Boot ==
    /\ stage = "down"
    /\ boots < MaxBoots
    /\ boots' = boots + 1
    /\ UNCHANGED <<evictions, faults, offered>>

(* The grid comes from a snapshot that may be older than the last          *)
(* evictions, and the delta fold evicts before the file is scanned.        *)
BootFromSnapshot ==
    /\ Boot
    /\ stage' = "delta"
    /\ minute' \in 1..minute
    /\ UNCHANGED <<file, memory, opened, damaged, safe>>

(* Mutated form of ScanStep: reuse records are skipped.                    *)
ScanStepNoReuse(acc, i) ==
    LET u == file[i] IN
    IF acc.stop \/ i # acc.pos THEN acc
    ELSE IF u.kind # "head" THEN [acc EXCEPT !.stop = TRUE]
    ELSE IF u.len = 0 THEN [acc EXCEPT !.pos = i + 1]
    ELSE IF i + u.len > Len(file) THEN [acc EXCEPT !.stop = TRUE]
    ELSE LET loc == [off |-> i, len |-> u.len] IN
         [acc EXCEPT !.pos = i + u.len + 1,
                     !.entries = Append(@, Ref(u.t, u.state, loc)),
                     !.blobs = [x \in DOMAIN @ \cup {u.state} |-> IF x = u.state THEN loc ELSE @[x]]]

(* One record; "pos" is where the next one starts.                         *)
ScanStep(acc, i) ==
    LET u == file[i] IN
    IF acc.stop \/ i # acc.pos THEN acc
    ELSE IF \/ u.kind # "head"
            \/ u.len = 0 /\ u.state \notin DOMAIN acc.blobs
            \/ i + u.len > Len(file)
         THEN [acc EXCEPT !.stop = TRUE]
    ELSE LET loc == IF u.len = 0 THEN acc.blobs[u.state] ELSE [off |-> i, len |-> u.len] IN
         [acc EXCEPT !.pos = i + u.len + 1,
                     !.entries = Append(@, Ref(u.t, u.state, loc)),
                     !.blobs = [x \in DOMAIN @ \cup {u.state} |-> IF x = u.state THEN loc ELSE @[x]]]

Unscanned == [pos |-> 1, stop |-> FALSE, entries |-> <<>>, blobs |-> NoBlobs]

Scanned ==
    LET scan[i \in 0..Len(file)] == IF i = 0 THEN Unscanned ELSE ScanStep(scan[i - 1], i)
    IN  scan[Len(file)]

(* scanAnchorSidecar replaces the index and the blobs, and only those.     *)
Scan ==
    /\ stage = "delta"
    /\ stage' = "up"
    /\ evicted' = Scanned.entries
    /\ blobs' = Scanned.blobs
    /\ UNCHANGED <<file, last, opened, minute, counts, damaged, offered, safe>>

ScanFails ==
    /\ stage = "delta"
    /\ stage' = "up"
    /\ safe' = {}
    /\ UNCHANGED <<file, memory, opened, minute, counts, damaged, offered>>

(* resetAnchorSidecar empties the file and forgets its blobs; it may fail  *)
(* to open the file, or to lock it after having emptied it.                *)
Reset ==
    /\ evicted' = <<>>
    /\ safe' = {}
    /\ minute' = 1
    /\ \/ /\ file' = <<>> /\ blobs' = NoBlobs /\ last' = None
          /\ opened' = TRUE /\ damaged' = FALSE
       \/ /\ file' = <<>> /\ opened' = FALSE
          /\ damaged' = (blobs # NoBlobs)
          /\ UNCHANGED <<blobs, last>>
       \/ opened' = FALSE /\ UNCHANGED <<file, blobs, last, damaged>>

(* Without a snapshot the whole ledger is replayed.                        *)
BootByReplay ==
    /\ Boot
    /\ stage' = "up"
    /\ Reset

(* The delta fold fails, and a full replay follows.                        *)
FallBack ==
    /\ stage = "delta"
    /\ stage' = "up"
    /\ Reset
    /\ UNCHANGED <<counts, offered>>

SidecarNext ==
    \/ \E s \in States : Persist(s) \/ WriteFails(s) \/ NotOpened(s) \/ DieWriting(s)
    \/ Die \/ BootFromSnapshot \/ Scan \/ ScanFails \/ BootByReplay \/ FallBack

SidecarSpec == SidecarInit /\ [][SidecarNext]_sidecarVars

(***************************************************************************)
(* readAnchorBlobLocked.                                                   *)
(***************************************************************************)
(* Mutated form of ReadBlob: the hash is not compared.                     *)
ReadBlobUnchecked(ref) ==
    IF ref.len # 0 /\ ref.off + ref.len <= Len(file) /\ file[ref.off + 1].kind = "body"
    THEN file[ref.off + 1].state ELSE None

(* The state whose bitmap is at the reference, if its hash is the right    *)
(* one, or an error.                                                       *)
ReadBlob(ref) ==
    IF /\ ref.len # 0 /\ ref.off + ref.len <= Len(file)
       /\ SubSeq(file, ref.off + 1, ref.off + ref.len) = Bodies(ref.state)
    THEN ref.state ELSE None

(***************************************************************************)
(* Properties.                                                             *)
(***************************************************************************)
(* What can be read of an indexed checkpoint is the canvas that was        *)
(* evicted at that minute, whatever was torn, failed or restarted: damage  *)
(* shows as an error, never as another canvas (writeAnchorBlob, scan, read).*)
NeverAnotherCanvas ==
    \A i \in 1..Len(evicted) :
        ReadBlob(evicted[i]) # None =>
            <<evicted[i].t, ReadBlob(evicted[i])>> \in offered

(* A running server indexes and can read every checkpoint persisted before *)
(* the first damage, in this process or an earlier one, reuse records      *)
(* included (scanAnchorSidecar: "Stops at the first torn/short record").   *)
SafeIsRecovered ==
    stage = "up" => \A w \in safe : \E i \in 1..Len(evicted) :
        <<evicted[i].t, ReadBlob(evicted[i])>> = w

(* Both: the file gives back what was put in it, or an error.              *)
FileIsTrue == NeverAnotherCanvas /\ SafeIsRecovered
====
