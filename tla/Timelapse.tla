---- MODULE Timelapse ----
(***************************************************************************)
(* The timelapse page (internal/web/static/history.js): a slider whose     *)
(* moves pass a trailing-edge throttle, one query per stop, answers in any *)
(* order, and a canvas only the newest query may draw on.  What a frame    *)
(* shows is History's subject: here a frame is the position asked for.     *)
(***************************************************************************)
EXTENDS Integers, FiniteSets

CONSTANTS
    Newest,         \* the slider's positions are 0..Newest
    MaxSlides       \* bound: moves of the slider

ASSUME SliderAssumption == Newest \in Nat /\ MaxSlides \in Nat

Nowhere == -1
Positions == 0..Newest

VARIABLES
    slider,     \* its position, Nowhere while it is disabled
    pending,    \* throttle: the arguments to use next
    hot,        \* throttle: less than 120 ms since the last call
    trailing,   \* throttle: its timer is set
    seekSeq,
    queries,    \* queries under way
    drawn,      \* the position whose frame is on the canvas
    label,      \* the one whose time is in the label
    hstatus,
    slides,
    resized     \* (only observed) a frame was of another grid size

seekVars == <<slider, pending, hot, trailing, seekSeq, queries, drawn, label, hstatus,
              slides, resized>>

MaxSeeks == 2 * MaxSlides + 2

SeekTypeOK ==
    /\ {slider, pending, drawn, label} \subseteq Positions \cup {Nowhere}
    /\ hot \in BOOLEAN /\ trailing \in BOOLEAN /\ resized \in BOOLEAN
    /\ seekSeq \in 0..MaxSeeks
    /\ queries \subseteq [seq : 1..seekSeq, at : Positions]
    /\ \A a, b \in queries : a.seq = b.seq => a = b
    /\ hstatus \in {"blank", "querying", "failed", "unpainted", "unavailable"}
    /\ slides \in 0..MaxSlides

SeekInit ==
    /\ slider = Nowhere /\ pending = Nowhere
    /\ hot = FALSE /\ trailing = FALSE
    /\ seekSeq = 0 /\ queries = {}
    /\ drawn = Nowhere /\ label = Nowhere /\ hstatus = "blank"
    /\ slides = 0 /\ resized = FALSE

(* Mutated form of Seek: the number is used and not increased.             *)
SeekUnnumbered(p) ==
    /\ seekSeq' = seekSeq
    /\ queries' = queries \cup {[seq |-> seekSeq, at |-> p]}
    /\ hstatus' = "querying"

Seek(p) ==
    /\ seekSeq' = seekSeq + 1
    /\ queries' = queries \cup {[seq |-> seekSeq + 1, at |-> p]}
    /\ hstatus' = "querying"

ThrottledSeek(p) ==
    /\ pending' = p
    /\ IF hot
       THEN trailing' = TRUE /\ UNCHANGED <<hot, seekSeq, queries, hstatus>>
       ELSE hot' = TRUE /\ Seek(p) /\ UNCHANGED trailing

(* The bounds arrive: the slider starts at the latest paint, if any.       *)
MetaArrives ==
    /\ slider = Nowhere /\ hstatus = "blank"
    /\ \/ slider' = Newest /\ ThrottledSeek(Newest)
       \/ /\ hstatus' \in {"unpainted", "unavailable"}
          /\ UNCHANGED <<slider, pending, hot, trailing, seekSeq, queries>>
    /\ UNCHANGED <<drawn, label, slides, resized>>

Slide(p) ==
    /\ slider # Nowhere /\ p # slider /\ slides < MaxSlides
    /\ slides' = slides + 1
    /\ slider' = p
    /\ ThrottledSeek(p)
    /\ UNCHANGED <<drawn, label, resized>>

(* 120 ms pass; the timer, set for that moment, may fire later.            *)
Cools ==
    /\ hot
    /\ hot' = FALSE
    /\ UNCHANGED <<slider, pending, trailing, seekSeq, queries, drawn, label, hstatus, slides, resized>>

TrailingFires ==
    /\ trailing
    /\ trailing' = FALSE
    /\ hot' = TRUE
    /\ Seek(pending)
    /\ UNCHANGED <<slider, pending, drawn, label, slides, resized>>

(* Mutated form of FrameArrives: an answer to an earlier stop draws too.   *)
FrameDraws(q) ==
    /\ q \in queries
    /\ queries' = queries \ {q}
    /\ drawn' = q.at /\ label' = q.at /\ hstatus' = "blank"
    /\ UNCHANGED <<slider, pending, hot, trailing, seekSeq, slides, resized>>

(* A frame of another size is not drawn, but the label is set and the      *)
(* message about it erased.                                                *)
FrameArrives(q) ==
    /\ q \in queries
    /\ queries' = queries \ {q}
    /\ IF q.seq # seekSeq
       THEN UNCHANGED <<drawn, label, hstatus, resized>>
       ELSE /\ label' = q.at /\ hstatus' = "blank"
            /\ \/ drawn' = q.at /\ UNCHANGED resized
               \/ resized' = TRUE /\ UNCHANGED drawn
    /\ UNCHANGED <<slider, pending, hot, trailing, seekSeq, slides>>

QueryFails(q) ==
    /\ q \in queries
    /\ queries' = queries \ {q}
    /\ hstatus' = IF q.seq = seekSeq THEN "failed" ELSE hstatus
    /\ UNCHANGED <<slider, pending, hot, trailing, seekSeq, drawn, label, slides, resized>>

SeekNext ==
    \/ MetaArrives \/ Cools \/ TrailingFires
    \/ \E p \in Positions : Slide(p)
    \/ \E q \in queries : FrameArrives(q) \/ QueryFails(q)

(***************************************************************************)
(* Property.                                                               *)
(***************************************************************************)
(* With the slider at rest and its queries answered the page shows the     *)
(* frame of the slider's own position, or says that the query failed: no   *)
(* earlier stop, answered later or skipped by the throttle, stays on the   *)
(* canvas ("The latest request wins"; "always for the newest position").   *)
FrameIsNewest ==
    slider # Nowhere /\ queries = {} /\ ~trailing /\ ~resized =>
        hstatus = "failed" \/ (hstatus = "blank" /\ drawn = slider /\ label = slider)
====
