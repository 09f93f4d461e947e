---- MODULE ClientProofs ----
(***************************************************************************)
(* The four clients, each as a specification of its own: the paint view of *)
(* a browser, its timelapse page, the paint bot's run and the load bot's   *)
(* swarm, for any number of cells, clicks, requests, positions,            *)
(* placements, workers, players and claims; then Clients, which looks at   *)
(* them one at a time: each of its steps is a step of one of these, and    *)
(* leaves the others alone, or is one of the conversions.                  *)
(***************************************************************************)
EXTENDS Clients, LedgerProofs, ConversionProofs

(***************************************************************************)
(* The paint view. The server gives out ids in order, and a claim the page *)
(* has not been told of is in an answer on its way; the last event of a    *)
(* cell on the stream is what was announced of it.                         *)
(***************************************************************************)
(* The paint view, by itself.                                              *)
PageSpec == PaintInit /\ [][PaintNext]_paintVars

(* What is sent and recorded, without the bounds of the run.               *)
Events == [op : {"add", "remove"}, cell : Cells]
Requests == [n : Nat, path : {"/claim", "/confirm", "/cancel"}, cell : Cells \cup {NoCell},
             id : 0..MaxClaims, who : Nat, minted : BOOLEAN, answer : {"none", "ok", "error"}]
ClaimRecords == [cell : Cells \cup {NoCell}, owner : Nat, state : States]

PageTyped ==
    /\ claim \in [OwnClaims -> ClaimRecords]
    /\ minted \in Nat /\ cookie \in Nat /\ cookie <= minted /\ acts \in Nat
    /\ net \subseteq Requests
    /\ {armed, lastArmed} \subseteq Granted \cup {0}

(* Ids are given out in order; a superseded claim has a later one.         *)
InOrder ==
    /\ \E n \in 0..MaxClaims : Granted = 1..n
    /\ \A id \in Granted : /\ CellOf(id) \in Cells
                           /\ claim[id].owner \in 1..minted
                           /\ Is(id, {"superseded"}) => id + 1 \in Granted

(* The answers that bring a claim to the page.                             *)
Grants == {m \in net : m.path = "/claim" /\ m.answer = "ok"}

(* Every claim the page has not been told of is in an answer on its way.   *)
Told ==
    /\ armed \in {0, lastArmed}
    /\ \A m \in Grants : m.id \in Granted /\ m.id # lastArmed
    /\ \A a, b \in Grants : a.id = b.id => a = b
    /\ ~astray => \A id \in Granted : id > lastArmed => \E m \in Grants : m.id = id

(* A claim that is being or was painted or given up is not armed again.    *)
Spent ==
    ~astray =>
        /\ \A m \in net : m.path # "/claim" => m.id <= lastArmed /\ m.id # armed
        /\ \A id \in Granted : Is(id, {"posted", "cancelled"}) => id <= lastArmed /\ id # armed

(* The page has a cookie if it was ever told of one.                       *)
Known ==
    /\ \A m \in net : /\ m.who <= minted
                      /\ m.path = "/claim" => m.cell \in Cells
                      /\ m.path # "/claim" => m.id \in Granted
                      /\ m.answer = "none" => ~m.minted
                      /\ m.answer # "none" => m.who # 0
                      /\ m.who # 0 /\ ~m.minted => cookie # 0
    /\ lastArmed # 0 => cookie # 0

(* The events of a cell on the stream, and the last of them.               *)
On(c) == {i \in 1..Len(stream) : stream[i].cell = c}
IsLast(c, i) == i \in On(c) /\ \A j \in On(c) : j <= i

(* What is announced is the last event under way, or else what is drawn.   *)
BoxRight(c) ==
    /\ \A i \in 1..Len(stream) : IsLast(c, i) => (c \in announced <=> stream[i].op = "add")
    /\ On(c) = {} => IF c \in late THEN c \in boxes /\ c \notin announced
                     ELSE c \in boxes <=> c \in announced

(* The boxes of all cells.                                                 *)
BoxesRight ==
    /\ stream \in Seq(Events)
    /\ rival \subseteq Cells /\ announced \subseteq Cells /\ boxes \subseteq Cells
    /\ late \subseteq boxes
    /\ \A c \in Cells : BoxRight(c)

ClaimsRight == PageTyped /\ InOrder /\ Told /\ Spent /\ Known

(* The invariant the proof rests on.                                       *)
PageInv == ClaimsRight /\ BoxesRight

(* The events the server announces.                                        *)
LEMMA AnEvent ==
  \A c \in Cells : /\ Add(c) \in Events /\ Add(c).cell = c /\ Add(c).op = "add"
                   /\ Remove(c) \in Events /\ Remove(c).cell = c /\ Remove(c).op = "remove"
  BY DEF Add, Remove, Events

(* An announcement of one or two events: the last one of a cell counts.    *)
LEMMA Announced ==
  ASSUME BoxesRight, NEW es \in Seq(Events), Len(es) \in {1, 2}, Announce(es), UNCHANGED <<boxes, late>>,
         rival' \subseteq Cells
  PROVE  BoxesRight'
<1> DEFINE n == Len(stream)
<1>1. stream \in Seq(Events) /\ n \in Nat
  BY DEF BoxesRight
<1>2. /\ stream' \in Seq(Events) /\ Len(stream') = n + Len(es)
      /\ \A i \in 1..n : i \in 1..Len(stream') /\ stream'[i] = stream[i]
      /\ \A i \in 1..Len(es) : n + i \in 1..Len(stream') /\ stream'[n + i] = es[i]
      /\ \A i \in 1..Len(stream') : i \in 1..n \/ (i - n \in 1..Len(es) /\ i = n + (i - n))
  BY <1>1, ConcatProperties DEF Announce
<1>3. announced' \subseteq Cells
  BY DEF Announce
<1> HIDE DEF n
<1>4. ASSUME NEW c \in Cells PROVE BoxRight(c)'
  <2> DEFINE of == {i \in 1..Len(es) : es[i].cell = c}
             last == CHOOSE i \in of : \A j \in of : j <= i
  <2>1. c \in announced' <=> IF of = {} THEN c \in announced ELSE es[last].op = "add"
    BY DEF Announce
  <2>2. CASE of = {}
    <3>1. On(c)' = On(c)
      <4>1. ASSUME NEW i \in On(c)' PROVE i \in On(c)
        <5>1. i \in 1..Len(stream') /\ stream'[i].cell = c
          BY DEF On
        <5>2. CASE i \in 1..n
          BY <1>2, <5>1, <5>2 DEF On, n
        <5>3. CASE i - n \in 1..Len(es) /\ i = n + (i - n)
          <6>1. stream'[i] = es[i - n]
            BY <1>2, <5>3
          <6> QED
            BY <2>2, <5>1, <5>3, <6>1
        <5> QED
          BY <1>2, <5>1, <5>2, <5>3
      <4>2. ASSUME NEW i \in On(c) PROVE i \in On(c)'
        BY <1>2, <4>2 DEF On, n
      <4> QED
        BY <4>1, <4>2
    <3>2. \A i \in On(c) : stream'[i] = stream[i]
      BY <1>2 DEF On, n
    <3>3. \A i : IsLast(c, i)' => IsLast(c, i)
      BY <3>1 DEF IsLast
    <3>4. c \in announced' <=> c \in announced
      BY <2>1, <2>2
    <3>5. \A i \in 1..Len(stream') : IsLast(c, i)' => (c \in announced' <=> stream'[i].op = "add")
      BY <3>2, <3>3, <3>4 DEF BoxesRight, BoxRight, IsLast, On
    <3>6. On(c)' = {} => IF c \in late' THEN c \in boxes' /\ c \notin announced'
                         ELSE c \in boxes' <=> c \in announced'
      BY <3>1, <3>4 DEF BoxesRight, BoxRight
    <3> QED
      BY <3>5, <3>6 DEF BoxRight
  <2>3. CASE of # {}
    <3>1. last \in of /\ \A j \in of : j <= last
      <4>1. \E i \in of : \A j \in of : j <= i
        <5>1. of \subseteq {1, 2}
          OBVIOUS
        <5>2. CASE 2 \in of
          BY SMTT(40), <5>1, <5>2
        <5>3. CASE 2 \notin of
          <6>1. of = {1}
            BY <2>3, <5>1, <5>3
          <6> QED
            BY <6>1
        <5> QED
          BY <5>2, <5>3
      <4> QED
        BY <4>1
    <3> HIDE DEF last, of
    <3>2. \A i \in of : i \in 1..Len(es) /\ es[i].cell = c
      BY DEF of
    <3>3. n + last \in On(c)'
      BY <1>2, <3>1, <3>2 DEF On
    <3>4. ASSUME NEW i, IsLast(c, i)' PROVE i = n + last
      <4>1. i \in 1..Len(stream') /\ stream'[i].cell = c /\ n + last <= i
        BY <3>3, <3>4 DEF IsLast, On
      <4>2. last \in Nat /\ last >= 1
        BY <3>1, <3>2
      <4>3. i - n \in 1..Len(es) /\ i = n + (i - n)
        BY <1>1, <1>2, <4>1, <4>2 DEF n
      <4>4. i - n \in of
        BY <1>2, <4>1, <4>3 DEF of
      <4> QED
        BY <1>1, <3>1, <4>1, <4>2, <4>3, <4>4
    <3>5. stream'[n + last] = es[last]
      BY <1>2, <3>1, <3>2
    <3>6. c \in announced' <=> es[last].op = "add"
      BY <2>1, <2>3
    <3> QED
      BY <3>3, <3>4, <3>5, <3>6 DEF BoxRight
  <2> QED
    BY <2>2, <2>3
<1> QED
  BY <1>2, <1>3, <1>4 DEF BoxesRight

(* The next event reaches the page.                                        *)
LEMMA Delivered == ASSUME BoxesRight, StreamDelivers PROVE BoxesRight'
<1> DEFINE e == stream[1]
<1>0. stream \in Seq(Events) /\ stream # <<>>
  BY DEF BoxesRight, StreamDelivers
<1>h. Head(stream) = stream[1]
  BY <1>0, HeadTailProperties
<1>1. /\ stream \in Seq(Events) /\ stream # <<>> /\ stream' = Tail(stream)
      /\ boxes' = IF e.op = "add" THEN boxes \cup {e.cell} ELSE boxes \ {e.cell}
      /\ late' = late \ {e.cell} /\ announced' = announced /\ rival' = rival
  BY <1>0, <1>h DEF StreamDelivers, server
<1>2. /\ stream' \in Seq(Events) /\ Len(stream) \in Nat /\ Len(stream) > 0 /\ Len(stream') = Len(stream) - 1
      /\ \A i \in 1..Len(stream') : i + 1 \in 1..Len(stream) /\ stream'[i] = stream[i + 1]
      /\ \A i \in 1..Len(stream) : i = 1 \/ (i - 1 \in 1..Len(stream') /\ stream'[i - 1] = stream[i])
      /\ 1 \in 1..Len(stream)
  BY <1>1, HeadTailProperties, EmptySeq
<1>3. e \in Events /\ e.cell \in Cells /\ e.op \in {"add", "remove"}
  <2>1. e \in Events
    BY <1>1, <1>2, ElementOfSeq
  <2> HIDE DEF e
  <2> QED
    BY <2>1 DEF Events
<1> HIDE DEF e
<1>4. boxes' \subseteq Cells /\ late' \subseteq boxes'
  BY <1>1, <1>3 DEF BoxesRight
<1>5. ASSUME NEW c \in Cells PROVE BoxRight(c)'
  <2>1. \A i \in On(c)' : i \in 1..Len(stream') /\ i + 1 \in On(c)
    BY <1>2 DEF On
  <2>2. \A i \in On(c) : i = 1 \/ i - 1 \in On(c)'
    BY <1>2 DEF On
  <2>3. ASSUME NEW i \in 1..Len(stream'), IsLast(c, i)' PROVE c \in announced' <=> stream'[i].op = "add"
    <3>1. i + 1 \in On(c)
      BY <2>1, <2>3 DEF IsLast
    <3>2. \A j \in On(c) : j <= i + 1
      <4>1. ASSUME NEW j \in On(c) PROVE j <= i + 1
        <5>1. j \in 1..Len(stream) /\ i \in Nat
          BY <1>2 DEF On
        <5>2. CASE j = 1
          BY <5>1, <5>2
        <5>3. CASE j - 1 \in On(c)'
          <6>1. j - 1 <= i
            BY <2>3, <5>3 DEF IsLast
          <6> QED
            BY <5>1, <6>1
        <5> QED
          BY <2>2, <5>2, <5>3
      <4> QED
        BY <4>1
    <3>3. IsLast(c, i + 1)
      BY <3>1, <3>2 DEF IsLast
    <3> QED
      BY <1>1, <1>2, <3>3 DEF BoxesRight, BoxRight
  <2>4. ASSUME On(c)' = {} PROVE IF c \in late' THEN c \in boxes' /\ c \notin announced'
                                 ELSE c \in boxes' <=> c \in announced'
    <3>1. CASE c = e.cell
      <4>1. IsLast(c, 1)
        BY SMTT(40), <1>2, <2>2, <2>4, <3>1 DEF IsLast, On, e
      <4>2. c \in announced <=> e.op = "add"
        BY <1>2, <4>1 DEF BoxesRight, BoxRight, e
      <4> QED
        BY <1>1, <3>1, <4>2
    <3>2. CASE c # e.cell
      <4>1. On(c) = {}
        BY <1>2, <2>2, <2>4, <3>2 DEF On, e
      <4> QED
        BY <1>1, <3>2, <4>1 DEF BoxesRight, BoxRight
    <3> QED
      BY <3>1, <3>2
  <2> QED
    BY <2>3, <2>4 DEF BoxRight
<1> QED
  BY <1>1, <1>2, <1>4, <1>5 DEF BoxesRight

(* An answer draws a box ahead of the event, or after it.                  *)
LEMMA BoxDrawn ==
  ASSUME BoxesRight, NEW d \in Cells, boxes' = boxes \cup {d},
         late' = IF d \in announced THEN late ELSE late \cup {d},
         UNCHANGED <<stream, announced, rival>>
  PROVE  BoxesRight'
<1>1. \A c \in Cells : On(c)' = On(c)
  BY DEF On
<1>2. \A c \in Cells, i \in 1..Len(stream) : IsLast(c, i)' <=> IsLast(c, i)
  BY <1>1 DEF IsLast
<1>3. ASSUME NEW c \in Cells PROVE BoxRight(c)'
  <2>1. CASE c = d
    BY <1>1, <1>2, <2>1 DEF BoxesRight, BoxRight
  <2>2. CASE c # d
    BY <1>1, <1>2, <2>2 DEF BoxesRight, BoxRight
  <2> QED
    BY <2>1, <2>2
<1> QED
  BY <1>3 DEF BoxesRight

(* A step that leaves stream and boxes alone.                              *)
LEMMA BoxesKept ==
  ASSUME BoxesRight, UNCHANGED <<stream, announced, rival, boxes, late>>
  PROVE  BoxesRight'
  BY DEF BoxesRight, BoxRight, On, IsLast

(* A snapshot replaces the boxes.                                          *)
LEMMA BoxesReplaced ==
  ASSUME BoxesRight, NEW ls \in SUBSET Cells, stream' = <<>>, boxes' = ls, announced' = ls, late' = {}, rival' = rival
  PROVE  BoxesRight'
<1>1. \A c \in Cells : On(c)' = {}
  BY DEF On
<1>2. stream' \in Seq(Events)
  OBVIOUS
<1> QED
  BY <1>1, <1>2 DEF BoxesRight, BoxRight, IsLast

(* The bounds of the page.                                                 *)
LEMMA PageSized == MaxClaims \in Nat /\ NoCell \notin Cells
  BY PageAssumption

(* A change of states that supersedes, paints and cancels nothing.         *)
LEMMA ClaimsKept ==
  ASSUME ClaimsRight, claim' \in [OwnClaims -> ClaimRecords],
         \A id \in OwnClaims :
            /\ claim'[id].cell = claim[id].cell /\ claim'[id].owner = claim[id].owner
            /\ claim'[id].state = "absent" <=> claim[id].state = "absent"
            /\ claim'[id].state \in {"superseded", "posted", "cancelled"} => claim'[id].state = claim[id].state,
         UNCHANGED <<minted, net, cookie, acts, armed, lastArmed, astray>>
  PROVE  ClaimsRight'
<1> USE DEF ClaimsRight
<1>1. Granted' = Granted
  BY DEF Granted, Is
<1>2. \A id \in Granted : id \in OwnClaims
  BY DEF Granted
<1>3. PageTyped'
  BY <1>1 DEF PageTyped
<1>4. InOrder'
  BY <1>1, <1>2 DEF InOrder, CellOf, Is
<1>5. Grants' = Grants
  BY DEF Grants
<1>6. Told'
  BY <1>1, <1>5 DEF Told
<1>7. Spent'
  BY <1>1, <1>2 DEF Spent, Is
<1>8. Known'
  BY <1>1 DEF Known
<1> QED
  BY <1>3, <1>4, <1>6, <1>7, <1>8

(* The page lets go of its claim.                                          *)
LEMMA Disarmed ==
  ASSUME ClaimsRight, armed' \in {0, armed},
         UNCHANGED <<claim, minted, net, cookie, acts, lastArmed, astray>>
  PROVE  ClaimsRight'
<1> USE DEF ClaimsRight
<1>1. Granted' = Granted /\ Grants' = Grants
  BY DEF Granted, Is, Grants
<1>2. \A id \in Granted : id # 0
  BY PageSized DEF Granted, OwnClaims
<1>3. \A m \in net : m.path # "/claim" => m.id # 0
  BY <1>2 DEF Known
<1>4. PageTyped'
  BY <1>1 DEF PageTyped
<1>5. InOrder'
  BY <1>1 DEF InOrder, CellOf, Is
<1>6. Told'
  BY <1>1 DEF Told
<1>7. Spent'
  BY <1>1, <1>2, <1>3 DEF Spent, Is
<1>8. Known'
  BY <1>1 DEF Known
<1> QED
  BY <1>4, <1>5, <1>6, <1>7, <1>8

(* A click or a key: a claim of a cell, or the armed claim resolved.       *)
LEMMA Sent ==
  ASSUME ClaimsRight, NEW path \in {"/claim", "/confirm", "/cancel"}, NEW c \in Cells \cup {NoCell},
         NEW id \in 0..MaxClaims, Send(path, c, id),
         \/ path = "/claim" /\ c \in Cells /\ armed' = armed
         \/ path # "/claim" /\ armed # 0 /\ id = armed /\ armed' = 0
  PROVE  ClaimsRight'
<1> USE DEF ClaimsRight
<1> DEFINE r == [n |-> acts + 1, path |-> path, cell |-> c, id |-> id,
                 who |-> cookie, minted |-> FALSE, answer |-> "none"]
<1>1. /\ acts' = acts + 1 /\ net' = net \cup {r}
      /\ UNCHANGED <<claim, minted, cookie, lastArmed, astray>>
  BY DEF Send, server, observed
<1>2. /\ r \in Requests /\ r.path = path /\ r.cell = c /\ r.id = id /\ r.who = cookie
      /\ r.minted = FALSE /\ r.answer = "none"
  BY DEF PageTyped, Requests
<1> HIDE DEF r
<1>3. Granted' = Granted
  BY <1>1 DEF Granted, Is
<1>4. Grants' = Grants
  BY <1>1, <1>2 DEF Grants
<1>5. \A i \in Granted : i # 0 /\ i \in Nat
  BY PageSized DEF Granted, OwnClaims
<1>6. \A m \in net : m.path # "/claim" => m.id # 0
  BY <1>5 DEF Known
<1>7. PageTyped'
  <2>1. net' \subseteq Requests
    BY <1>1, <1>2 DEF PageTyped
  <2> QED
    BY <1>1, <1>3, <2>1 DEF PageTyped
<1>8. InOrder'
  BY <1>1, <1>3 DEF InOrder, CellOf, Is
<1>9. Told'
  BY <1>1, <1>3, <1>4 DEF Told
<1>10. Spent'
  <2>1. \A m \in net : ~astray /\ m.path # "/claim" => m.id <= lastArmed /\ m.id # armed'
    BY <1>6 DEF Spent
  <2>2. r.path # "/claim" => r.id <= lastArmed /\ r.id # armed'
    BY <1>2, <1>5 DEF Told, PageTyped
  <2>3. \A i \in Granted : ~astray /\ Is(i, {"posted", "cancelled"}) => i <= lastArmed /\ i # armed'
    BY <1>5 DEF Spent
  <2> QED
    BY <1>1, <1>3, <2>1, <2>2, <2>3 DEF Spent, Is
<1>11. Known'
  <2>1. r.path # "/claim" => r.id \in Granted
    BY <1>2 DEF PageTyped
  <2> QED
    BY <1>1, <1>2, <1>3, <2>1 DEF Known, PageTyped
<1> QED
  BY <1>7, <1>8, <1>9, <1>10, <1>11

(* A request has a player once it is answered, and its answer tells the    *)
(* page who.                                                               *)
LEMMA PlayerIs ==
  ASSUME ClaimsRight, NEW m \in net, m.answer = "none", NEW id \in 0..MaxClaims, NEW a \in {"ok", "error"},
         Reply(m, a, id)
  PROVE  /\ Player(m) \in 1..minted' /\ minted' \in Nat /\ minted <= minted'
         /\ \E r \in Requests :
              /\ net' = (net \ {m}) \cup {r}
              /\ r.path = m.path /\ r.cell = m.cell /\ r.id = id /\ r.answer = a
              /\ r.who = Player(m) /\ r.minted = (m.who = 0)
<1> USE DEF ClaimsRight
<1>1. m \in Requests /\ minted \in Nat /\ m.who <= minted
  BY DEF PageTyped, Known
<1>2. minted' = IF m.who = 0 THEN minted + 1 ELSE minted
  BY DEF Reply
<1>3. m.who \in Nat
  BY <1>1 DEF Requests
<1>4. Player(m) \in 1..minted' /\ minted' \in Nat /\ minted <= minted'
  BY <1>1, <1>2, <1>3 DEF Player
<1> DEFINE r == [m EXCEPT !.answer = a, !.who = Player(m), !.minted = (m.who = 0), !.id = id]
<1>5. Player(m) \in Nat /\ (m.who = 0) \in BOOLEAN
  BY <1>4
<1>6. r \in Requests
  BY <1>1, <1>5 DEF Requests
<1>7. /\ r.path = m.path /\ r.cell = m.cell /\ r.id = id /\ r.answer = a
      /\ r.who = Player(m) /\ r.minted = (m.who = 0)
  BY <1>1 DEF Requests
<1>8. net' = (net \ {m}) \cup {r}
  BY DEF Reply
<1> HIDE DEF r
<1> QED
  BY <1>4, <1>6, <1>7, <1>8

(* Any answer but a grant; a confirm or a cancel may have been carried out.*)
LEMMA Replied ==
  ASSUME ClaimsRight, NEW m \in net, m.answer = "none", NEW a \in {"ok", "error"},
         a = "error" \/ m.path # "/claim", Answer(m, a),
         claim' \in [OwnClaims -> ClaimRecords],
         \A id \in OwnClaims :
            /\ claim'[id].cell = claim[id].cell /\ claim'[id].owner = claim[id].owner
            /\ claim'[id].state = "absent" <=> claim[id].state = "absent"
            /\ claim'[id].state = "superseded" => claim[id].state = "superseded"
            /\ claim'[id].state \in {"posted", "cancelled"} =>
                  claim'[id].state = claim[id].state \/ (m.path # "/claim" /\ id = m.id),
         UNCHANGED <<cookie, acts, armed, lastArmed, astray>>
  PROVE  ClaimsRight'
<1> USE DEF ClaimsRight
<1>1. m \in Requests /\ m.id \in 0..MaxClaims /\ m.who \in Nat
  BY DEF PageTyped, Requests
<1>2. Reply(m, a, m.id)
  BY DEF Answer
<1>3. /\ Player(m) \in 1..minted' /\ minted' \in Nat /\ minted <= minted' /\ minted \in Nat
      /\ \E r \in Requests :
              /\ net' = (net \ {m}) \cup {r}
              /\ r.path = m.path /\ r.cell = m.cell /\ r.id = m.id /\ r.answer = a
              /\ r.who = Player(m) /\ r.minted = (m.who = 0)
  BY <1>1, <1>2, PlayerIs DEF PageTyped
<1>4. PICK r \in Requests :
              /\ net' = (net \ {m}) \cup {r}
              /\ r.path = m.path /\ r.cell = m.cell /\ r.id = m.id /\ r.answer = a
              /\ r.who = Player(m) /\ r.minted = (m.who = 0)
  BY <1>3
<1>5. Granted' = Granted
  BY DEF Granted, Is
<1>6. \A id \in Granted : id \in OwnClaims
  BY DEF Granted
<1>7. Grants' = Grants
  BY <1>4 DEF Grants
<1>8. PageTyped'
  <2>1. net' \subseteq Requests
    BY <1>4 DEF PageTyped
  <2> QED
    BY <1>3, <1>5, <2>1 DEF PageTyped
<1>9. InOrder'
  <2>1. \A id \in Granted : claim'[id].owner \in 1..minted'
    BY SMTT(40), <1>3, <1>6 DEF InOrder
  <2> QED
    BY <1>5, <1>6, <2>1 DEF InOrder, CellOf, Is
<1>10. Told'
  BY <1>5, <1>7 DEF Told
<1>11. Spent'
  BY <1>4, <1>5, <1>6 DEF Spent, Is
<1>12. Known'
  <2>1. \A k \in net : k.who <= minted'
    BY <1>3 DEF Known, PageTyped, Requests
  <2>2. r.who <= minted' /\ r.who # 0
    BY <1>3, <1>4
  <2>3. ~r.minted => m.who # 0
    BY <1>4
  <2>4. ~r.minted => cookie # 0
    BY <2>3 DEF Known
  <2>5. /\ r.path = "/claim" => r.cell \in Cells
        /\ r.path # "/claim" => r.id \in Granted
        /\ r.answer # "none"
    BY <1>4 DEF Known
  <2>6. \A k \in net' : k = r \/ k \in net
    BY <1>4
  <2> QED
    BY <1>5, <2>1, <2>2, <2>4, <2>5, <2>6 DEF Known
<1> QED
  BY <1>8, <1>9, <1>10, <1>11, <1>12

(* A grant has the next id, and supersedes what the player had.            *)
LEMMA GrantKeeps == ASSUME ClaimsRight, NEW m \in net, GrantClaim(m) PROVE ClaimsRight'
<1> USE DEF ClaimsRight
<1> DEFINE old == Recorded(Player(m))
           id == Cardinality(Granted) + 1
<1>1. /\ m.answer = "none" /\ m.path = "/claim" /\ id \in OwnClaims
      /\ claim' = [i \in OwnClaims |->
            IF i = id THEN [cell |-> m.cell, owner |-> Player(m), state |-> "active"]
            ELSE IF i \in old THEN [claim[i] EXCEPT !.state = "superseded"]
            ELSE IF CellOf(i) = m.cell /\ Is(i, {"overdue"}) THEN [claim[i] EXCEPT !.state = "ousted"]
            ELSE claim[i]]
      /\ Reply(m, "ok", id)
      /\ UNCHANGED <<cookie, acts, armed, lastArmed, astray>>
  BY DEF GrantClaim, Unserved, tab, observed
<1>2. PICK n \in 0..MaxClaims : Granted = 1..n
  BY DEF InOrder
<1>3. n \in Nat /\ Cardinality(Granted) = n /\ id = n + 1 /\ MaxClaims \in Nat
  <2>1. n \in Nat /\ MaxClaims \in Nat
    BY PageSized
  <2>2. Cardinality(1..n) = IF 1 > n THEN 0 ELSE n - 1 + 1
    BY <2>1, FS_Interval
  <2>3. Cardinality(Granted) = n
    BY <1>2, <2>1, <2>2
  <2> QED
    BY <2>1, <2>3
<1>4. id \in 1..MaxClaims /\ id \notin Granted
  BY <1>1, <1>2, <1>3 DEF OwnClaims
<1>5. /\ Player(m) \in 1..minted' /\ minted' \in Nat /\ minted <= minted' /\ minted \in Nat
      /\ \E r \in Requests :
              /\ net' = (net \ {m}) \cup {r}
              /\ r.path = m.path /\ r.cell = m.cell /\ r.id = id /\ r.answer = "ok"
              /\ r.who = Player(m) /\ r.minted = (m.who = 0)
  <2>1. id \in 0..MaxClaims
    BY <1>3, <1>4
  <2> HIDE DEF id
  <2> QED
    BY <1>1, <2>1, PlayerIs DEF PageTyped
<1>6. PICK r \in Requests :
              /\ net' = (net \ {m}) \cup {r}
              /\ r.path = m.path /\ r.cell = m.cell /\ r.id = id /\ r.answer = "ok"
              /\ r.who = Player(m) /\ r.minted = (m.who = 0)
  BY <1>5
<1>7. m.cell \in Cells /\ ~m.minted /\ m.who <= minted
  BY <1>1 DEF Known
<1>8. \A i \in old : i \in OwnClaims /\ claim[i].state \in Registered
  BY DEF Recorded, Is
<1> HIDE DEF old, id
<1>9. claim \in [OwnClaims -> ClaimRecords]
  BY DEF PageTyped
<1>10. /\ claim' \in [OwnClaims -> ClaimRecords]
       /\ claim'[id] = [cell |-> m.cell, owner |-> Player(m), state |-> "active"]
       /\ \A i \in OwnClaims : i # id =>
             /\ claim'[i].cell = claim[i].cell /\ claim'[i].owner = claim[i].owner
             /\ claim'[i].state = "absent" <=> claim[i].state = "absent"
             /\ claim'[i].state = "superseded" => claim[i].state # "absent"
             /\ claim'[i].state \in {"posted", "cancelled"} => claim'[i].state = claim[i].state
  <2>1. [cell |-> m.cell, owner |-> Player(m), state |-> "active"] \in ClaimRecords
    BY <1>5, <1>7 DEF ClaimRecords, States, Registered
  <2>2. ASSUME NEW i \in OwnClaims
        PROVE  /\ [claim[i] EXCEPT !.state = "superseded"] \in ClaimRecords
               /\ [claim[i] EXCEPT !.state = "ousted"] \in ClaimRecords
               /\ claim[i] \in ClaimRecords
    BY <1>9 DEF ClaimRecords, States, Registered
  <2>3. claim' \in [OwnClaims -> ClaimRecords]
    BY <1>1, <2>1, <2>2
  <2>4. claim'[id] = [cell |-> m.cell, owner |-> Player(m), state |-> "active"]
    BY <1>1
  <2>5. ASSUME NEW i \in OwnClaims, i # id
        PROVE  /\ claim'[i].cell = claim[i].cell /\ claim'[i].owner = claim[i].owner
               /\ claim'[i].state = "absent" <=> claim[i].state = "absent"
               /\ claim'[i].state = "superseded" => claim[i].state # "absent"
               /\ claim'[i].state \in {"posted", "cancelled"} => claim'[i].state = claim[i].state
    <3>0. claim[i] \in ClaimRecords
      BY <2>2
    <3>1. CASE i \in old
      <4>1. claim'[i] = [claim[i] EXCEPT !.state = "superseded"]
        BY <1>1, <2>5, <3>1
      <4> QED
        BY <1>8, <3>0, <3>1, <4>1 DEF ClaimRecords, Registered
    <3>2. CASE i \notin old /\ CellOf(i) = m.cell /\ Is(i, {"overdue"})
      <4>1. claim'[i] = [claim[i] EXCEPT !.state = "ousted"]
        BY <1>1, <2>5, <3>2
      <4> QED
        BY <3>0, <3>2, <4>1 DEF ClaimRecords, Is
    <3>3. CASE i \notin old /\ ~(CellOf(i) = m.cell /\ Is(i, {"overdue"}))
      <4>1. claim'[i] = claim[i]
        BY <1>1, <2>5, <3>3
      <4> QED
        BY <4>1
    <3> QED
      BY <3>1, <3>2, <3>3
  <2> QED
    BY <2>3, <2>4, <2>5
<1>11. Granted' = Granted \cup {id} /\ Granted' = 1..n + 1
  <2>1. Granted' = Granted \cup {id}
    BY <1>1, <1>10 DEF Granted, Is
  <2> QED
    BY <1>2, <1>3, <2>1
<1>12. \A i \in Granted : i \in OwnClaims /\ i # id /\ i \in Nat /\ i < id
  BY <1>2, <1>3, <1>4 DEF Granted
<1>13. lastArmed \in Nat /\ armed \in Nat /\ lastArmed < id /\ armed < id
  BY <1>3, <1>12 DEF PageTyped
<1>14. Grants' = Grants \cup {r} /\ r.id = id
  BY <1>1, <1>6 DEF Grants
<1>15. PageTyped'
  <2>1. net' \subseteq Requests
    BY <1>6 DEF PageTyped
  <2>2. armed' \in Granted' \cup {0} /\ lastArmed' \in Granted' \cup {0}
    BY <1>1, <1>11 DEF PageTyped
  <2>3. cookie' \in Nat /\ cookie' <= minted' /\ acts' \in Nat
    BY <1>1, <1>5 DEF PageTyped
  <2> QED
    BY <1>5, <1>10, <2>1, <2>2, <2>3 DEF PageTyped
<1>16. InOrder'
  <2>1. n + 1 \in 0..MaxClaims
    BY <1>3, <1>4
  <2>2. ASSUME NEW i \in Granted'
        PROVE  /\ claim'[i].cell \in Cells
               /\ claim'[i].owner \in 1..minted'
               /\ claim'[i].state = "superseded" => i + 1 \in Granted'
    <3>1. CASE i = id
      BY <1>5, <1>7, <1>10, <3>1
    <3>2. CASE i # id
      <4>1. i \in Granted /\ i \in OwnClaims
        BY <1>11, <1>12, <3>2
      <4>2. i + 1 \in Granted'
        BY <1>2, <1>3, <1>11, <4>1
      <4>3. claim[i].cell \in Cells /\ claim[i].owner \in 1..minted
        BY <4>1 DEF InOrder, CellOf
      <4> QED
        BY <1>5, <1>10, <3>2, <4>1, <4>2, <4>3
    <3> QED
      BY SMTT(40), <3>1, <3>2
  <2> QED
    BY <1>11, <2>1, <2>2 DEF InOrder, CellOf, Is
<1>17. Told'
  <2>1. \A k \in Grants' : k.id \in Granted' /\ k.id # lastArmed
    BY <1>11, <1>13, <1>14 DEF Told
  <2>2. \A a, b \in Grants' : a.id = b.id => a = b
    BY <1>12, <1>14 DEF Told
  <2>3. ~astray => \A i \in Granted' : i > lastArmed => \E k \in Grants' : k.id = i
    BY <1>11, <1>14 DEF Told
  <2> QED
    BY <1>1, <2>1, <2>2, <2>3 DEF Told
<1>18. Spent'
  <2>1. ASSUME ~astray, NEW i \in Granted', claim'[i].state \in {"posted", "cancelled"}
        PROVE  i <= lastArmed /\ i # armed
    <3>1. i # id
      BY <1>10, <2>1
    <3>2. i \in Granted /\ claim[i].state \in {"posted", "cancelled"}
      BY <1>10, <1>11, <1>12, <2>1, <3>1
    <3> QED
      BY <2>1, <3>2 DEF Spent, Is
  <2>2. ~astray => \A k \in net' : k.path # "/claim" => k.id <= lastArmed /\ k.id # armed
    BY <1>1, <1>6 DEF Spent
  <2> QED
    BY <1>1, <2>1, <2>2 DEF Spent, Is
<1>19. Known'
  <2>1. \A k \in net : k.who <= minted'
    BY <1>5 DEF Known, PageTyped, Requests
  <2>2. r.who <= minted' /\ r.who # 0
    BY <1>5, <1>6
  <2>3. ~r.minted => cookie # 0
    BY <1>6, <1>7 DEF Known
  <2>4. r.path = "/claim" /\ r.cell \in Cells /\ r.answer # "none"
    BY <1>1, <1>6, <1>7
  <2>5. \A k \in net' : k = r \/ k \in net
    BY <1>6
  <2> QED
    BY SMTT(40), <1>1, <1>11, <2>1, <2>2, <2>3, <2>4, <2>5 DEF Known
<1> QED
  BY <1>15, <1>16, <1>17, <1>18, <1>19

(* The cookie of an answer.                                                *)
LEMMA CookieTaken ==
  ASSUME ClaimsRight, NEW m \in net, TakeAnswer(m), UNCHANGED minted
  PROVE  /\ cookie' \in Nat /\ cookie' <= minted
         /\ cookie # 0 => cookie' # 0
         /\ m.answer # "none" => cookie' # 0
<1>1. m \in Requests /\ minted \in Nat /\ cookie \in Nat /\ cookie <= minted
  BY DEF ClaimsRight, PageTyped
<1>2. m.who \in Nat /\ m.who <= minted /\ m.minted \in BOOLEAN
  BY <1>1 DEF ClaimsRight, Known, Requests
<1>3. m.minted => m.answer # "none"
  BY DEF ClaimsRight, Known
<1>4. m.answer # "none" => m.who # 0
  BY DEF ClaimsRight, Known
<1>5. m.who # 0 /\ ~m.minted => cookie # 0
  BY DEF ClaimsRight, Known
<1>6. cookie' = IF m.minted THEN m.who ELSE cookie
  BY DEF TakeAnswer
<1>7. CASE m.minted
  BY <1>1, <1>2, <1>3, <1>4, <1>6, <1>7
<1>8. CASE ~m.minted
  BY <1>1, <1>4, <1>5, <1>6, <1>8
<1> QED
  BY <1>7, <1>8

(* A grant that is not astray is newer than what the page was told of.     *)
LEMMA GrantTaken == ASSUME ClaimsRight, NEW m \in net, ClaimGranted(m) PROVE ClaimsRight'
<1> USE DEF ClaimsRight
<1>1. /\ m \in Grants /\ net' = net \ {m} /\ armed' = m.id /\ lastArmed' = m.id
      /\ astray' = (astray \/ m.id < lastArmed) /\ m.answer # "none"
      /\ UNCHANGED <<claim, minted, acts>> /\ TakeAnswer(m)
  BY DEF ClaimGranted, Answered, Grants, TakeAnswer, server
<1>2. m.id \in Granted /\ m.id # lastArmed
  BY <1>1 DEF Told
<1>3. Granted' = Granted /\ Grants' = Grants \ {m}
  BY <1>1 DEF Granted, Is, Grants
<1>4. \A i \in Granted : i \in Nat
  BY PageSized DEF Granted, OwnClaims
<1>5. lastArmed \in Nat
  BY <1>4 DEF PageTyped
<1>6. ~astray' => ~astray /\ lastArmed < m.id
  <2>1. ~astray' => ~astray /\ ~(m.id < lastArmed)
    BY <1>1
  <2>2. m.id \in Nat
    BY <1>2, <1>4
  <2> QED
    BY <1>2, <1>5, <2>1, <2>2
<1>7. PageTyped'
  BY <1>1, <1>2, <1>3, CookieTaken DEF PageTyped
<1>8. InOrder'
  BY <1>1, <1>3 DEF InOrder, CellOf, Is
<1>9. Told'
  <2>1. \A k \in Grants' : k.id \in Granted' /\ k.id # lastArmed'
    BY <1>1, <1>3 DEF Told
  <2>2. ASSUME ~astray', NEW i \in Granted, i > m.id PROVE \E k \in Grants' : k.id = i
    <3>1. i > lastArmed /\ i # m.id
      BY <1>2, <1>4, <1>5, <1>6, <2>2
    <3>2. PICK k \in Grants : k.id = i
      BY <1>6, <2>2, <3>1 DEF Told
    <3> QED
      BY <1>3, <3>1, <3>2
  <2> QED
    BY <1>1, <1>3, <2>1, <2>2 DEF Told
<1>10. Spent'
  <2>1. ASSUME ~astray', NEW k \in net, k.path # "/claim" PROVE k.id <= m.id /\ k.id # m.id
    <3>1. k.id \in Granted /\ k.id <= lastArmed
      BY <1>6, <2>1 DEF Known, Spent
    <3> QED
      BY <1>2, <1>4, <1>5, <1>6, <2>1, <3>1
  <2>2. ASSUME ~astray', NEW i \in Granted, Is(i, {"posted", "cancelled"}) PROVE i <= m.id /\ i # m.id
    <3>1. i <= lastArmed
      BY <1>6, <2>2 DEF Spent
    <3> QED
      BY <1>2, <1>4, <1>5, <1>6, <2>2, <3>1
  <2> QED
    BY <1>1, <1>3, <2>1, <2>2 DEF Spent, Is
<1>11. Known'
  BY <1>1, <1>3, CookieTaken DEF Known
<1> QED
  BY <1>7, <1>8, <1>9, <1>10, <1>11

(* Any other message leaves the page.                                      *)
LEMMA LeftOff ==
  ASSUME ClaimsRight, NEW m \in net, net' = net \ {m},
         cookie' \in Nat, cookie' <= minted, cookie # 0 => cookie' # 0,
         ~astray' => ~astray /\ m \notin Grants,
         UNCHANGED <<claim, minted, acts, armed, lastArmed>>
  PROVE  ClaimsRight'
<1> USE DEF ClaimsRight
<1>1. Granted' = Granted /\ Grants' = Grants \ {m}
  BY DEF Granted, Is, Grants
<1>2. PageTyped'
  BY <1>1 DEF PageTyped
<1>3. InOrder'
  BY <1>1 DEF InOrder, CellOf, Is
<1>4. Told'
  BY <1>1 DEF Told
<1>5. Spent'
  BY <1>1 DEF Spent, Is
<1>6. Known'
  BY <1>1 DEF Known
<1> QED
  BY <1>2, <1>3, <1>4, <1>5, <1>6

(* The page as it is opened satisfies the invariant.                       *)
LEMMA PageInitInv == PaintInit => PageInv
<1> SUFFICES ASSUME PaintInit PROVE PageInv
  OBVIOUS
<1> USE DEF PaintInit
<1>1. Granted = {} /\ Grants = {}
  BY DEF Granted, Is, NoClaim, Grants
<1>2. claim \in [OwnClaims -> ClaimRecords]
  BY DEF ClaimRecords, NoClaim, States
<1>3. PageTyped
  BY <1>1, <1>2 DEF PageTyped
<1>4. InOrder
  <2>1. 0 \in 0..MaxClaims /\ Granted = 1..0
    BY <1>1, PageSized
  <2> QED
    BY <1>1, <2>1 DEF InOrder
<1>5. Told /\ Spent /\ Known
  BY <1>1 DEF Told, Spent, Known
<1>6. BoxesRight
  <2>1. \A c : On(c) = {}
    BY DEF On
  <2> QED
    BY <2>1 DEF BoxesRight, BoxRight, IsLast
<1> QED
  BY <1>3, <1>4, <1>5, <1>6 DEF PageInv, ClaimsRight

(* A single event is announced.                                            *)
LEMMA OneEvent ==
  ASSUME BoxesRight, NEW e \in Events, Announce(<<e>>), UNCHANGED <<boxes, late>>, rival' \subseteq Cells
  PROVE  BoxesRight'
<1>1. <<e>> \in Seq(Events) /\ Len(<<e>>) = 1
  OBVIOUS
<1> QED
  BY <1>1, Announced

(* A claim's state changed, and nothing else of it.                        *)
LEMMA StateSet ==
  ASSUME ClaimsRight, NEW id \in OwnClaims, claim[id].state # "absent",
         NEW s \in States \ {"absent", "superseded"},
         claim' = [claim EXCEPT ![id].state = s]
  PROVE  /\ claim' \in [OwnClaims -> ClaimRecords]
         /\ \A i \in OwnClaims :
               /\ claim'[i].cell = claim[i].cell /\ claim'[i].owner = claim[i].owner
               /\ claim'[i].state = "absent" <=> claim[i].state = "absent"
               /\ claim'[i].state = "superseded" => claim[i].state = "superseded"
               /\ i # id => claim'[i] = claim[i]
         /\ claim'[id].state = s
<1>1. claim \in [OwnClaims -> ClaimRecords] /\ claim[id] \in ClaimRecords
  BY DEF ClaimsRight, PageTyped
<1>2. [claim[id] EXCEPT !.state = s] \in ClaimRecords
  BY <1>1 DEF ClaimRecords
<1>3. claim' = [claim EXCEPT ![id] = [claim[id] EXCEPT !.state = s]]
  BY <1>1
<1>4. claim'[id] = [claim[id] EXCEPT !.state = s] /\ \A i \in OwnClaims : i # id => claim'[i] = claim[i]
  BY <1>1, <1>3
<1>5. /\ claim'[id].cell = claim[id].cell /\ claim'[id].owner = claim[id].owner /\ claim'[id].state = s
  BY <1>1, <1>4 DEF ClaimRecords
<1>6. claim' \in [OwnClaims -> ClaimRecords]
  BY <1>1, <1>2, <1>3
<1> QED
  BY <1>4, <1>5, <1>6

(* The server answers a request.                                           *)
LEMMA ServedKeeps == ASSUME PageInv, NEW m \in net, Served(m) PROVE PageInv'
<1> USE DEF PageInv
<1>1. \A id \in Granted : id \in OwnClaims /\ CellOf(id) \in Cells
  BY DEF Granted, ClaimsRight, InOrder
<1>2. CASE GrantClaim(m)
  <2>1. ClaimsRight'
    BY <1>2, GrantKeeps
  <2> DEFINE old == Recorded(Player(m))
             first == IF old = {} THEN <<>> ELSE <<Remove(CellOf(CHOOSE i \in old : TRUE))>>
  <2>2. /\ Announce(first \o <<Add(m.cell)>>) /\ UNCHANGED <<boxes, late, rival>>
        /\ m.path = "/claim"
    BY <1>2 DEF GrantClaim, Unserved, tab, observed
  <2>3. m.cell \in Cells
    BY <2>2 DEF ClaimsRight, Known
  <2>4. first \in Seq(Events) /\ Len(first) \in {0, 1}
    <3>1. CASE old = {}
      BY <3>1
    <3>2. CASE old # {}
      <4> DEFINE i == CHOOSE k \in old : TRUE
      <4>1. i \in old
        BY <3>2
      <4>2. i \in Granted
        BY <4>1 DEF Recorded, Granted, Is, Registered
      <4>3. Remove(CellOf(i)) \in Events
        BY <1>1, <4>2, AnEvent
      <4> QED
        BY <3>2, <4>3
    <3> QED
      BY <3>1, <3>2
  <2>5. <<Add(m.cell)>> \in Seq(Events) /\ Len(<<Add(m.cell)>>) = 1
    BY <2>3, AnEvent
  <2> HIDE DEF first, old
  <2>6. first \o <<Add(m.cell)>> \in Seq(Events) /\ Len(first \o <<Add(m.cell)>>) \in {1, 2}
    BY SMTT(40), <2>4, <2>5, ConcatProperties
  <2>7. rival' \subseteq Cells
    BY <2>2 DEF BoxesRight
  <2>8. BoxesRight'
    BY <2>2, <2>6, <2>7, Announced
  <2> QED
    BY <2>1, <2>8
<1>3. ASSUME NEW a \in {"ok", "error"}, m.answer = "none", a = "error" \/ m.path # "/claim", Answer(m, a),
             claim' = claim, UNCHANGED <<events, rival, tab, acts, observed>>
      PROVE  PageInv'
  <2>1. ClaimsRight'
    <3>1. claim' \in [OwnClaims -> ClaimRecords]
      BY <1>3 DEF ClaimsRight, PageTyped
    <3>2. UNCHANGED <<cookie, acts, armed, lastArmed, astray>>
      BY <1>3 DEF tab, observed
    <3> QED
      BY <1>3, <3>1, <3>2, Replied
  <2>2. BoxesRight'
    BY <1>3, BoxesKept DEF events, tab, observed
  <2> QED
    BY <2>1, <2>2
<1>4. CASE RefuseClaim(m)
  BY <1>3, <1>4 DEF RefuseClaim, Unserved
<1>5. CASE ServeError(m)
  BY <1>3, <1>5 DEF ServeError
<1>6. ASSUME NEW s \in {"posted", "cancelled"}, m.answer = "none", m.path # "/claim", Answer(m, "ok"),
             m.id \in Recorded(Player(m)), claim' = [claim EXCEPT ![m.id].state = s],
             Announce(<<Remove(CellOf(m.id))>>), UNCHANGED <<rival, tab, acts, observed>>
      PROVE  PageInv'
  <2>1. m.id \in OwnClaims /\ m.id \in Granted /\ claim[m.id].state # "absent"
    BY <1>6 DEF Recorded, Granted, Is, Registered
  <2>2. s \in States \ {"absent", "superseded"}
    BY SMTT(40) DEF States
  <2>3. ClaimsRight'
    <3>1. UNCHANGED <<cookie, acts, armed, lastArmed, astray>>
      BY <1>6 DEF tab, observed
    <3> QED
      BY ZenonT(60), <1>6, <2>1, <2>2, <3>1, StateSet, Replied
  <2>4. Remove(CellOf(m.id)) \in Events
    BY <1>1, <2>1, AnEvent
  <2>5. BoxesRight'
    <3>1. rival' \subseteq Cells /\ UNCHANGED <<boxes, late>>
      BY <1>6 DEF BoxesRight, tab, observed
    <3> QED
      BY <1>6, <2>4, <3>1, OneEvent
  <2> QED
    BY <2>3, <2>5
<1>7. CASE ServeConfirm(m)
  <2>1. CASE m.id \in Recorded(Player(m)) /\ Is(m.id, {"active"})
    BY <1>6, <1>7, <2>1 DEF ServeConfirm, Unserved
  <2>2. CASE ~(m.id \in Recorded(Player(m)) /\ Is(m.id, {"active"}))
    BY <1>3, <1>7, <2>2 DEF ServeConfirm, Unserved
  <2> QED
    BY <2>1, <2>2
<1>8. CASE ServeCancel(m)
  <2>1. CASE m.id \in Recorded(Player(m)) /\ Is(m.id, {"active"})
    BY <1>6, <1>8, <2>1 DEF ServeCancel, Unserved
  <2>2. CASE ~(m.id \in Recorded(Player(m)) /\ Is(m.id, {"active"}))
    BY <1>3, <1>8, <2>2 DEF ServeCancel, Unserved
  <2> QED
    BY <2>1, <2>2
<1> QED
  BY <1>2, <1>4, <1>5, <1>7, <1>8 DEF Served

(* The player, the pages' fetches and the timers.                          *)
LEMMA UserKeeps == ASSUME PageInv, User PROVE PageInv'
<1> USE DEF PageInv
<1>1. BoxesRight'
  <2>1. UNCHANGED <<stream, announced, rival, boxes, late>>
    BY DEF User, SendClaim, ClickArmed, Escape, Resolve, Send, server, events, observed
  <2> QED
    BY <2>1, BoxesKept
<1>2. CASE \E c \in Cells : SendClaim(c)
  <2>1. PICK c \in Cells : SendClaim(c)
    BY <1>2
  <2>2. 0 \in 0..MaxClaims
    BY PageSized
  <2>3. ClaimsRight'
    BY <2>1, <2>2, Sent DEF SendClaim
  <2> QED
    BY <1>1, <2>3
<1>3. ASSUME NEW path \in {"/confirm", "/cancel"}, Resolve(path) PROVE PageInv'
  <2>1. armed # 0 /\ Send(path, NoCell, armed) /\ armed' = 0
    BY <1>3 DEF Resolve
  <2>2. armed \in 0..MaxClaims
    BY <2>1, PageSized DEF ClaimsRight, PageTyped, Granted, OwnClaims
  <2>3. ClaimsRight'
    BY <2>1, <2>2, Sent
  <2> QED
    BY <1>1, <2>3
<1> QED
  BY <1>2, <1>3 DEF User, ClickArmed, Escape

LEMMA ReceivedKeeps == ASSUME PageInv, NEW m \in net, Received(m) \/ AnswerLost(m) PROVE PageInv'
<1> USE DEF PageInv
<1>1. CASE ClaimGranted(m)
  <2>1. ClaimsRight'
    BY <1>1, GrantTaken
  <2>2. m.cell \in Cells
    BY <1>1 DEF ClaimGranted, Answered, ClaimsRight, Known
  <2>3. BoxesRight'
    BY <1>1, <2>2, BoxDrawn DEF ClaimGranted, server, events
  <2> QED
    BY <2>1, <2>3
<1>2. CASE OtherAnswer(m)
  <2>1. /\ TakeAnswer(m) /\ net' = net \ {m} /\ m \notin Grants
        /\ UNCHANGED <<claim, minted, acts, armed, lastArmed, astray>>
        /\ UNCHANGED <<stream, announced, rival, boxes, late>>
    BY <1>2 DEF OtherAnswer, TakeAnswer, Grants, server, events, observed
  <2>2. ClaimsRight'
    BY <2>1, CookieTaken, LeftOff
  <2> QED
    BY <2>1, <2>2, BoxesKept
<1>3. CASE AnswerLost(m)
  <2>1. /\ net' = net \ {m} /\ astray' = (astray \/ m.answer = "ok")
        /\ UNCHANGED <<claim, minted, acts, armed, lastArmed, cookie>>
        /\ UNCHANGED <<stream, announced, rival, boxes, late>>
    BY <1>3 DEF AnswerLost, server, events, tab
  <2>2. cookie' \in Nat /\ cookie' <= minted /\ (cookie # 0 => cookie' # 0)
    BY <2>1 DEF ClaimsRight, PageTyped
  <2>3. ~astray' => ~astray /\ m \notin Grants
    BY <2>1 DEF Grants
  <2>4. ClaimsRight'
    BY <2>1, <2>2, <2>3, LeftOff
  <2> QED
    BY <2>1, <2>4, BoxesKept
<1> QED
  BY <1>1, <1>2, <1>3 DEF Received

(* A window passes, the reaper comes by, or a timer fires.                 *)
LEMMA TimeKeeps ==
  ASSUME PageInv, NEW id \in OwnClaims, WindowPasses(id) \/ Reap(id) \/ TimerFires(id)
  PROVE  PageInv'
<1> USE DEF PageInv
<1>1. ASSUME NEW s \in {"overdue", "expired"}, claim[id].state # "absent",
             claim' = [claim EXCEPT ![id].state = s],
             UNCHANGED <<minted, net, cookie, acts, armed, lastArmed, astray>>
      PROVE  ClaimsRight'
  <2>1. s \in States \ {"absent", "superseded"}
    BY DEF States, Registered
  <2> QED
    BY ZenonT(60), <1>1, <2>1, StateSet, ClaimsKept
<1>2. CASE WindowPasses(id)
  <2>1. ClaimsRight'
    BY <1>1, <1>2 DEF WindowPasses, Is, tab, observed
  <2>2. BoxesRight'
    BY <1>2, BoxesKept DEF WindowPasses, events, tab, observed
  <2> QED
    BY <2>1, <2>2
<1>3. CASE Reap(id)
  <2>1. ClaimsRight'
    BY <1>1, <1>3 DEF Reap, Is, tab, observed
  <2>2. id \in Granted
    BY <1>3 DEF Reap, Is, Granted
  <2>3. Remove(CellOf(id)) \in Events
    BY <2>2, AnEvent DEF ClaimsRight, InOrder
  <2>4. rival' \subseteq Cells
    BY <1>3 DEF Reap, BoxesRight
  <2>5. BoxesRight'
    BY <1>3, <2>3, <2>4, OneEvent DEF Reap, tab, observed
  <2> QED
    BY <2>1, <2>5
<1>4. CASE TimerFires(id)
  <2>1. ClaimsRight'
    BY <1>4, Disarmed DEF TimerFires, ClearHud, server, observed
  <2>2. BoxesRight'
    BY <1>4, BoxesKept DEF TimerFires, server, events, observed
  <2> QED
    BY <2>1, <2>2
<1> QED
  BY <1>2, <1>3, <1>4

(* Another player takes a cell, or lets one go.                            *)
LEMMA RivalKeeps == ASSUME PageInv, NEW c \in Cells, RivalLocks(c) \/ RivalLeaves(c) PROVE PageInv'
<1> USE DEF PageInv
<1>1. CASE RivalLocks(c)
  <2>1. UNCHANGED <<minted, net, cookie, acts, armed, lastArmed, astray, boxes, late>>
    BY <1>1 DEF RivalLocks, tab, observed
  <2>2. claim' = [i \in OwnClaims |-> IF CellOf(i) = c /\ Is(i, {"overdue"})
                                      THEN [claim[i] EXCEPT !.state = "ousted"] ELSE claim[i]]
    BY <1>1 DEF RivalLocks
  <2>3. \A i \in OwnClaims : claim[i] \in ClaimRecords
    BY DEF ClaimsRight, PageTyped
  <2>4. ASSUME NEW i \in OwnClaims
        PROVE  /\ claim'[i] \in ClaimRecords
               /\ claim'[i].cell = claim[i].cell /\ claim'[i].owner = claim[i].owner
               /\ claim'[i].state = "absent" <=> claim[i].state = "absent"
               /\ claim'[i].state \in {"superseded", "posted", "cancelled"} => claim'[i].state = claim[i].state
    <3>1. CASE CellOf(i) = c /\ Is(i, {"overdue"})
      <4>1. claim'[i] = [claim[i] EXCEPT !.state = "ousted"]
        BY <2>2, <3>1
      <4> QED
        BY <2>3, <3>1, <4>1 DEF ClaimRecords, States, Registered, Is
    <3>2. CASE ~(CellOf(i) = c /\ Is(i, {"overdue"}))
      <4>1. claim'[i] = claim[i]
        BY <2>2, <3>2
      <4> QED
        BY <2>3, <4>1
    <3> QED
      BY <3>1, <3>2
  <2>5. claim' \in [OwnClaims -> ClaimRecords]
    BY <2>2, <2>4
  <2>6. ClaimsRight'
    BY <2>1, <2>4, <2>5, ClaimsKept
  <2>7. rival' \subseteq Cells
    BY <1>1 DEF RivalLocks, BoxesRight
  <2>8. BoxesRight'
    BY SMTT(40), <1>1, <2>1, <2>7, AnEvent, OneEvent DEF RivalLocks
  <2> QED
    BY <2>6, <2>8
<1>2. CASE RivalLeaves(c)
  <2>1. UNCHANGED <<claim, minted, net, cookie, acts, armed, lastArmed, astray, boxes, late>>
    BY <1>2 DEF RivalLeaves, tab, observed
  <2>2. claim' \in [OwnClaims -> ClaimRecords]
    BY <2>1 DEF ClaimsRight, PageTyped
  <2>3. ClaimsRight'
    BY <2>1, <2>2, ClaimsKept
  <2>4. rival' \subseteq Cells
    BY <1>2 DEF RivalLeaves, BoxesRight
  <2>5. BoxesRight'
    BY <1>2, <2>1, <2>4, AnEvent, OneEvent DEF RivalLeaves
  <2> QED
    BY <2>3, <2>5
<1> QED
  BY <1>1, <1>2

(* The next event, or a snapshot.                                          *)
LEMMA StreamKeeps == ASSUME PageInv, StreamDelivers \/ StreamBreaks PROVE PageInv'
<1> USE DEF PageInv
<1>1. CASE StreamDelivers
  <2>1. /\ armed' \in {0, armed}
        /\ UNCHANGED <<claim, minted, net, cookie, acts, lastArmed, astray>>
    BY <1>1 DEF StreamDelivers, ClearHud, server
  <2> QED
    BY <1>1, <2>1, Disarmed, Delivered
<1>2. CASE StreamBreaks
  <2>1. /\ UNCHANGED <<claim, minted, rival, net, cookie, acts, armed, lastArmed, astray>>
        /\ stream' = <<>> /\ boxes' = Locked /\ announced' = Locked /\ late' = {}
    BY <1>2 DEF StreamBreaks, server
  <2>2. claim' \in [OwnClaims -> ClaimRecords]
    BY <2>1 DEF ClaimsRight, PageTyped
  <2>3. ClaimsRight'
    BY <2>1, <2>2, ClaimsKept
  <2>4. Locked \subseteq Cells
    <3>1. \A i \in OwnClaims : Is(i, {"active", "overdue"}) => CellOf(i) \in Cells
      BY DEF Is, Granted, ClaimsRight, InOrder
    <3> QED
      BY <3>1 DEF Locked, BoxesRight
  <2>5. BoxesRight'
    BY <2>1, <2>4, BoxesReplaced
  <2> QED
    BY <2>3, <2>5
<1> QED
  BY <1>1, <1>2

(* Every step keeps the invariant.                                         *)
LEMMA PageNextInv == PageInv /\ [PaintNext]_paintVars => PageInv'
<1> SUFFICES ASSUME PageInv, [PaintNext]_paintVars PROVE PageInv'
  OBVIOUS
<1>1. CASE UNCHANGED paintVars
  <2>1. /\ UNCHANGED <<claim, minted, net, cookie, acts, armed, lastArmed, astray>>
        /\ UNCHANGED <<stream, announced, rival, boxes, late>>
    BY <1>1 DEF paintVars, server, events, tab, observed
  <2>2. ClaimsRight'
    BY <2>1, Disarmed DEF PageInv
  <2> QED
    BY <2>1, <2>2, BoxesKept DEF PageInv
<1>2. CASE PaintNext
  BY <1>2, UserKeeps, ServedKeeps, ReceivedKeeps, TimeKeeps, RivalKeeps, StreamKeeps DEF PaintNext
<1> QED
  BY <1>1, <1>2

(* With nothing on its way, the page has been told of every claim.         *)
LEMMA ArmedFollows == PageInv => ArmedIsStanding
<1> SUFFICES ASSUME PageInv, net = {}, ~astray, armed # 0
             PROVE  /\ ~Is(armed, {"superseded", "posted", "cancelled"})
                    /\ minted <= 1 => claim[armed].owner = cookie
  BY DEF ArmedIsStanding
<1> USE DEF PageInv, ClaimsRight
<1>1. Grants = {}
  BY DEF Grants
<1>2. armed = lastArmed /\ armed \in Granted /\ armed \in Nat
  BY PageSized DEF Told, PageTyped, Granted, OwnClaims
<1>3. ~Is(armed, {"superseded"})
  <2>1. SUFFICES ASSUME Is(armed, {"superseded"}) PROVE FALSE
    OBVIOUS
  <2>2. armed + 1 \in Granted
    BY <1>2, <2>1 DEF InOrder
  <2>3. armed + 1 > lastArmed
    BY <1>2
  <2> QED
    BY <1>1, <2>2, <2>3 DEF Told
<1>4. ~Is(armed, {"posted", "cancelled"})
  BY <1>2 DEF Spent
<1>5. minted <= 1 => claim[armed].owner = cookie
  <2>1. claim[armed].owner \in 1..minted
    BY <1>2 DEF InOrder
  <2>2. cookie # 0 /\ cookie \in Nat /\ cookie <= minted /\ minted \in Nat
    BY <1>2 DEF Known, PageTyped
  <2> QED
    BY <2>1, <2>2
<1> QED
  BY <1>3, <1>4, <1>5 DEF Is

(* With nothing on the stream, what is announced is drawn.                 *)
LEMMA BoxesFollow == PageInv => BoxesAreAnnounced
<1> SUFFICES ASSUME PageInv, stream = <<>>
             PROVE  boxes \ late = announced \ late /\ late \cap announced = {}
  BY DEF BoxesAreAnnounced
<1>1. \A c \in Cells : On(c) = {}
  BY DEF On
<1> QED
  BY <1>1 DEF PageInv, BoxesRight, BoxRight

(* For any cells and any number of clicks, requests and faults: with its   *)
(* requests answered, none astray, the page never has armed a claim that   *)
(* is superseded, painted or given up, nor, unless two first requests were *)
(* given an identity each, another identity's (claim, resolveClaim,        *)
(* clearHud in app.js; playerFromCookie).                                  *)
THEOREM PageArmed == PageSpec => []ArmedIsStanding
<1>1. PageSpec => []PageInv
  BY PageInitInv, PageNextInv, PTL DEF PageSpec
<1> QED
  BY <1>1, ArmedFollows, PTL

(* With its stream read the page draws a box where a lock was announced    *)
(* last, and no other but those its own late answers drew (render, claim   *)
(* in app.js).                                                             *)
THEOREM PageBoxes == PageSpec => []BoxesAreAnnounced
<1>1. PageSpec => []PageInv
  BY PageInitInv, PageNextInv, PTL DEF PageSpec
<1> QED
  BY <1>1, BoxesFollow, PTL

(***************************************************************************)
(* The bounds of the paint view: every identity was minted for a request   *)
(* of its own, so there are no more than clicks.                           *)
(***************************************************************************)
(* First requests that are still to be served.                             *)
Firsts == {m \in net : m.answer = "none" /\ m.who = 0}
NetBounded ==
    /\ acts \in 0..MaxActs
    /\ IsFiniteSet(net) /\ Cardinality(net) <= MaxOpen
    /\ \A m \in net : m.n \in 1..acts
    /\ minted + Cardinality(Firsts) <= acts
CountsBounded ==
    /\ faults \in 0..MaxFaults /\ rivals \in 0..MaxRivals /\ astray \in BOOLEAN
    /\ timers \subseteq Granted
    /\ \A id \in OwnClaims : claim[id].owner <= minted

PageBounded == NetBounded /\ CountsBounded

LEMMA PageBounds ==
  /\ MaxClaims \in Nat /\ MaxActs \in Nat /\ MaxOpen \in Nat /\ MaxFaults \in Nat /\ MaxRivals \in Nat
  BY PageAssumption

(* What is under way is what was, or less.                                 *)
LEMMA NetShrinks ==
  ASSUME PageInv, NetBounded, net' \subseteq net, UNCHANGED <<acts, minted>>
  PROVE  NetBounded'
<1>1. IsFiniteSet(net') /\ Cardinality(net') <= Cardinality(net) /\ Cardinality(net) \in Nat /\ Cardinality(net') \in Nat
  BY FS_Subset, FS_CardinalityType DEF NetBounded
<1>2. IsFiniteSet(Firsts) /\ Firsts' \subseteq Firsts
  BY FS_Subset DEF NetBounded, Firsts
<1>3. Cardinality(Firsts') <= Cardinality(Firsts) /\ Cardinality(Firsts) \in Nat /\ Cardinality(Firsts') \in Nat
  BY <1>2, FS_Subset, FS_CardinalityType
<1>4. minted \in Nat
  BY DEF PageInv, ClaimsRight, PageTyped
<1> QED
  BY <1>1, <1>3, <1>4, PageBounds DEF NetBounded

(* A request more.                                                         *)
LEMMA NetGrows ==
  ASSUME PageInv, NetBounded, NEW path, NEW c, NEW id, Send(path, c, id)
  PROVE  NetBounded'
<1> DEFINE r == [n |-> acts + 1, path |-> path, cell |-> c, id |-> id,
                 who |-> cookie, minted |-> FALSE, answer |-> "none"]
<1>1. /\ acts < MaxActs /\ Cardinality(net) < MaxOpen /\ acts' = acts + 1 /\ net' = net \cup {r} /\ minted' = minted
  BY DEF Send, server
<1>2. r.n = acts + 1
  OBVIOUS
<1> HIDE DEF r
<1>3. acts \in Nat /\ minted \in Nat
  BY DEF NetBounded, PageInv, ClaimsRight, PageTyped
<1>4. IsFiniteSet(net') /\ Cardinality(net') <= Cardinality(net) + 1 /\ Cardinality(net) \in Nat
  BY <1>1, FS_AddElement, FS_CardinalityType DEF NetBounded
<1>5. IsFiniteSet(Firsts) /\ Firsts' \subseteq Firsts \cup {r}
  BY <1>1, FS_Subset DEF NetBounded, Firsts
<1>6. IsFiniteSet(Firsts \cup {r}) /\ Cardinality(Firsts \cup {r}) <= Cardinality(Firsts) + 1 /\ Cardinality(Firsts) \in Nat
  BY SMTT(40), <1>5, FS_AddElement, FS_CardinalityType
<1>7. Cardinality(Firsts') <= Cardinality(Firsts \cup {r}) /\ Cardinality(Firsts') \in Nat /\ Cardinality(Firsts \cup {r}) \in Nat
  BY <1>5, <1>6, FS_Subset, FS_CardinalityType
<1>8. acts' \in 0..MaxActs /\ minted' + Cardinality(Firsts') <= acts'
  BY <1>1, <1>3, <1>6, <1>7, PageBounds DEF NetBounded
<1>9. Cardinality(net') <= MaxOpen
  <2>1. Cardinality(net') \in Nat
    BY <1>4, FS_CardinalityType
  <2> QED
    BY <1>1, <1>4, <2>1, PageBounds
<1>10. \A m \in net' : m.n \in 1..acts'
  BY <1>1, <1>2, <1>3 DEF NetBounded
<1> QED
  BY <1>4, <1>8, <1>9, <1>10 DEF NetBounded

(* An answer takes the place of its request; the first request that gets   *)
(* one is no longer to be served, and a player more is known.              *)
LEMMA NetAnswers ==
  ASSUME PageInv, NetBounded, NEW m \in net, m.answer = "none", NEW a \in {"ok", "error"}, NEW id,
         Reply(m, a, id), UNCHANGED acts
  PROVE  NetBounded' /\ minted' \in Nat /\ minted <= minted' /\ Player(m) \in 0..minted'
<1> DEFINE r == [m EXCEPT !.answer = a, !.who = Player(m), !.minted = (m.who = 0), !.id = id]
<1>1. m \in Requests /\ minted \in Nat /\ m.who <= minted /\ m.who \in Nat
  BY DEF PageInv, ClaimsRight, PageTyped, Known, Requests
<1>2. net' = (net \ {m}) \cup {r} /\ minted' = IF m.who = 0 THEN minted + 1 ELSE minted
  BY DEF Reply
<1>3. r.n = m.n /\ r.answer = a
  BY <1>1 DEF Requests
<1> HIDE DEF r
<1>4. minted' \in Nat /\ minted <= minted' /\ Player(m) \in 0..minted'
  BY <1>1, <1>2 DEF Player
<1>5. IsFiniteSet(net \ {m}) /\ Cardinality(net \ {m}) = Cardinality(net) - 1 /\ Cardinality(net) \in Nat
  BY FS_RemoveElement, FS_CardinalityType DEF NetBounded
<1>6. IsFiniteSet(net') /\ Cardinality(net') <= MaxOpen
  <2>1. IsFiniteSet(net') /\ Cardinality(net') <= Cardinality(net \ {m}) + 1
    <3>1. PICK kept : kept = net \ {m}
      OBVIOUS
    <3>2. IsFiniteSet(kept) /\ Cardinality(kept) \in Nat /\ net' = kept \cup {r}
      BY <1>2, <1>5, <3>1, FS_CardinalityType
    <3>3. IsFiniteSet(net') /\ (Cardinality(net') = Cardinality(kept) \/ Cardinality(net') = Cardinality(kept) + 1)
      BY <3>2, FS_AddElement
    <3> QED
      BY <3>1, <3>2, <3>3
  <2>2. Cardinality(net') \in Nat
    BY <2>1, FS_CardinalityType
  <2> QED
    BY <1>5, <2>1, <2>2, PageBounds DEF NetBounded
<1>7. IsFiniteSet(Firsts) /\ Cardinality(Firsts) \in Nat
  BY FS_Subset, FS_CardinalityType DEF NetBounded, Firsts
<1>8. Firsts' \subseteq Firsts \ {m}
  BY <1>2, <1>3 DEF Firsts
<1>9. IsFiniteSet(Firsts \ {m}) /\ Cardinality(Firsts \ {m}) = IF m \in Firsts THEN Cardinality(Firsts) - 1 ELSE Cardinality(Firsts)
  BY <1>7, FS_RemoveElement
<1>10. m \in Firsts <=> m.who = 0
  BY DEF Firsts
<1>11. Cardinality(Firsts') <= Cardinality(Firsts \ {m}) /\ Cardinality(Firsts') \in Nat
  BY <1>8, <1>9, FS_Subset, FS_CardinalityType
<1>12. minted' + Cardinality(Firsts') <= acts'
  <2>1. minted + Cardinality(Firsts) <= acts /\ acts \in Nat
    BY PageBounds DEF NetBounded
  <2>2. CASE m.who = 0
    BY <1>1, <1>2, <1>7, <1>9, <1>10, <1>11, <2>1, <2>2
  <2>3. CASE m.who # 0
    BY <1>1, <1>2, <1>7, <1>9, <1>10, <1>11, <2>1, <2>3
  <2> QED
    BY <2>2, <2>3
<1>13. \A k \in net' : k.n \in 1..acts'
  BY <1>2, <1>3 DEF NetBounded
<1> QED
  BY <1>4, <1>6, <1>12, <1>13 DEF NetBounded

(* Claims keep their owners, and none that was granted vanishes.           *)
LEMMA CountsKept ==
  ASSUME PageInv, CountsBounded, minted' \in Nat, minted <= minted',
         \A id \in OwnClaims : /\ claim'[id].owner \in {claim[id].owner} \cup 0..minted'
                               /\ claim[id].state # "absent" => claim'[id].state # "absent",
         timers' \subseteq timers, faults' \in 0..MaxFaults, rivals' \in 0..MaxRivals, astray' \in BOOLEAN
  PROVE  CountsBounded'
<1>1. \A id \in OwnClaims : claim[id].owner \in Nat
  BY DEF PageInv, ClaimsRight, PageTyped, ClaimRecords
<1>2. minted \in Nat
  BY DEF PageInv, ClaimsRight, PageTyped
<1>3. \A id \in OwnClaims : claim'[id].owner <= minted'
  BY <1>1, <1>2 DEF CountsBounded
<1>4. Granted \subseteq Granted'
  BY DEF Granted, Is
<1> QED
  BY <1>3, <1>4 DEF CountsBounded

(* A claim that is painted, given up or overdue is its owner's still.      *)
LEMMA StateChanges ==
  ASSUME PageInv, NEW k, NEW st \in States \ {"absent"}, claim' = [claim EXCEPT ![k].state = st]
  PROVE  \A id \in OwnClaims : /\ claim'[id].owner \in {claim[id].owner} \cup 0..minted'
                               /\ claim[id].state # "absent" => claim'[id].state # "absent"
<1> SUFFICES ASSUME NEW id \in OwnClaims
             PROVE  /\ claim'[id].owner = claim[id].owner
                    /\ claim[id].state # "absent" => claim'[id].state # "absent"
  OBVIOUS
<1>1. claim \in [OwnClaims -> ClaimRecords]
  BY DEF PageInv, ClaimsRight, PageTyped
<1>2. claim'[id] = IF id = k THEN [claim[id] EXCEPT !.state = st] ELSE claim[id]
  BY <1>1
<1> QED
  BY <1>1, <1>2 DEF ClaimRecords

LEMMA ServedBounded ==
  ASSUME PageInv, PageBounded, NEW m \in net, Served(m)
  PROVE  PageBounded'
<1>1. NetBounded /\ CountsBounded /\ minted \in Nat /\ claim \in [OwnClaims -> ClaimRecords]
  BY DEF PageBounded, PageInv, ClaimsRight, PageTyped
<1>2. faults \in 0..MaxFaults /\ rivals \in 0..MaxRivals /\ astray \in BOOLEAN
  BY <1>1 DEF CountsBounded
<1>3. CASE GrantClaim(m)
  <2>1. /\ m.answer = "none" /\ Reply(m, "ok", Cardinality(Granted) + 1)
        /\ UNCHANGED <<acts, timers, faults, rivals, astray>>
    BY <1>3 DEF GrantClaim, Unserved, tab, observed
  <2>2. NetBounded' /\ minted' \in Nat /\ minted <= minted' /\ Player(m) \in 0..minted'
    BY <1>1, <2>1, NetAnswers
  <2>3. ASSUME NEW id \in OwnClaims
        PROVE  /\ claim'[id].owner \in {claim[id].owner} \cup 0..minted'
               /\ claim[id].state # "absent" => claim'[id].state # "absent"
    <3>1. \/ claim'[id] = [cell |-> m.cell, owner |-> Player(m), state |-> "active"]
          \/ claim'[id] = [claim[id] EXCEPT !.state = "superseded"]
          \/ claim'[id] = [claim[id] EXCEPT !.state = "ousted"]
          \/ claim'[id] = claim[id]
      BY <1>3 DEF GrantClaim
    <3>2. claim[id] \in ClaimRecords
      BY <1>1
    <3>3. CASE claim'[id] = [cell |-> m.cell, owner |-> Player(m), state |-> "active"]
      BY <2>2, <3>3
    <3>4. CASE claim'[id] = [claim[id] EXCEPT !.state = "superseded"]
      BY <3>2, <3>4 DEF ClaimRecords
    <3>5. CASE claim'[id] = [claim[id] EXCEPT !.state = "ousted"]
      BY <3>2, <3>5 DEF ClaimRecords
    <3> QED
      BY <3>1, <3>3, <3>4, <3>5
  <2>4. CountsBounded'
    BY <1>1, <1>2, <2>1, <2>2, <2>3, CountsKept
  <2> QED
    BY <2>2, <2>4 DEF PageBounded
<1>4. ASSUME NEW a \in {"ok", "error"}, m.answer = "none", Answer(m, a),
             UNCHANGED <<acts, timers, rivals, astray>>, faults' \in 0..MaxFaults,
             claim' = claim \/ \E st \in States \ {"absent"} : claim' = [claim EXCEPT ![m.id].state = st]
      PROVE  PageBounded'
  <2>1. NetBounded' /\ minted' \in Nat /\ minted <= minted'
    BY <1>1, <1>4, NetAnswers DEF Answer
  <2>2. \A id \in OwnClaims : /\ claim'[id].owner \in {claim[id].owner} \cup 0..minted'
                              /\ claim[id].state # "absent" => claim'[id].state # "absent"
    BY <1>4, StateChanges
  <2>3. CountsBounded'
    BY <1>1, <1>2, <1>4, <2>1, <2>2, CountsKept
  <2> QED
    BY <2>1, <2>3 DEF PageBounded
<1>5. CASE RefuseClaim(m)
  BY <1>2, <1>4, <1>5 DEF RefuseClaim, Unserved, tab, observed
<1>6. CASE ServeConfirm(m)
  BY <1>2, <1>4, <1>6 DEF ServeConfirm, Unserved, tab, observed, States
<1>7. CASE ServeCancel(m)
  BY <1>2, <1>4, <1>7 DEF ServeCancel, Unserved, tab, observed, States
<1>8. CASE ServeError(m)
  <2>1. faults' \in 0..MaxFaults
    BY <1>2, <1>8, PageBounds DEF ServeError, Fault
  <2> QED
    BY <1>2, <1>4, <1>8, <2>1 DEF ServeError, tab, observed
<1> QED
  BY <1>3, <1>5, <1>6, <1>7, <1>8 DEF Served

LEMMA ReceivedBounded ==
  ASSUME PageInv, PageBounded, NEW m \in net, Received(m) \/ AnswerLost(m)
  PROVE  PageBounded'
<1>1. NetBounded /\ CountsBounded
  BY DEF PageBounded
<1>2. net' \subseteq net /\ UNCHANGED <<acts, minted, claim, rivals>>
  BY DEF Received, ClaimGranted, OtherAnswer, AnswerLost, TakeAnswer, server
<1>3. NetBounded'
  BY <1>1, <1>2, NetShrinks
<1>4. Granted' = Granted
  BY <1>2 DEF Granted, Is
<1>5. timers' \subseteq Granted
  <2>1. CASE ClaimGranted(m)
    <3>1. m \in Grants /\ timers' = timers \cup {m.id}
      BY <2>1 DEF ClaimGranted, Answered, Grants
    <3>2. m.id \in Granted
      BY <3>1 DEF PageInv, ClaimsRight, Told
    <3> QED
      BY <1>1, <3>1, <3>2 DEF CountsBounded
  <2>2. CASE OtherAnswer(m) \/ AnswerLost(m)
    BY <1>1, <2>2 DEF OtherAnswer, AnswerLost, tab, CountsBounded
  <2> QED
    BY <2>1, <2>2 DEF Received
<1>6. astray' \in BOOLEAN
  BY <1>1 DEF Received, ClaimGranted, OtherAnswer, AnswerLost, observed, CountsBounded
<1>7. faults' \in 0..MaxFaults
  <2>1. faults \in 0..MaxFaults
    BY <1>1 DEF CountsBounded
  <2>2. faults' = faults \/ (faults < MaxFaults /\ faults' = faults + 1)
    BY DEF Received, ClaimGranted, OtherAnswer, AnswerLost, Fault
  <2> QED
    BY <2>1, <2>2, PageBounds
<1>8. CountsBounded'
  BY <1>1, <1>2, <1>4, <1>5, <1>6, <1>7 DEF CountsBounded
<1> QED
  BY <1>3, <1>8 DEF PageBounded

(* Time, the other player and the stream send and answer nothing.          *)
LEMMA OthersBounded ==
  ASSUME PageInv, PageBounded,
         \/ \E id \in OwnClaims : WindowPasses(id) \/ Reap(id) \/ TimerFires(id)
         \/ \E c \in Cells : RivalLocks(c) \/ RivalLeaves(c)
         \/ StreamDelivers \/ StreamBreaks
  PROVE  PageBounded'
<1>1. NetBounded /\ CountsBounded /\ minted \in Nat /\ claim \in [OwnClaims -> ClaimRecords]
  BY DEF PageBounded, PageInv, ClaimsRight, PageTyped
<1>2. faults \in 0..MaxFaults /\ rivals \in 0..MaxRivals /\ astray \in BOOLEAN
  BY <1>1 DEF CountsBounded
<1>3. ASSUME UNCHANGED <<net, acts, minted, astray>>, timers' \subseteq timers,
             faults' \in 0..MaxFaults, rivals' \in 0..MaxRivals,
             \A id \in OwnClaims : /\ claim'[id].owner \in {claim[id].owner} \cup 0..minted'
                                   /\ claim[id].state # "absent" => claim'[id].state # "absent"
      PROVE  PageBounded'
  <2>1. NetBounded'
    BY <1>1, <1>3, NetShrinks
  <2>2. CountsBounded'
    BY <1>1, <1>2, <1>3, CountsKept
  <2> QED
    BY <2>1, <2>2 DEF PageBounded
<1>4. ASSUME NEW id \in OwnClaims, WindowPasses(id) PROVE PageBounded'
  <2>1. \A k \in OwnClaims : /\ claim'[k].owner \in {claim[k].owner} \cup 0..minted'
                             /\ claim[k].state # "absent" => claim'[k].state # "absent"
    BY <1>4, StateChanges DEF WindowPasses, States, Registered
  <2> QED
    BY <1>2, <1>3, <1>4, <2>1 DEF WindowPasses, tab, observed
<1>5. ASSUME NEW id \in OwnClaims, Reap(id) PROVE PageBounded'
  <2>1. \A k \in OwnClaims : /\ claim'[k].owner \in {claim[k].owner} \cup 0..minted'
                             /\ claim[k].state # "absent" => claim'[k].state # "absent"
    BY <1>5, StateChanges DEF Reap, States
  <2> QED
    BY <1>2, <1>3, <1>5, <2>1 DEF Reap, tab, observed
<1>6. ASSUME NEW id \in OwnClaims, TimerFires(id) PROVE PageBounded'
  BY <1>2, <1>3, <1>6 DEF TimerFires, server, observed
<1>7. ASSUME NEW c \in Cells, RivalLocks(c) PROVE PageBounded'
  <2>1. rivals' \in 0..MaxRivals
    BY <1>2, <1>7, PageBounds DEF RivalLocks
  <2>2. ASSUME NEW k \in OwnClaims
        PROVE  claim'[k].owner = claim[k].owner /\ (claim[k].state # "absent" => claim'[k].state # "absent")
    <3>1. claim'[k] = claim[k] \/ claim'[k] = [claim[k] EXCEPT !.state = "ousted"]
      BY <1>7 DEF RivalLocks
    <3>2. claim[k] \in ClaimRecords
      BY <1>1
    <3> QED
      BY <3>1, <3>2 DEF ClaimRecords
  <2> QED
    BY <1>2, <1>3, <1>7, <2>1, <2>2 DEF RivalLocks, tab, observed
<1>8. ASSUME NEW c \in Cells, RivalLeaves(c) PROVE PageBounded'
  BY <1>2, <1>3, <1>8 DEF RivalLeaves, tab, observed
<1>9. CASE StreamDelivers
  BY <1>2, <1>3, <1>9 DEF StreamDelivers, server
<1>10. CASE StreamBreaks
  <2>1. faults' \in 0..MaxFaults
    BY <1>2, <1>10, PageBounds DEF StreamBreaks, Fault
  <2> QED
    BY <1>2, <1>3, <1>10, <2>1 DEF StreamBreaks, server
<1> QED
  BY <1>4, <1>5, <1>6, <1>7, <1>8, <1>9, <1>10

LEMMA PageInitBounded == PaintInit => PageBounded
<1> SUFFICES ASSUME PaintInit PROVE PageBounded
  OBVIOUS
<1>1. Firsts = {}
  BY DEF PaintInit, Firsts
<1>2. NetBounded
  BY <1>1, FS_EmptySet, PageBounds DEF PaintInit, NetBounded
<1>3. \A id \in OwnClaims : claim[id].owner = 0
  BY DEF PaintInit, NoClaim
<1>4. CountsBounded
  <2>1. faults = 0 /\ rivals = 0 /\ astray = FALSE /\ timers = {} /\ minted = 0
    BY DEF PaintInit
  <2>2. \A id \in OwnClaims : claim[id].owner <= minted
    BY <1>3, <2>1
  <2>3. faults \in 0..MaxFaults /\ rivals \in 0..MaxRivals
    BY <2>1, PageBounds
  <2> QED
    BY <2>1, <2>2, <2>3 DEF CountsBounded
<1> QED
  BY <1>2, <1>4 DEF PageBounded

LEMMA PageStaysBounded == PageInv /\ PageBounded /\ [PaintNext]_paintVars => PageBounded'
<1> SUFFICES ASSUME PageInv, PageBounded, [PaintNext]_paintVars PROVE PageBounded'
  OBVIOUS
<1>1. CASE UNCHANGED paintVars
  BY <1>1 DEF paintVars, server, events, tab, observed, PageBounded, NetBounded, CountsBounded, Firsts, Granted, Is
<1>2. ASSUME NEW path, NEW c, NEW id, Send(path, c, id) PROVE PageBounded'
  <2>1. NetBounded'
    BY <1>2, NetGrows DEF PageBounded
  <2>2. UNCHANGED <<claim, minted, timers, faults, rivals, astray>>
    BY <1>2 DEF Send, server, observed
  <2>3. CountsBounded'
    BY <2>2 DEF PageBounded, CountsBounded, Granted, Is
  <2> QED
    BY <2>1, <2>3 DEF PageBounded
<1>3. CASE User
  BY <1>2, <1>3 DEF User, SendClaim, ClickArmed, Escape, Resolve
<1> QED
  BY <1>1, <1>3, ServedBounded, ReceivedBounded, OthersBounded DEF PaintNext

LEMMA PageIsTyped == ASSUME PageInv, PageBounded PROVE PaintTypeOK
<1>1. /\ PageTyped /\ InOrder /\ Known /\ BoxesRight /\ NetBounded /\ CountsBounded
  BY DEF PageInv, ClaimsRight, PageBounded
<1>2. minted \in 0..MaxActs /\ cookie \in 0..minted
  <2>1. Cardinality(Firsts) \in Nat
    BY <1>1, FS_Subset, FS_CardinalityType DEF NetBounded, Firsts
  <2> QED
    BY <1>1, <2>1, PageBounds DEF PageTyped, NetBounded
<1>3. claim \in [OwnClaims -> [cell : Cells \cup {NoCell}, owner : Identities, state : States]]
  <2>1. \A id \in OwnClaims : claim[id].owner \in Identities
    BY <1>1, <1>2, PageBounds DEF PageTyped, ClaimRecords, CountsBounded, Identities
  <2> QED
    BY <1>1, <2>1 DEF PageTyped, ClaimRecords
<1>4. net \subseteq Messages
  <2> SUFFICES ASSUME NEW m \in net PROVE m \in Messages
    OBVIOUS
  <2>1. m \in Requests /\ m.n \in 1..acts /\ m.who <= minted /\ acts \in 0..MaxActs
    BY <1>1 DEF PageTyped, NetBounded, Known
  <2>2. m.n \in 1..MaxActs /\ m.who \in Identities
    BY <1>2, <2>1, PageBounds DEF Requests, Identities
  <2> QED
    BY <2>1, <2>2 DEF Requests, Messages
<1>5. Granted \subseteq 1..MaxClaims
  BY DEF Granted, OwnClaims
<1>6. armed \in 0..MaxClaims /\ (armed # 0 => armed \in Granted) /\ lastArmed \in 0..MaxClaims
  <2>1. armed \in Granted \cup {0} /\ lastArmed \in Granted \cup {0}
    BY <1>1 DEF PageTyped
  <2>2. Granted \cup {0} \subseteq 0..MaxClaims
    BY <1>5, PageBounds
  <2> QED
    BY <2>1, <2>2
<1>7. \A i \in 1..Len(stream) : stream[i] \in [op : {"add", "remove"}, cell : Cells]
  <2>1. stream \in Seq(Events)
    BY <1>1 DEF BoxesRight
  <2>2. \A i \in 1..Len(stream) : stream[i] \in Events
    BY <2>1, ElementOfSeq
  <2> QED
    BY <2>2 DEF Events
<1> QED
  BY <1>1, <1>2, <1>3, <1>4, <1>6, <1>7 DEF PaintTypeOK, BoxesRight, NetBounded, CountsBounded, Identities

(***************************************************************************)
(* The timelapse page.                                                     *)
(***************************************************************************)
(* The slider of the timelapse page, by itself.                            *)
SeekSpec == SeekInit /\ [][SeekNext]_seekVars

(* The newest query is under way, for where the slider is.                 *)
Newly == \E q \in queries : q.seq = seekSeq /\ q.at = slider
(* Its answer is what the page shows.                                      *)
Shown == hstatus = "failed" \/ (hstatus = "blank" /\ label = slider /\ (resized \/ drawn = slider))

(* Before the first move nothing was asked, and a move asks at most twice. *)
AtStart == slider = Nowhere => queries = {} /\ seekSeq = 0 /\ ~hot /\ ~trailing
Bounded == slider # Nowhere => seekSeq + (IF trailing THEN 1 ELSE 0) <= slides + 1
(* The page is headed for where the slider is: by a query it still owes,   *)
(* the trailing one, by the newest one under way, or by what it shows.     *)
NewestCounts ==
    slider # Nowhere =>
        /\ pending = slider
        /\ ~trailing => Newly \/ (Shown /\ \A q \in queries : q.seq # seekSeq)

(* The invariant the proof rests on.                                       *)
SeekInv == SeekTypeOK /\ AtStart /\ Bounded /\ NewestCounts

(* The bounds of the slider.                                               *)
LEMMA Sizes == Newest \in Nat /\ MaxSlides \in Nat /\ MaxSeeks = 2 * MaxSlides + 2
  BY SliderAssumption DEF MaxSeeks

(* The page as it is opened satisfies the invariant.                       *)
LEMMA SeekInitInv == SeekInit => SeekInv
<1> SUFFICES ASSUME SeekInit PROVE SeekInv
  OBVIOUS
<1> USE DEF SeekInit, Nowhere, Positions
<1>1. SeekTypeOK
  <2>1. seekSeq \in 0..MaxSeeks /\ slides \in 0..MaxSlides
    BY Sizes
  <2> QED
    BY <2>1 DEF SeekTypeOK
<1> QED
  BY <1>1 DEF SeekInv, AtStart, Bounded, NewestCounts

(* A query is the newest of all, for the position it was asked for.        *)
LEMMA SeekIsTyped ==
  ASSUME SeekTypeOK, NEW p \in Positions, Seek(p), slides' \in 0..MaxSlides, seekSeq + 1 <= slides' + 1
  PROVE  /\ seekSeq' \in 0..MaxSeeks
         /\ queries' \subseteq [seq : 1..seekSeq', at : Positions]
         /\ \A a, b \in queries' : a.seq = b.seq => a = b
         /\ \A q \in queries : q.seq # seekSeq'
         /\ \E q \in queries' : q.seq = seekSeq' /\ q.at = p
<1>1. seekSeq \in Nat /\ seekSeq' = seekSeq + 1 /\ seekSeq' \in Nat
  BY Sizes DEF SeekTypeOK, Seek
<1>2. seekSeq' \in 0..MaxSeeks
  <2>1. \A n, s \in Nat : s <= MaxSlides /\ n + 1 <= s + 1 => n + 1 \in 0..2 * MaxSlides + 2
    BY Sizes
  <2>2. slides' \in Nat /\ slides' <= MaxSlides
    BY Sizes
  <2> QED
    BY <1>1, <2>1, <2>2, Sizes
<1>3. \A q \in queries : q \in [seq : 1..seekSeq', at : Positions] /\ q.seq # seekSeq'
  BY <1>1 DEF SeekTypeOK
<1>4. [seq |-> seekSeq + 1, at |-> p] \in [seq : 1..seekSeq', at : Positions]
  BY <1>1
<1>5. queries' = queries \cup {[seq |-> seekSeq + 1, at |-> p]}
  BY DEF Seek
<1>6. queries' \subseteq [seq : 1..seekSeq', at : Positions]
  BY <1>3, <1>4, <1>5
<1>7. \A a, b \in queries' : a.seq = b.seq => a = b
  BY <1>1, <1>3, <1>5 DEF SeekTypeOK
<1>8. \E q \in queries' : q.seq = seekSeq' /\ q.at = p
  <2>1. [seq |-> seekSeq + 1, at |-> p] \in queries'
    BY <1>5
  <2> QED
    BY <1>1, <2>1
<1> QED
  BY <1>2, <1>3, <1>6, <1>7, <1>8

(* Every move, query and answer keeps the invariant.                       *)
LEMMA SeekNextInv == SeekInv /\ [SeekNext]_seekVars => SeekInv'
<1> SUFFICES ASSUME SeekInv, [SeekNext]_seekVars PROVE SeekInv'
  OBVIOUS
<1> USE DEF SeekInv, Nowhere, Positions
<1>0. slides \in Nat /\ seekSeq \in Nat /\ Newest \in Positions
  BY Sizes DEF SeekTypeOK
<1>1. CASE MetaArrives
  <2>1. CASE slider' = Newest /\ ThrottledSeek(Newest)
    <3>1. Seek(Newest) /\ hot' = TRUE /\ trailing' = FALSE /\ pending' = Newest /\ UNCHANGED <<slides, drawn, label, resized>>
      BY <1>1, <2>1 DEF MetaArrives, ThrottledSeek, AtStart, SeekTypeOK
    <3>2. seekSeq = 0 /\ slides' \in 0..MaxSlides /\ seekSeq + 1 <= slides' + 1 /\ slides' = slides
      BY <1>1, <3>1 DEF MetaArrives, AtStart, SeekTypeOK
    <3>3. /\ seekSeq' \in 0..MaxSeeks
          /\ queries' \subseteq [seq : 1..seekSeq', at : Positions]
          /\ \A a, b \in queries' : a.seq = b.seq => a = b
          /\ \A q \in queries : q.seq # seekSeq'
          /\ \E q \in queries' : q.seq = seekSeq' /\ q.at = Newest
      BY <1>0, <3>1, <3>2, SeekIsTyped
    <3>4. SeekTypeOK'
      <4>1. {slider, pending, drawn, label}' \subseteq Positions \cup {Nowhere}
        BY <1>0, <2>1, <3>1 DEF SeekTypeOK
      <4> QED
        BY <3>1, <3>2, <3>3, <4>1 DEF SeekTypeOK, Seek
    <3>5. seekSeq' = 1
      BY <3>1, <3>2 DEF Seek
    <3>6. Newly'
      <4>1. PICK q \in queries' : q.seq = seekSeq' /\ q.at = Newest
        BY <3>3
      <4> QED
        BY <2>1, <4>1 DEF Newly
    <3> QED
      BY <1>0, <2>1, <3>1, <3>2, <3>4, <3>5, <3>6, Sizes DEF AtStart, Bounded, NewestCounts
  <2>2. CASE /\ hstatus' \in {"unpainted", "unavailable"}
             /\ UNCHANGED <<slider, pending, hot, trailing, seekSeq, queries>>
    BY <1>1, <2>2 DEF MetaArrives, SeekTypeOK, AtStart, Bounded, NewestCounts
  <2> QED
    BY <1>1, <2>1, <2>2 DEF MetaArrives
<1>2. ASSUME NEW p \in Positions, Slide(p) PROVE SeekInv'
  <2>0. /\ slider # Nowhere /\ slides' = slides + 1 /\ slides' \in 0..MaxSlides /\ slider' = p /\ pending' = p /\ p # Nowhere
        /\ UNCHANGED <<drawn, label, resized>>
    BY <1>2, <1>0, Sizes DEF Slide, ThrottledSeek, SeekTypeOK
  <2>1. CASE hot
    <3>1. UNCHANGED <<hot, seekSeq, queries, hstatus>> /\ trailing' = TRUE
      BY <1>2, <2>1 DEF Slide, ThrottledSeek
    <3>2. SeekTypeOK'
      BY <2>0, <3>1 DEF SeekTypeOK
    <3>3. seekSeq + 1 <= slides + 2
      BY <1>0, <2>0 DEF Bounded, SeekTypeOK
    <3> QED
      BY <1>0, <2>0, <3>1, <3>2, <3>3 DEF AtStart, Bounded, NewestCounts
  <2>2. CASE ~hot
    <3>1. Seek(p) /\ hot' = TRUE /\ UNCHANGED trailing
      BY <1>2, <2>2 DEF Slide, ThrottledSeek
    <3>2. seekSeq + 1 + (IF trailing THEN 1 ELSE 0) <= slides + 2
      BY <1>0, <2>0 DEF Bounded, SeekTypeOK
    <3>3. /\ seekSeq' \in 0..MaxSeeks
          /\ queries' \subseteq [seq : 1..seekSeq', at : Positions]
          /\ \A a, b \in queries' : a.seq = b.seq => a = b
          /\ \A q \in queries : q.seq # seekSeq'
          /\ \E q \in queries' : q.seq = seekSeq' /\ q.at = p
      <4>1. seekSeq + 1 <= slides' + 1
        BY <1>0, <2>0, <3>2 DEF SeekTypeOK
      <4> QED
        BY <1>0, <2>0, <3>1, <4>1, SeekIsTyped
    <3>4. SeekTypeOK'
      BY <1>0, <2>0, <3>1, <3>3 DEF SeekTypeOK, Seek
    <3>5. Newly'
      <4>1. PICK q \in queries' : q.seq = seekSeq' /\ q.at = p
        BY <3>3
      <4> QED
        BY <2>0, <4>1 DEF Newly
    <3>6. Bounded'
      BY <1>0, <2>0, <3>1, <3>2 DEF Bounded, Seek
    <3> QED
      BY <2>0, <3>4, <3>5, <3>6 DEF AtStart, NewestCounts
  <2> QED
    BY <2>1, <2>2
<1>3. CASE Cools
  BY <1>3 DEF Cools, SeekTypeOK, AtStart, Bounded, NewestCounts, Newly, Shown
<1>4. CASE TrailingFires
  <2>0. trailing /\ slider # Nowhere /\ pending = slider /\ slider \in Positions /\ UNCHANGED <<slider, pending, drawn, label, slides, resized>>
    BY <1>4 DEF TrailingFires, AtStart, NewestCounts, SeekTypeOK
  <2>1. Seek(slider) /\ trailing' = FALSE /\ hot' = TRUE
    BY <1>4, <2>0 DEF TrailingFires
  <2>2. seekSeq + 1 <= slides' + 1 /\ slides' \in 0..MaxSlides
    BY <1>0, <2>0 DEF Bounded, SeekTypeOK
  <2>3. /\ seekSeq' \in 0..MaxSeeks
        /\ queries' \subseteq [seq : 1..seekSeq', at : Positions]
        /\ \A a, b \in queries' : a.seq = b.seq => a = b
        /\ \A q \in queries : q.seq # seekSeq'
        /\ \E q \in queries' : q.seq = seekSeq' /\ q.at = slider
    BY <2>0, <2>1, <2>2, SeekIsTyped
  <2>4. SeekTypeOK'
    BY <2>0, <2>1, <2>2, <2>3 DEF SeekTypeOK, Seek
  <2>5. Newly'
    <3>1. PICK q \in queries' : q.seq = seekSeq' /\ q.at = slider
      BY <2>3
    <3> QED
      BY <2>0, <3>1 DEF Newly
  <2>6. Bounded'
    BY <1>0, <2>0, <2>1, <2>2 DEF Bounded, Seek
  <2> QED
    BY <2>0, <2>4, <2>5, <2>6 DEF AtStart, NewestCounts
<1>5. ASSUME NEW q \in queries, FrameArrives(q) PROVE SeekInv'
  <2>0. /\ queries' = queries \ {q} /\ slider # Nowhere /\ q.at \in Positions
        /\ UNCHANGED <<slider, pending, hot, trailing, seekSeq, slides>>
    BY <1>5 DEF FrameArrives, AtStart, SeekTypeOK
  <2>1. SeekTypeOK'
    BY <1>5, <2>0 DEF FrameArrives, SeekTypeOK
  <2>2. NewestCounts'
    <3>1. CASE q.seq # seekSeq
      BY <1>5, <2>0, <3>1 DEF FrameArrives, NewestCounts, Newly, Shown
    <3>2. CASE q.seq = seekSeq
      BY <1>5, <2>0, <3>2 DEF FrameArrives, NewestCounts, Newly, Shown, SeekTypeOK
    <3> QED
      BY <3>1, <3>2
  <2> QED
    BY <2>0, <2>1, <2>2 DEF AtStart, Bounded
<1>6. ASSUME NEW q \in queries, QueryFails(q) PROVE SeekInv'
  <2>0. /\ queries' = queries \ {q} /\ slider # Nowhere
        /\ UNCHANGED <<slider, pending, hot, trailing, seekSeq, slides, drawn, label, resized>>
    BY <1>6 DEF QueryFails, AtStart, SeekTypeOK
  <2>1. SeekTypeOK'
    BY <1>6, <2>0 DEF QueryFails, SeekTypeOK
  <2>2. NewestCounts'
    BY <1>6, <2>0 DEF QueryFails, NewestCounts, Newly, Shown, SeekTypeOK
  <2> QED
    BY <2>0, <2>1, <2>2 DEF AtStart, Bounded
<1>7. CASE UNCHANGED seekVars
  BY <1>7 DEF seekVars, SeekTypeOK, AtStart, Bounded, NewestCounts, Newly, Shown
<1> QED
  BY <1>1, <1>2, <1>3, <1>4, <1>5, <1>6, <1>7 DEF SeekNext

(* Once the slider rests and its queries are answered, the page shows the  *)
(* frame of the slider's own position or says that the query failed, for   *)
(* any number of positions and moves (seekTo, seekSeq in app.js).          *)
THEOREM SeekFrame == SeekSpec => []FrameIsNewest
<1>1. SeekInv => FrameIsNewest
  BY DEF SeekInv, FrameIsNewest, NewestCounts, Newly, Shown
<1> QED
  BY <1>1, SeekInitInv, SeekNextInv, PTL DEF SeekSpec

(***************************************************************************)
(* The paint bot, for any finite set of placements.                        *)
(***************************************************************************)
(* One run, of any placements.                                             *)
Run == queue = {} /\ \E ps : IsFiniteSet(ps) /\ Begin(ps)
BotSpec == BotInit /\ [][Run \/ BotNext]_botVars

(* A placement is open while a job for it is somewhere.                    *)
InQueue(p) == \E i \in 1..Len(jobs) : jobs[i].p = p
InHands(p) == \E w \in Workers : held[w] # NoJob /\ held[w].p = p
InBackoff(p) == \E j \in backoff : j.p = p
Open == {p \in queue : InQueue(p) \/ InHands(p) \/ InBackoff(p)}

(* No placement has two jobs.                                              *)
OneJob ==
    /\ \A i, k \in 1..Len(jobs) : jobs[i].p = jobs[k].p => i = k
    /\ \A v, w \in Workers : held[v] # NoJob /\ held[w] # NoJob /\ held[v].p = held[w].p => v = w
    /\ \A j, k \in backoff : j.p = k.p => j = k
    /\ \A p \in queue : /\ ~(InQueue(p) /\ InHands(p))
                        /\ ~(InQueue(p) /\ InBackoff(p))
                        /\ ~(InHands(p) /\ InBackoff(p))

(* A job has been tried as often as its placement has failed.              *)
AttemptsCount ==
    /\ \A i \in 1..Len(jobs) : failures[jobs[i].p] = jobs[i].attempts
    /\ \A w \in Workers : held[w] # NoJob => failures[held[w].p] = held[w].attempts
    /\ \A j \in backoff : failures[j.p] = j.attempts

(* The counters against the placements; an end of the context may lose     *)
(* jobs, which are then never settled.                                     *)
CountersAdd ==
    /\ IsFiniteSet(queue)
    /\ Cardinality(Open) <= remaining
    /\ ~cancelled => remaining = Cardinality(Open)
    /\ painted + Cardinality(Abandoned) + remaining = Total

(* What is settled was painted or given up, and workers stay to the end.   *)
SettledIsDone ==
    /\ ~cancelled => \A p \in queue : p \in Open \/ p \in inked \/ p \in Abandoned
    /\ done => remaining = 0
    /\ queue = {} => ~done /\ painted = 0
    /\ left # {} /\ ~cancelled => done \/ queue = {}

(* The invariant the proof rests on.                                       *)
BotInv ==
    /\ BotTypeOK
    /\ OneJob /\ AttemptsCount /\ CountersAdd /\ SettledIsDone

(* The bounds of a run.                                                    *)
LEMMA Sized == MaxRetries \in Nat /\ Workers # {} /\ MayCancel \in BOOLEAN
  BY PaintAssumption

(* What the invariant says of a single job and of the counters.            *)
LEMMA JobFacts ==
  ASSUME BotTypeOK
  PROVE  /\ \A i \in 1..Len(jobs) : jobs[i] \in Jobs
         /\ \A w \in Workers : held[w] # NoJob => held[w] \in Jobs
         /\ \A j \in backoff : j \in Jobs
         /\ \A j \in Jobs : /\ j # NoJob /\ j.p \in queue
                            /\ j.attempts \in Nat /\ j.attempts <= MaxRetries
                            /\ j = Job(j.p, j.attempts)
         /\ Len(jobs) \in Nat
<1>1. jobs \in Seq(Jobs)
  BY DEF BotTypeOK
<1>2. \A i \in 1..Len(jobs) : jobs[i] \in Jobs
  BY <1>1, ElementOfSeq
<1>3. Len(jobs) \in Nat
  BY <1>1
<1>4. ASSUME NEW j \in Jobs
      PROVE  /\ j # NoJob /\ j.p \in queue
             /\ j.attempts \in Nat /\ j.attempts <= MaxRetries
             /\ j = Job(j.p, j.attempts)
  BY <1>4, Sized DEF Jobs, NoJob, Job
<1>5. \A w \in Workers : held[w] # NoJob => held[w] \in Jobs
  BY DEF BotTypeOK
<1>6. \A j \in backoff : j \in Jobs
  BY DEF BotTypeOK
<1> QED
  BY <1>2, <1>3, <1>4, <1>5, <1>6

(* The counters are numbers, and the sets they count are finite.           *)
LEMMA CounterFacts ==
  ASSUME BotInv
  PROVE  /\ remaining \in Nat /\ painted \in Nat /\ Total \in Nat
         /\ IsFiniteSet(Open) /\ Cardinality(Open) \in Nat
         /\ IsFiniteSet(Abandoned) /\ Cardinality(Abandoned) \in Nat
<1>1. IsFiniteSet(queue)
  BY DEF BotInv, CountersAdd
<1>2. Total \in Nat
  BY <1>1, FS_CardinalityType DEF Total
<1>3. remaining \in Nat /\ painted \in Nat
  BY <1>2 DEF BotInv, BotTypeOK
<1>4. IsFiniteSet(Open) /\ IsFiniteSet(Abandoned)
  <2>1. Open \in SUBSET queue /\ Abandoned \in SUBSET queue
    BY DEF Open, Abandoned
  <2> QED
    BY <1>1, <2>1, FS_Subset
<1> QED
  BY <1>2, <1>3, <1>4, FS_CardinalityType

(* One job for a placement at most, so what is counted is what is open.    *)
LEMMA CopiesAreOpen ==
  ASSUME BotTypeOK, OneJob, NEW p \in queue
  PROVE  Copies(p) <= 1 /\ (Copies(p) = 1 <=> p \in Open)
<1>1. Cardinality(Queued(p)) = IF InQueue(p) THEN 1 ELSE 0
  <2>1. CASE InQueue(p)
    <3>1. PICK i \in 1..Len(jobs) : jobs[i].p = p
      BY <2>1 DEF InQueue
    <3>2. Queued(p) = {i}
      BY <3>1 DEF Queued, OneJob
    <3> QED
      BY <2>1, <3>2, FS_Singleton
  <2>2. CASE ~InQueue(p)
    <3>1. Queued(p) = {}
      BY <2>2 DEF Queued, InQueue
    <3> QED
      BY <2>2, <3>1, FS_EmptySet
  <2> QED
    BY <2>1, <2>2
<1>2. Cardinality(HeldBy(p)) = IF InHands(p) THEN 1 ELSE 0
  <2>1. CASE InHands(p)
    <3>1. PICK w \in Workers : held[w] # NoJob /\ held[w].p = p
      BY <2>1 DEF InHands
    <3>2. HeldBy(p) = {w}
      BY <3>1 DEF HeldBy, OneJob
    <3> QED
      BY <2>1, <3>2, FS_Singleton
  <2>2. CASE ~InHands(p)
    <3>1. HeldBy(p) = {}
      BY <2>2 DEF HeldBy, InHands
    <3> QED
      BY <2>2, <3>1, FS_EmptySet
  <2> QED
    BY <2>1, <2>2
<1>3. Cardinality(Waiting(p)) = IF InBackoff(p) THEN 1 ELSE 0
  <2>1. CASE InBackoff(p)
    <3>1. PICK j \in backoff : j.p = p
      BY <2>1 DEF InBackoff
    <3>2. Waiting(p) = {j}
      BY <3>1 DEF Waiting, OneJob
    <3> QED
      BY <2>1, <3>2, FS_Singleton
  <2>2. CASE ~InBackoff(p)
    <3>1. Waiting(p) = {}
      BY <2>2 DEF Waiting, InBackoff
    <3> QED
      BY <2>2, <3>1, FS_EmptySet
  <2> QED
    BY <2>1, <2>2
<1>4. /\ ~(InQueue(p) /\ InHands(p))
      /\ ~(InQueue(p) /\ InBackoff(p))
      /\ ~(InHands(p) /\ InBackoff(p))
  BY DEF OneJob
<1>5. p \in Open <=> InQueue(p) \/ InHands(p) \/ InBackoff(p)
  BY DEF Open
<1> HIDE DEF InQueue, InHands, InBackoff
<1> QED
  BY <1>1, <1>2, <1>3, <1>4, <1>5 DEF Copies

(* A step that settles no placement moves no counter.                      *)
LEMMA NoneSettled ==
  ASSUME BotInv, Open' = Open,
         UNCHANGED <<queue, remaining, done, cancelled, painted, inked, failures>>
  PROVE  CountersAdd'
  BY DEF BotInv, CountersAdd, Abandoned, Total

(* A worker takes the first job of the queue.                              *)
LEMMA TakeJobInv == ASSUME BotInv, NEW w \in Workers, TakeJob(w) PROVE BotInv'
<1> DEFINE j == jobs[1]
<1> USE DEF BotInv
<1>1. /\ jobs \in Seq(Jobs) /\ jobs # <<>> /\ Len(jobs) \in Nat /\ Len(jobs) > 0
      /\ jobs' = Tail(jobs) /\ held' = [held EXCEPT ![w] = j] /\ held[w] = NoJob
      /\ held \in [Workers -> Jobs \cup {NoJob}]
      /\ UNCHANGED <<queue, backoff, remaining, done, cancelled, left, painted, inked, failures>>
  BY EmptySeq DEF TakeJob, Idle, BotTypeOK
<1>2. /\ jobs' \in Seq(Jobs) /\ Len(jobs') = Len(jobs) - 1
      /\ \A i \in 1..Len(jobs') : i + 1 \in 1..Len(jobs) /\ jobs'[i] = jobs[i + 1]
      /\ j \in Jobs /\ 1 \in 1..Len(jobs)
      /\ \A i \in 1..Len(jobs) : i = 1 \/ (i - 1 \in 1..Len(jobs') /\ jobs'[i - 1] = jobs[i])
  BY <1>1, HeadTailProperties
<1>3. j # NoJob /\ j.p \in queue
  BY <1>2, JobFacts
<1>4. /\ held'[w] = j
      /\ \A v \in Workers : v # w => held'[v] = held[v]
  BY <1>1
<1>5. BotTypeOK'
  <2>1. Len(jobs') \in Nat /\ Len(jobs') <= Total'
    BY <1>1, <1>2, CounterFacts DEF BotTypeOK, Total
  <2>2. held' \in [Workers -> Jobs' \cup {NoJob}]
    BY <1>1, <1>2 DEF Jobs
  <2> QED
    BY <1>1, <1>2, <2>1, <2>2 DEF BotTypeOK, Jobs, Total
<1> HIDE DEF j
<1>6. \A p : InQueue(p)' <=> (InQueue(p) /\ p # j.p)
  <2>1. \A i \in 1..Len(jobs) : jobs[i].p = j.p => i = 1
    BY <1>2 DEF OneJob, j
  <2> SUFFICES ASSUME NEW p PROVE InQueue(p)' <=> (InQueue(p) /\ p # j.p)
    OBVIOUS
  <2>2. ASSUME InQueue(p)' PROVE InQueue(p) /\ p # j.p
    <3>1. PICK i \in 1..Len(jobs') : jobs'[i].p = p
      BY <2>2 DEF InQueue
    <3>2. i + 1 \in 1..Len(jobs) /\ jobs[i + 1].p = p /\ i + 1 # 1
      BY <1>2, <3>1
    <3> QED
      BY <2>1, <3>2 DEF InQueue
  <2>3. ASSUME InQueue(p), p # j.p PROVE InQueue(p)'
    <3>1. PICK i \in 1..Len(jobs) : jobs[i].p = p
      BY <2>3 DEF InQueue
    <3>2. i # 1
      BY <2>3, <3>1 DEF j
    <3> QED
      BY <1>2, <3>1, <3>2 DEF InQueue
  <2> QED
    BY <2>2, <2>3
<1>7. \A p : InHands(p)' <=> (InHands(p) \/ p = j.p)
  BY <1>1, <1>3, <1>4 DEF InHands
<1>8. \A p : InBackoff(p)' <=> InBackoff(p)
  BY <1>1 DEF InBackoff
<1>9. InQueue(j.p)
  BY <1>2 DEF InQueue, j
<1>10. Open' = Open
  BY <1>1, <1>6, <1>7, <1>8, <1>9 DEF Open
<1>11. OneJob'
  <2>1. \A i, k \in 1..Len(jobs') : jobs'[i].p = jobs'[k].p => i = k
    BY SMTT(40), <1>2 DEF OneJob
  <2>2. \A v \in Workers : v # w /\ held'[v] # NoJob => held'[v].p # j.p
    BY <1>3, <1>4, <1>9 DEF OneJob, InHands, JobFacts
  <2>3. \A u, v \in Workers : held'[u] # NoJob /\ held'[v] # NoJob /\ held'[u].p = held'[v].p => u = v
    BY <1>4, <2>2 DEF OneJob
  <2>4. \A i, k \in backoff' : i.p = k.p => i = k
    BY <1>1 DEF OneJob
  <2>5. \A p \in queue' : /\ ~(InQueue(p)' /\ InHands(p)')
                         /\ ~(InQueue(p)' /\ InBackoff(p)')
                         /\ ~(InHands(p)' /\ InBackoff(p)')
    BY <1>1, <1>3, <1>6, <1>7, <1>8, <1>9 DEF OneJob
  <2> QED
    BY <2>1, <2>3, <2>4, <2>5 DEF OneJob
<1>12. AttemptsCount'
  BY <1>1, <1>2, <1>4 DEF AttemptsCount, j
<1>13. CountersAdd'
  BY <1>1, <1>10, NoneSettled
<1>14. SettledIsDone'
  BY <1>1, <1>10 DEF SettledIsDone, Abandoned
<1> QED
  BY <1>5, <1>11, <1>12, <1>13, <1>14

(* A job comes back from its backoff.                                      *)
LEMMA PushBackInv == ASSUME BotInv, NEW j \in backoff, PushBack(j) PROVE BotInv'
<1> USE DEF BotInv
<1>1. /\ jobs' = Append(jobs, j) /\ backoff' = backoff \ {j} /\ Len(jobs) < Total
      /\ UNCHANGED <<queue, held, remaining, done, cancelled, left, painted, inked, failures>>
  BY DEF PushBack
<1>2. jobs \in Seq(Jobs) /\ Len(jobs) \in Nat /\ Total \in Nat
  BY CounterFacts DEF BotTypeOK
<1>3. j \in Jobs /\ j # NoJob /\ j.p \in queue
  BY JobFacts
<1>4. /\ jobs' \in Seq(Jobs) /\ Len(jobs') = Len(jobs) + 1
      /\ jobs'[Len(jobs')] = j /\ Len(jobs') \in 1..Len(jobs')
      /\ \A i \in 1..Len(jobs') : i \in 1..Len(jobs) \/ i = Len(jobs')
      /\ \A i \in 1..Len(jobs) : i \in 1..Len(jobs') /\ i # Len(jobs') /\ jobs'[i] = jobs[i]
  BY <1>1, <1>2, <1>3, AppendProperties
<1>5. BotTypeOK'
  <2>1. Len(jobs') <= Total
    BY <1>1, <1>2, <1>4
  <2> QED
    BY <1>1, <1>4, <2>1 DEF BotTypeOK, Jobs, Total
<1>6. InBackoff(j.p)
  BY DEF InBackoff
<1>7. \A p : InQueue(p)' <=> (InQueue(p) \/ p = j.p)
  BY <1>4 DEF InQueue
<1>8. \A p : InBackoff(p)' <=> (InBackoff(p) /\ p # j.p)
  BY <1>1 DEF InBackoff, OneJob
<1>9. \A p : InHands(p)' <=> InHands(p)
  BY <1>1 DEF InHands
<1>10. Open' = Open
  BY <1>1, <1>6, <1>7, <1>8, <1>9 DEF Open
<1>11. OneJob'
  <2>1. \A i \in 1..Len(jobs) : jobs[i].p # j.p
    BY <1>3, <1>6 DEF OneJob, InQueue
  <2>2. \A i, k \in 1..Len(jobs') : jobs'[i].p = jobs'[k].p => i = k
    BY <1>4, <2>1 DEF OneJob
  <2>3. \A u, v \in Workers : held'[u] # NoJob /\ held'[v] # NoJob /\ held'[u].p = held'[v].p => u = v
    BY <1>1 DEF OneJob
  <2>4. \A i, k \in backoff' : i.p = k.p => i = k
    BY <1>1 DEF OneJob
  <2>5. \A p \in queue' : /\ ~(InQueue(p)' /\ InHands(p)')
                         /\ ~(InQueue(p)' /\ InBackoff(p)')
                         /\ ~(InHands(p)' /\ InBackoff(p)')
    BY SMTT(40), <1>1, <1>3, <1>6, <1>7, <1>8, <1>9 DEF OneJob
  <2> QED
    BY <2>2, <2>3, <2>4, <2>5 DEF OneJob
<1>12. AttemptsCount'
  BY <1>1, <1>4 DEF AttemptsCount
<1>13. CountersAdd'
  BY <1>1, <1>10, NoneSettled
<1>14. SettledIsDone'
  BY <1>1, <1>10 DEF SettledIsDone, Abandoned
<1> QED
  BY <1>5, <1>11, <1>12, <1>13, <1>14

(* A worker that sets its job down no longer has its placement.            *)
LEMMA SetDownFacts ==
  ASSUME BotInv, NEW w \in Workers, held[w] # NoJob, SetDown(w)
  PROVE  /\ held' \in [Workers -> Jobs \cup {NoJob}]
         /\ held[w] \in Jobs /\ held[w].p \in Open
         /\ \A p : InHands(p)' <=> (InHands(p) /\ p # held[w].p)
         /\ InHands(held[w].p) /\ ~InQueue(held[w].p) /\ ~InBackoff(held[w].p)
         /\ \A u \in Workers : held'[u] # NoJob => u # w /\ held'[u] = held[u] /\ held[u].p # held[w].p
<1> USE DEF BotInv
<1>1. held[w] \in Jobs /\ held[w].p \in queue
  BY JobFacts
<1>2. held \in [Workers -> Jobs \cup {NoJob}] /\ held' = [held EXCEPT ![w] = NoJob]
  BY DEF BotTypeOK, SetDown
<1>3. held' \in [Workers -> Jobs \cup {NoJob}]
  BY <1>2
<1>4. InHands(held[w].p)
  BY DEF InHands
<1>5. ~InQueue(held[w].p) /\ ~InBackoff(held[w].p) /\ held[w].p \in Open
  BY <1>1, <1>4 DEF OneJob, Open
<1>6. held'[w] = NoJob /\ \A u \in Workers : u # w => held'[u] = held[u]
  BY <1>2
<1>7. \A u \in Workers : held'[u] # NoJob => u # w /\ held'[u] = held[u] /\ held[u].p # held[w].p
  BY <1>6 DEF OneJob
<1>8. \A p : InHands(p)' <=> (InHands(p) /\ p # held[w].p)
  BY <1>6, <1>7 DEF InHands
<1> QED
  BY <1>1, <1>3, <1>4, <1>5, <1>7, <1>8

(* A placement that is settled was open, and the counter counted it.       *)
LEMMA OneLess ==
  ASSUME BotInv, NEW p \in Open
  PROVE  /\ remaining \in Nat /\ remaining >= 1
         /\ Cardinality(Open \ {p}) = Cardinality(Open) - 1
<1>1. IsFiniteSet(Open) /\ Cardinality(Open) \in Nat /\ remaining \in Nat
  BY CounterFacts
<1>2. Cardinality(Open) # 0
  BY <1>1, FS_EmptySet
<1>3. Cardinality(Open) <= remaining
  BY DEF BotInv, CountersAdd
<1> QED
  BY <1>1, <1>2, <1>3, FS_RemoveElement

(* A placement is painted.                                                 *)
LEMMA ConfirmedInv == ASSUME BotInv, NEW w \in Workers, Confirmed(w) PROVE BotInv'
<1> USE DEF BotInv
<1> DEFINE q == held[w].p
<1>1. /\ held[w] # NoJob /\ SetDown(w)
      /\ painted' = painted + 1 /\ inked' = inked \cup {q}
      /\ remaining' = remaining - 1 /\ done' = (done \/ remaining' = 0)
      /\ UNCHANGED <<queue, jobs, backoff, cancelled, left, failures>>
  BY DEF Confirmed, Settle
<1>2. /\ held' \in [Workers -> Jobs \cup {NoJob}]
      /\ held[w] \in Jobs /\ q \in Open
      /\ \A p : InHands(p)' <=> (InHands(p) /\ p # q)
      /\ InHands(q) /\ ~InQueue(q) /\ ~InBackoff(q)
      /\ \A u \in Workers : held'[u] # NoJob => u # w /\ held'[u] = held[u] /\ held[u].p # q
  BY <1>1, SetDownFacts
<1> HIDE DEF q
<1>3. /\ remaining \in Nat /\ remaining >= 1
      /\ Cardinality(Open \ {q}) = Cardinality(Open) - 1
  BY <1>2, OneLess
<1>4. /\ painted \in Nat /\ Total \in Nat
      /\ Cardinality(Open) \in Nat /\ Cardinality(Abandoned) \in Nat
  BY CounterFacts
<1>5. painted + Cardinality(Abandoned) + remaining = Total
  BY DEF CountersAdd
<1>6. BotTypeOK'
  <2>1. painted + 1 \in 0..Total /\ remaining - 1 \in 0..Total
    BY <1>3, <1>4, <1>5
  <2>2. q \in queue
    BY <1>2 DEF Open
  <2>3. inked' \subseteq queue /\ done' \in BOOLEAN
    BY <1>1, <2>2 DEF BotTypeOK
  <2> QED
    BY <1>1, <1>2, <2>1, <2>3 DEF BotTypeOK, Jobs, Total
<1>7. \A p : (InQueue(p)' <=> InQueue(p)) /\ (InBackoff(p)' <=> InBackoff(p))
  BY <1>1 DEF InQueue, InBackoff
<1>8. Open' = Open \ {q}
  BY <1>1, <1>2, <1>7 DEF Open
<1>9. OneJob'
  <2>1. \A u, v \in Workers : held'[u] # NoJob /\ held'[v] # NoJob /\ held'[u].p = held'[v].p => u = v
    BY <1>2 DEF OneJob
  <2>2. \A p \in queue' : /\ ~(InQueue(p)' /\ InHands(p)')
                         /\ ~(InQueue(p)' /\ InBackoff(p)')
                         /\ ~(InHands(p)' /\ InBackoff(p)')
    BY <1>1, <1>2, <1>7 DEF OneJob
  <2> QED
    BY <1>1, <2>1, <2>2 DEF OneJob
<1>10. AttemptsCount'
  BY <1>1, <1>2 DEF AttemptsCount
<1>11. Abandoned' = Abandoned /\ Total' = Total
  BY <1>1 DEF Abandoned, Total
<1>12. CountersAdd'
  <2>1. Cardinality(Open') = Cardinality(Open) - 1
    BY <1>3, <1>8
  <2>2. Cardinality(Open') <= remaining' /\ (~cancelled' => remaining' = Cardinality(Open'))
    BY <1>1, <1>3, <1>4, <2>1 DEF CountersAdd
  <2>3. painted' + Cardinality(Abandoned') + remaining' = Total'
    BY <1>1, <1>3, <1>4, <1>5, <1>11
  <2> QED
    BY <1>1, <2>2, <2>3 DEF CountersAdd
<1>13. SettledIsDone'
  <2>1. ~done /\ q \in queue
    BY <1>2, <1>3 DEF SettledIsDone, Open
  <2>2. ~cancelled' => \A p \in queue' : p \in Open' \/ p \in inked' \/ p \in Abandoned'
    BY <1>1, <1>8, <1>11 DEF SettledIsDone
  <2>3. left' # {} /\ ~cancelled' => done' \/ queue' = {}
    BY <1>1 DEF SettledIsDone
  <2> QED
    BY <1>1, <2>1, <2>2, <2>3 DEF SettledIsDone
<1> QED
  BY <1>6, <1>9, <1>10, <1>12, <1>13

(* A placement failed, and its job goes to a backoff.                      *)
LEMMA RetriedInv ==
  ASSUME BotInv, NEW w \in Workers, Failed(w), MayRetry(held[w])
  PROVE  BotInv'
<1> USE DEF BotInv
<1> DEFINE j == held[w]
           q == held[w].p
<1>1. /\ j # NoJob /\ SetDown(w)
      /\ inked' \in {inked, inked \cup {q}}
      /\ failures' = [failures EXCEPT ![q] = @ + 1]
      /\ backoff' = backoff \cup {Again(j)}
      /\ UNCHANGED <<queue, jobs, remaining, done, cancelled, left, painted>>
  BY DEF Failed
<1>2. /\ held' \in [Workers -> Jobs \cup {NoJob}]
      /\ j \in Jobs /\ q \in Open
      /\ \A p : InHands(p)' <=> (InHands(p) /\ p # q)
      /\ InHands(q) /\ ~InQueue(q) /\ ~InBackoff(q)
      /\ \A u \in Workers : held'[u] # NoJob => u # w /\ held'[u] = held[u] /\ held[u].p # q
  BY <1>1, SetDownFacts
<1>3. /\ j.attempts \in Nat /\ j.attempts < MaxRetries
      /\ Again(j).p = q /\ Again(j).attempts = j.attempts + 1
      /\ failures[q] = j.attempts /\ q \in queue /\ MaxRetries \in Nat
  BY <1>1, <1>2, JobFacts, Sized DEF MayRetry, Again, Job, AttemptsCount, Open
<1>4. Again(j) \in Jobs
  BY <1>3 DEF Again, Job, Jobs
<1>5. /\ failures \in [queue -> 0..MaxRetries + 1]
      /\ failures'[q] = j.attempts + 1
      /\ \A p \in queue : p # q => failures'[p] = failures[p]
      /\ failures' \in [queue -> 0..MaxRetries + 1]
  BY SMTT(40), <1>1, <1>3 DEF BotTypeOK
<1>6. /\ \A k \in backoff : k.p # q /\ k.p \in queue
      /\ \A i \in 1..Len(jobs) : jobs[i].p # q /\ jobs[i].p \in queue
      /\ \A u \in Workers : held'[u] # NoJob => held'[u].p # q /\ held'[u].p \in queue
  BY <1>2, JobFacts DEF InBackoff, InQueue
<1> DEFINE a == Again(j)
<1>7. a.p = q /\ a.attempts = j.attempts + 1 /\ backoff' = backoff \cup {a} /\ a \in Jobs
  BY <1>1, <1>3, <1>4
<1> HIDE DEF q, j, a
<1>8. BotTypeOK'
  <2>1. inked' \subseteq queue
    BY <1>1, <1>3 DEF BotTypeOK
  <2> QED
    BY SMTT(40), <1>1, <1>2, <1>5, <1>7, <2>1 DEF BotTypeOK, Jobs, Total
<1>9. \A p : /\ InQueue(p)' <=> InQueue(p)
             /\ InBackoff(p)' <=> (InBackoff(p) \/ p = q)
  BY <1>1, <1>7 DEF InQueue, InBackoff
<1>10. Open' = Open
  BY <1>1, <1>2, <1>9 DEF Open
<1>11. OneJob'
  <2>1. \A u, v \in Workers : held'[u] # NoJob /\ held'[v] # NoJob /\ held'[u].p = held'[v].p => u = v
    BY <1>2 DEF OneJob
  <2>2. \A p \in queue' : /\ ~(InQueue(p)' /\ InHands(p)')
                         /\ ~(InQueue(p)' /\ InBackoff(p)')
                         /\ ~(InHands(p)' /\ InBackoff(p)')
    BY <1>1, <1>2, <1>9 DEF OneJob
  <2>3. \A i, k \in backoff' : i.p = k.p => i = k
    BY <1>6, <1>7 DEF OneJob
  <2> QED
    BY <1>1, <2>1, <2>2, <2>3 DEF OneJob
<1>12. AttemptsCount'
  <2>1. \A i \in 1..Len(jobs') : failures'[jobs'[i].p] = jobs'[i].attempts
    BY <1>1, <1>5, <1>6 DEF AttemptsCount
  <2>2. \A u \in Workers : held'[u] # NoJob => failures'[held'[u].p] = held'[u].attempts
    BY <1>2, <1>5, <1>6 DEF AttemptsCount
  <2>3. \A k \in backoff' : failures'[k.p] = k.attempts
    BY <1>5, <1>6, <1>7 DEF AttemptsCount
  <2> QED
    BY <2>1, <2>2, <2>3 DEF AttemptsCount
<1>13. Abandoned' = Abandoned /\ Total' = Total
  <2>1. failures[q] # MaxRetries + 1 /\ failures'[q] # MaxRetries + 1
    BY <1>3, <1>5
  <2> QED
    BY <1>1, <1>5, <2>1 DEF Abandoned, Total
<1>14. CountersAdd'
  BY <1>1, <1>10, <1>13 DEF CountersAdd
<1>15. SettledIsDone'
  <2>1. inked \subseteq inked'
    BY <1>1
  <2> QED
    BY <1>1, <1>10, <1>13, <2>1 DEF SettledIsDone
<1> QED
  BY <1>8, <1>11, <1>12, <1>14, <1>15

(* A placement failed for the last time, and is given up.                  *)
LEMMA GivenUpInv ==
  ASSUME BotInv, NEW w \in Workers, Failed(w), ~MayRetry(held[w])
  PROVE  BotInv'
<1> USE DEF BotInv
<1> DEFINE j == held[w]
           q == held[w].p
<1>1. /\ j # NoJob /\ SetDown(w)
      /\ inked' \in {inked, inked \cup {q}}
      /\ failures' = [failures EXCEPT ![q] = @ + 1]
      /\ remaining' = remaining - 1 /\ done' = (done \/ remaining' = 0)
      /\ UNCHANGED <<queue, jobs, backoff, cancelled, left, painted>>
  BY DEF Failed, Settle
<1>2. /\ held' \in [Workers -> Jobs \cup {NoJob}]
      /\ j \in Jobs /\ q \in Open
      /\ \A p : InHands(p)' <=> (InHands(p) /\ p # q)
      /\ InHands(q) /\ ~InQueue(q) /\ ~InBackoff(q)
      /\ \A u \in Workers : held'[u] # NoJob => u # w /\ held'[u] = held[u] /\ held[u].p # q
  BY <1>1, SetDownFacts
<1>3. /\ j.attempts = MaxRetries
      /\ failures[q] = MaxRetries /\ q \in queue /\ MaxRetries \in Nat
  BY <1>1, <1>2, JobFacts, Sized DEF MayRetry, AttemptsCount, Open
<1>4. /\ failures \in [queue -> 0..MaxRetries + 1]
      /\ failures'[q] = MaxRetries + 1
      /\ \A p \in queue : p # q => failures'[p] = failures[p]
      /\ failures' \in [queue -> 0..MaxRetries + 1]
  BY <1>1, <1>3 DEF BotTypeOK
<1>5. /\ \A k \in backoff : k.p # q /\ k.p \in queue
      /\ \A i \in 1..Len(jobs) : jobs[i].p # q /\ jobs[i].p \in queue
      /\ \A u \in Workers : held'[u] # NoJob => held'[u].p # q /\ held'[u].p \in queue
  BY <1>2, JobFacts DEF InBackoff, InQueue
<1> HIDE DEF q, j
<1>6. /\ remaining \in Nat /\ remaining >= 1
      /\ Cardinality(Open \ {q}) = Cardinality(Open) - 1
  BY <1>2, OneLess
<1>7. /\ painted \in Nat /\ Total \in Nat /\ IsFiniteSet(Abandoned)
      /\ Cardinality(Open) \in Nat /\ Cardinality(Abandoned) \in Nat
  BY CounterFacts
<1>8. painted + Cardinality(Abandoned) + remaining = Total
  BY DEF CountersAdd
<1>9. BotTypeOK'
  <2>1. remaining - 1 \in 0..Total
    BY <1>6, <1>7, <1>8
  <2>2. inked' \subseteq queue /\ done' \in BOOLEAN
    BY <1>1, <1>3 DEF BotTypeOK
  <2> QED
    BY <1>1, <1>2, <1>4, <2>1, <2>2 DEF BotTypeOK, Jobs, Total
<1>10. \A p : (InQueue(p)' <=> InQueue(p)) /\ (InBackoff(p)' <=> InBackoff(p))
  BY <1>1 DEF InQueue, InBackoff
<1>11. Open' = Open \ {q}
  BY <1>1, <1>2, <1>10 DEF Open
<1>12. OneJob'
  <2>1. \A u, v \in Workers : held'[u] # NoJob /\ held'[v] # NoJob /\ held'[u].p = held'[v].p => u = v
    BY <1>2 DEF OneJob
  <2>2. \A p \in queue' : /\ ~(InQueue(p)' /\ InHands(p)')
                         /\ ~(InQueue(p)' /\ InBackoff(p)')
                         /\ ~(InHands(p)' /\ InBackoff(p)')
    BY <1>1, <1>2, <1>10 DEF OneJob
  <2> QED
    BY <1>1, <2>1, <2>2 DEF OneJob
<1>13. AttemptsCount'
  <2>1. \A i \in 1..Len(jobs') : failures'[jobs'[i].p] = jobs'[i].attempts
    BY <1>1, <1>4, <1>5 DEF AttemptsCount
  <2>2. \A u \in Workers : held'[u] # NoJob => failures'[held'[u].p] = held'[u].attempts
    BY <1>2, <1>4, <1>5 DEF AttemptsCount
  <2>3. \A k \in backoff' : failures'[k.p] = k.attempts
    BY <1>1, <1>4, <1>5 DEF AttemptsCount
  <2> QED
    BY <2>1, <2>2, <2>3 DEF AttemptsCount
<1>14. Abandoned' = Abandoned \cup {q} /\ q \notin Abandoned /\ Total' = Total
  <2>1. failures[q] # MaxRetries + 1
    BY <1>3
  <2> QED
    BY <1>1, <1>3, <1>4, <2>1 DEF Abandoned, Total
<1>15. CountersAdd'
  <2>1. Cardinality(Open') = Cardinality(Open) - 1
    BY <1>6, <1>11
  <2>2. Cardinality(Open') <= remaining' /\ (~cancelled' => remaining' = Cardinality(Open'))
    BY <1>1, <1>6, <1>7, <2>1 DEF CountersAdd
  <2>3. Cardinality(Abandoned') = Cardinality(Abandoned) + 1
    BY <1>7, <1>14, FS_AddElement
  <2>4. painted' + Cardinality(Abandoned') + remaining' = Total'
    BY <1>1, <1>6, <1>7, <1>8, <1>14, <2>3
  <2> QED
    BY <1>1, <2>2, <2>4 DEF CountersAdd
<1>16. SettledIsDone'
  <2>1. ~done /\ inked \subseteq inked'
    BY <1>1, <1>6 DEF SettledIsDone
  <2>2. ~cancelled' => \A p \in queue' : p \in Open' \/ p \in inked' \/ p \in Abandoned'
    BY <1>1, <1>11, <1>14, <2>1 DEF SettledIsDone
  <2>3. left' # {} /\ ~cancelled' => done' \/ queue' = {}
    BY <1>1 DEF SettledIsDone
  <2> QED
    BY <1>1, <1>3, <2>1, <2>2, <2>3 DEF SettledIsDone
<1> QED
  BY <1>9, <1>12, <1>13, <1>15, <1>16

(* A retry goroutine gives in only after the end of the context: when the  *)
(* run is over there is none.                                              *)
LEMMA GiveInInv == ASSUME BotInv, NEW j \in backoff, GiveIn(j) PROVE BotInv'
<1> USE DEF BotInv
<1>1. /\ backoff' = backoff \ {j} /\ (done \/ cancelled)
      /\ UNCHANGED <<queue, jobs, held, remaining, done, cancelled, left, painted, inked, failures>>
  BY DEF GiveIn
<1>2. j.p \in Open
  BY JobFacts DEF Open, InBackoff
<1>3. /\ remaining \in Nat /\ remaining >= 1
      /\ Cardinality(Open \ {j.p}) = Cardinality(Open) - 1
  BY <1>2, OneLess
<1>4. cancelled /\ cancelled'
  BY <1>1, <1>3 DEF SettledIsDone
<1>5. BotTypeOK'
  BY <1>1 DEF BotTypeOK, Jobs, Total
<1>6. \A p : /\ InQueue(p)' <=> InQueue(p)
             /\ InHands(p)' <=> InHands(p)
             /\ InBackoff(p)' <=> (InBackoff(p) /\ p # j.p)
  BY <1>1 DEF InQueue, InHands, InBackoff, OneJob
<1>7. Open' = Open \ {j.p}
  <2>1. InBackoff(j.p) /\ ~InQueue(j.p) /\ ~InHands(j.p)
    BY <1>2 DEF InBackoff, OneJob, Open
  <2> QED
    BY <1>1, <1>6, <2>1 DEF Open
<1>8. OneJob'
  BY <1>1, <1>6 DEF OneJob
<1>9. AttemptsCount'
  BY <1>1 DEF AttemptsCount
<1>10. Abandoned' = Abandoned /\ Total' = Total
  BY <1>1 DEF Abandoned, Total
<1>11. CountersAdd'
  <2>1. Cardinality(Open) \in Nat
    BY CounterFacts
  <2>2. Cardinality(Open') <= remaining'
    BY <1>1, <1>3, <1>7, <2>1 DEF CountersAdd
  <2> QED
    BY <1>1, <1>4, <1>10, <2>2 DEF CountersAdd
<1>12. SettledIsDone'
  BY <1>1, <1>4 DEF SettledIsDone
<1> QED
  BY <1>5, <1>8, <1>9, <1>11, <1>12

(* A run begins, with one job for every placement.                         *)
LEMMA RunInv == ASSUME BotInv, Run PROVE BotInv'
<1> USE DEF BotInv
<1>1. PICK ps : IsFiniteSet(ps) /\ Begin(ps)
  BY DEF Run
<1> DEFINE js == {Job(p, 0) : p \in ps}
           n == Cardinality(ps)
<1>2. /\ queue = {} /\ queue' = ps /\ jobs' \in Orders(ps) /\ remaining' = n
      /\ left' = IF ps = {} THEN Workers ELSE {}
      /\ failures' = [p \in ps |-> 0]
      /\ UNCHANGED <<held, backoff, done, cancelled, painted, inked>>
  BY <1>1 DEF Begin, Run
<1>3. n \in Nat
  BY <1>1, FS_CardinalityType
<1>4. /\ jobs' \in [1..n -> js]
      /\ \A j \in js : \E i \in 1..n : \A k \in 1..n : jobs'[k] = j <=> k = i
  BY <1>2 DEF Orders
<1>5. \A j \in Jobs : FALSE
  BY <1>2 DEF Jobs
<1>6. /\ \A w \in Workers : held[w] = NoJob /\ held'[w] = NoJob
      /\ backoff = {} /\ backoff' = {} /\ inked' = {} /\ ~done' /\ painted' = 0
  BY <1>2, <1>5 DEF BotTypeOK, SettledIsDone
<1>7. \A p \in ps : Job(p, 0) \in js /\ Job(p, 0).p = p /\ Job(p, 0).attempts = 0
  BY DEF Job
<1>8. \A j \in js : j.p \in ps /\ j.attempts = 0 /\ j = Job(j.p, 0) /\ j \in Jobs'
  BY <1>2, Sized DEF Job, Jobs
<1> HIDE DEF js, n
<1>9. jobs' \in Seq(Jobs') /\ Len(jobs') = n
  <2>1. jobs' \in Seq(js) /\ Len(jobs') = n
    BY <1>3, <1>4
  <2> QED
    BY <1>8, <2>1
<1>10. Total' = n
  BY <1>2 DEF Total, n
<1>11. BotTypeOK'
  <2>1. failures' \in [queue' -> 0..MaxRetries + 1]
    BY <1>2, Sized
  <2>2. left' \subseteq Workers
    BY <1>2
  <2>3. held' \in [Workers -> Jobs' \cup {NoJob}]
    BY <1>2, <1>6 DEF BotTypeOK
  <2>4. remaining' \in 0..Total' /\ painted' \in 0..Total' /\ Len(jobs') <= Total'
    BY <1>2, <1>3, <1>6, <1>9, <1>10 DEF n
  <2> QED
    BY SMTT(40), <1>2, <1>6, <1>9, <2>1, <2>2, <2>3, <2>4 DEF BotTypeOK
<1>12. OneJob'
  <2>1. \A i, k \in 1..Len(jobs') : jobs'[i].p = jobs'[k].p => i = k
    BY <1>4, <1>8, <1>9
  <2>2. \A p : ~InHands(p)' /\ ~InBackoff(p)'
    BY <1>6 DEF InHands, InBackoff
  <2> QED
    BY <1>6, <2>1, <2>2 DEF OneJob
<1>13. AttemptsCount'
  <2>1. \A i \in 1..Len(jobs') : failures'[jobs'[i].p] = jobs'[i].attempts
    BY <1>2, <1>4, <1>8, <1>9
  <2> QED
    BY <1>6, <2>1 DEF AttemptsCount
<1>14. Open' = ps
  <2>1. ASSUME NEW p \in ps PROVE InQueue(p)'
    <3>1. PICK i \in 1..n : jobs'[i] = Job(p, 0)
      BY <1>4, <1>7
    <3> QED
      BY <1>7, <1>9, <3>1 DEF InQueue
  <2> QED
    BY <1>2, <2>1 DEF Open
<1>15. Abandoned' = {}
  BY <1>2, Sized DEF Abandoned
<1>16. CountersAdd'
  BY SMTT(40), <1>1, <1>2, <1>3, <1>6, <1>10, <1>14, <1>15, FS_EmptySet DEF CountersAdd, n
<1>17. SettledIsDone'
  BY <1>2, <1>6, <1>14 DEF SettledIsDone
<1> QED
  BY <1>11, <1>12, <1>13, <1>16, <1>17

(* The invariant holds before the run.                                     *)
LEMMA BotInitInv == BotInit => BotInv
<1> SUFFICES ASSUME BotInit PROVE BotInv
  OBVIOUS
<1> USE DEF BotInit
<1>1. Total = 0 /\ IsFiniteSet(queue)
  BY FS_EmptySet DEF Total
<1>2. BotTypeOK
  <2>1. jobs \in Seq(Jobs) /\ Len(jobs) = 0
    OBVIOUS
  <2>2. held \in [Workers -> Jobs \cup {NoJob}]
    OBVIOUS
  <2>3. failures \in [queue -> 0..MaxRetries + 1]
    OBVIOUS
  <2>4. remaining \in 0..Total /\ painted \in 0..Total /\ Len(jobs) <= Total
    BY <1>1
  <2>5. left \subseteq Workers /\ inked \subseteq queue /\ backoff \subseteq Jobs
    OBVIOUS
  <2> QED
    BY <2>1, <2>2, <2>3, <2>4, <2>5 DEF BotTypeOK
<1>3. Open = {} /\ Abandoned = {}
  BY DEF Open, Abandoned
<1>4. OneJob /\ AttemptsCount
  BY DEF OneJob, AttemptsCount
<1>5. CountersAdd
  BY <1>1, <1>3, FS_EmptySet DEF CountersAdd
<1>6. SettledIsDone
  BY DEF SettledIsDone
<1> QED
  BY <1>2, <1>4, <1>5, <1>6 DEF BotInv

(* Every step of the run keeps the invariant.                              *)
LEMMA BotNextInv == BotInv /\ [Run \/ BotNext]_botVars => BotInv'
<1> SUFFICES ASSUME BotInv, [Run \/ BotNext]_botVars PROVE BotInv'
  OBVIOUS
<1>1. CASE Run
  BY <1>1, RunInv
<1>2. ASSUME NEW w \in Workers, TakeJob(w) PROVE BotInv'
  BY <1>2, TakeJobInv
<1>3. ASSUME NEW w \in Workers, Leave(w) PROVE BotInv'
  <2>1. /\ left' = left \cup {w} /\ (done \/ cancelled)
        /\ UNCHANGED <<queue, jobs, held, backoff, remaining, done, cancelled, painted, inked, failures>>
    BY <1>3 DEF Leave, pool
  <2> QED
    BY ZenonT(60), <2>1 DEF BotInv, BotTypeOK, OneJob, AttemptsCount, CountersAdd, SettledIsDone, Open,
                InQueue, InHands, InBackoff, Abandoned, Total, Jobs
<1>4. ASSUME NEW w \in Workers, Confirmed(w) PROVE BotInv'
  BY <1>4, ConfirmedInv
<1>5. ASSUME NEW w \in Workers, Failed(w) PROVE BotInv'
  BY <1>5, RetriedInv, GivenUpInv
<1>6. ASSUME NEW j \in backoff, PushBack(j) PROVE BotInv'
  BY <1>6, PushBackInv
<1>7. ASSUME NEW j \in backoff, GiveIn(j) PROVE BotInv'
  BY <1>7, GiveInInv
<1>8. CASE Cancel
  <2>1. /\ cancelled' = TRUE
        /\ UNCHANGED <<queue, jobs, held, backoff, remaining, done, left, painted, inked, failures>>
    BY <1>8 DEF Cancel, pool
  <2> QED
    BY <2>1 DEF BotInv, BotTypeOK, OneJob, AttemptsCount, CountersAdd, SettledIsDone, Open,
                InQueue, InHands, InBackoff, Abandoned, Total, Jobs
<1>9. CASE UNCHANGED botVars
  BY <1>9 DEF BotInv, BotTypeOK, OneJob, AttemptsCount, CountersAdd, SettledIsDone, Open,
              InQueue, InHands, InBackoff, Abandoned, Total, Jobs, botVars, pool
<1> QED
  BY <1>1, <1>2, <1>3, <1>4, <1>5, <1>6, <1>7, <1>8, <1>9 DEF BotNext, WorkGoesOn

(* The invariant implies what the run of Clients checks.                   *)
LEMMA BotInvImplies == BotInv => BotTypeOK /\ Accounted /\ RunIsComplete
<1> SUFFICES ASSUME BotInv PROVE BotTypeOK /\ Accounted /\ RunIsComplete
  OBVIOUS
<1> USE DEF BotInv
<1>1. Accounted
  <2>1. {p \in queue : Copies(p) = 1} = Open
    BY CopiesAreOpen DEF Open
  <2> QED
    BY <2>1, CopiesAreOpen DEF Accounted, CountersAdd
<1>2. ASSUME left = Workers, ~cancelled
      PROVE  painted = Total - Cardinality(Abandoned) /\ queue \subseteq inked \cup Abandoned
  <2>1. remaining = 0
    <3>1. CASE done
      BY <3>1 DEF SettledIsDone
    <3>2. CASE queue = {}
      BY <3>2, FS_EmptySet DEF BotTypeOK, Total
    <3> QED
      BY <1>2, <3>1, <3>2, Sized DEF SettledIsDone
  <2>2. Open = {}
    BY <1>2, <2>1, CounterFacts, FS_EmptySet DEF CountersAdd
  <2>3. painted + Cardinality(Abandoned) = Total
    BY <2>1, CounterFacts DEF CountersAdd
  <2> QED
    BY <1>2, <2>2, <2>3, CounterFacts DEF SettledIsDone
<1> QED
  BY <1>1, <1>2 DEF RunIsComplete

(* For any placements, workers and retries: while a run goes on, a         *)
(* placement that is not settled has one job, in the queue, with a worker  *)
(* or in a backoff, and remaining says how many those are (paintRun).      *)
THEOREM PaintAccounted == BotSpec => []Accounted
  BY BotInitInv, BotNextInv, BotInvImplies, PTL DEF BotSpec

(* A run that was not cut short has painted every placement or has given   *)
(* it up after its last retry, and counts as painted what is (paintRun,    *)
(* tryPaint).                                                              *)
THEOREM PaintComplete == BotSpec => []RunIsComplete
  BY BotInitInv, BotNextInv, BotInvImplies, PTL DEF BotSpec

(***************************************************************************)
(* The load bot. An id is left for every claim that may be started.        *)
(***************************************************************************)
(* A run of the swarm, by itself.                                          *)
LoadSpec == LoadInit /\ [][LoadNext]_loadVars

(* The agents whose claim is being created, and the claims there are.      *)
Claiming == {pl \in Players : AgentIs(pl, "claiming")}
Built == {id \in ClaimIds : ~Fresh(id)}

(* The counters as sums.                                                   *)
EachOnce ==
    /\ IsFiniteSet(Busy)
    /\ started = confirmed + conflicts + errors + abandoned + cut + Cardinality(Busy)

(* A posted claim was counted, but for confirms whose answer was lost.     *)
PostsCounted == Cardinality(PostedClaims) \in confirmed..confirmed + mishaps

(* An id is taken for a claim that was started and is not being created.   *)
IdsSuffice == Cardinality(Built) + Cardinality(Claiming) <= started

(* The invariant the proof rests on.                                       *)
LoadInv == LedgerInv /\ LoadTypeOK /\ EachOnce /\ PostsCounted /\ IdsSuffice

(* The bounds of the swarm.                                                *)
LEMMA LoadSized ==
  /\ IsFiniteSet(ClaimIds) /\ MaxStarted \in Nat /\ MaxMishaps \in Nat /\ Origin \in Pixels
  BY LoadAssumption, FS_CardinalityType DEF MaxStarted

(* The counters are numbers, and the sets they count are finite.           *)
LEMMA LoadFacts ==
  ASSUME LoadInv
  PROVE  /\ IsFiniteSet(PostedClaims) /\ Cardinality(PostedClaims) \in Nat
         /\ IsFiniteSet(Built) /\ Cardinality(Built) \in Nat
         /\ IsFiniteSet(Busy) /\ Cardinality(Busy) \in Nat
         /\ IsFiniteSet(Claiming) /\ Cardinality(Claiming) \in Nat
         /\ started \in Nat /\ started <= MaxStarted /\ MaxStarted \in Nat
         /\ confirmed \in Nat /\ conflicts \in Nat /\ errors \in Nat
         /\ abandoned \in Nat /\ cut \in Nat /\ mishaps \in Nat
<1>1. PostedClaims \in SUBSET ClaimIds /\ Built \in SUBSET ClaimIds
  BY DEF PostedClaims, Built
<1>2. IsFiniteSet(Busy) /\ Claiming \in SUBSET Busy
  BY DEF LoadInv, EachOnce, Busy, Claiming, AgentIs
<1>3. IsFiniteSet(PostedClaims) /\ IsFiniteSet(Built) /\ IsFiniteSet(Claiming)
  BY <1>1, <1>2, LoadSized, FS_Subset
<1>4. /\ started \in Nat /\ started <= MaxStarted
      /\ confirmed \in Nat /\ conflicts \in Nat /\ errors \in Nat
      /\ abandoned \in Nat /\ cut \in Nat /\ mishaps \in Nat
  BY LoadSized DEF LoadInv, LoadTypeOK, Counts
<1> QED
  BY <1>2, <1>3, <1>4, LoadSized, FS_CardinalityType

(* What a step of an agent does to the agents at work.                     *)
LEMMA Moved ==
  ASSUME LoadInv, NEW pl \in Players, NEW to \in Agents, Moves(pl, to)
  PROVE  /\ agent' \in [Players -> Agents]
         /\ IsFiniteSet(Busy')
         /\ Cardinality(Busy') =
              Cardinality(Busy) - (IF pl \in Busy THEN 1 ELSE 0)
                 + (IF to.at \in {"claiming", "thinking", "confirming"} THEN 1 ELSE 0)
         /\ Cardinality(Claiming') =
              Cardinality(Claiming) - (IF pl \in Claiming THEN 1 ELSE 0)
                 + (IF to.at = "claiming" THEN 1 ELSE 0)
<1>1. agent \in [Players -> Agents] /\ agent' = [agent EXCEPT ![pl] = to]
  BY DEF LoadInv, LoadTypeOK, Moves
<1>2. /\ agent' \in [Players -> Agents] /\ agent'[pl] = to
      /\ \A b \in Players : b # pl => agent'[b] = agent[b]
  BY <1>1
<1>3. Busy' = (Busy \ {pl}) \cup (IF to.at \in {"claiming", "thinking", "confirming"} THEN {pl} ELSE {})
  BY <1>2 DEF Busy
<1>4. Claiming' = (Claiming \ {pl}) \cup (IF to.at = "claiming" THEN {pl} ELSE {})
  BY <1>2 DEF Claiming, AgentIs
<1>5. /\ IsFiniteSet(Busy \ {pl}) /\ IsFiniteSet(Claiming \ {pl})
      /\ Cardinality(Busy \ {pl}) = Cardinality(Busy) - (IF pl \in Busy THEN 1 ELSE 0)
      /\ Cardinality(Claiming \ {pl}) = Cardinality(Claiming) - (IF pl \in Claiming THEN 1 ELSE 0)
      /\ Cardinality(Busy) \in Nat /\ Cardinality(Claiming) \in Nat
  BY LoadFacts, FS_RemoveElement
<1>6. /\ IsFiniteSet((Busy \ {pl}) \cup {pl})
      /\ Cardinality((Busy \ {pl}) \cup {pl}) = Cardinality(Busy \ {pl}) + 1
      /\ Cardinality((Claiming \ {pl}) \cup {pl}) = Cardinality(Claiming \ {pl}) + 1
  BY <1>5, FS_AddElement
<1>7. /\ IsFiniteSet(Busy')
      /\ Cardinality(Busy') = Cardinality(Busy \ {pl})
             + (IF to.at \in {"claiming", "thinking", "confirming"} THEN 1 ELSE 0)
  <2>1. CASE to.at \in {"claiming", "thinking", "confirming"}
    BY <1>3, <1>5, <1>6, <2>1
  <2>2. CASE to.at \notin {"claiming", "thinking", "confirming"}
    <3>1. Busy' = Busy \ {pl}
      BY <1>3, <2>2
    <3> QED
      BY <1>5, <2>2, <3>1
  <2> QED
    BY <2>1, <2>2
<1>8. Cardinality(Claiming') = Cardinality(Claiming \ {pl}) + (IF to.at = "claiming" THEN 1 ELSE 0)
  <2>1. CASE to.at = "claiming"
    BY <1>4, <1>5, <1>6, <2>1
  <2>2. CASE to.at # "claiming"
    <3>1. Claiming' = Claiming \ {pl}
      BY <1>4, <2>2
    <3> QED
      BY <1>5, <2>2, <3>1
  <2> QED
    BY <2>1, <2>2
<1> QED
  BY <1>2, <1>5, <1>7, <1>8

(* The places of an agent that wants to be elsewhere.                      *)
LEMMA Places ==
  /\ At("waiting") \in Agents /\ At("waiting").at = "waiting"
  /\ At("gone") \in Agents /\ At("gone").at = "gone"
  /\ \A c \in Pixels : /\ [at |-> "claiming", cell |-> c] \in Agents
                       /\ [at |-> "claiming", cell |-> c].at = "claiming"
  /\ \A id \in ClaimIds, s \in {"thinking", "confirming"} :
        [at |-> s, id |-> id] \in Agents /\ [at |-> s, id |-> id].at = s
  BY DEF Agents, At

(* What an agent at a place has with it.                                   *)
LEMMA Contents ==
  ASSUME NEW a \in Agents
  PROVE  /\ a.at = "claiming" => a.cell \in Pixels
         /\ a.at \in {"thinking", "confirming"} => a.id \in ClaimIds
  BY DEF Agents, At

(* A claim is created under an id of its own.                              *)
LEMMA AnIdIsLeft ==
  ASSUME LoadInv, NEW pl \in Players, AgentIs(pl, "claiming")
  PROVE  NewId \in ClaimIds /\ Fresh(NewId)
<1>1. Cardinality(Claiming) # 0
  BY LoadFacts, FS_EmptySet DEF Claiming
<1>2. Cardinality(Built) # MaxStarted
  BY <1>1, LoadFacts DEF LoadInv, IdsSuffice
<1>3. Built # ClaimIds
  BY <1>2 DEF MaxStarted
<1>4. \E id \in ClaimIds : Fresh(id)
  BY <1>3 DEF Built
<1> QED
  BY <1>4 DEF NewId

(* Creating a claim posts nothing and takes one id.                        *)
LEMMA CreateCounts ==
  ASSUME LoadInv, NEW id \in ClaimIds, NEW p \in Pixels, NEW pl \in Players, BuildAndCreate(id, p, pl)
  PROVE  /\ LedgerInv'
         /\ PostedClaims' = PostedClaims
         /\ Cardinality(Built') = Cardinality(Built) + 1
<1>1. LedgerMove
  BY DEF LedgerMove
<1>2. LedgerInv'
  BY <1>1, LedgerStep DEF LoadInv
<1>3. /\ meta'[id] # NoMeta /\ status[id] = "absent" /\ meta[id] = NoMeta
      /\ \A b \in ClaimIds \ {id} : meta'[b] = meta[b]
  BY BuildKeeps DEF LoadInv, BuildAndCreate, NewClaim, Fresh
<1>4. status' = [status EXCEPT ![id] = "pending"] /\ status \in [ClaimIds -> Statuses]
  BY DEF BuildAndCreate, LoadInv, LedgerInv, LedgerTypeOK
<1>5. PostedClaims' = PostedClaims
  BY <1>3, <1>4 DEF PostedClaims
<1>6. Built' = Built \cup {id} /\ id \notin Built
  BY <1>3 DEF Built, Fresh
<1> QED
  BY <1>2, <1>5, <1>6, LoadFacts, FS_AddElement

(* A confirm that succeeds posts one claim.                                *)
LEMMA ConfirmCounts ==
  ASSUME LoadInv, NEW id \in ClaimIds, SubmitConfirm(id)
  PROVE  /\ LedgerInv' /\ Built' = Built
         /\ Cardinality(PostedClaims') =
               Cardinality(PostedClaims) + (IF ConfirmAnswer(id) = "ok" THEN 1 ELSE 0)
<1>1. LedgerMove
  BY DEF LedgerMove, SubmitConfirm
<1>2. LedgerInv'
  BY <1>1, LedgerStep DEF LoadInv
<1>3. status \in [ClaimIds -> Statuses]
  BY DEF LoadInv, LedgerInv, LedgerTypeOK
<1>4. meta' = meta
  BY DEF SubmitConfirm, PostAndRefund, ledgerVars
<1>5. ConfirmAnswer(id) = "ok" <=> status[id] = "pending"
  BY <1>3 DEF ConfirmAnswer, Statuses
<1>6. CASE status[id] = "pending"
  <2>1. status' = [status EXCEPT ![id] = "posted"]
    BY <1>6 DEF SubmitConfirm, PostAndRefund
  <2>2. PostedClaims' = PostedClaims \cup {id} /\ id \notin PostedClaims
    BY <1>3, <1>6, <2>1 DEF PostedClaims
  <2> QED
    BY <1>2, <1>4, <1>5, <1>6, <2>2, LoadFacts, FS_AddElement DEF Built, Fresh
<1>7. CASE status[id] # "pending"
  <2>1. status' = status
    BY <1>7 DEF SubmitConfirm, PostAndRefund, ledgerVars
  <2>2. PostedClaims' = PostedClaims
    BY <2>1 DEF PostedClaims
  <2> QED
    BY <1>2, <1>4, <1>5, <1>7, <2>2, LoadFacts DEF Built, Fresh
<1> QED
  BY <1>6, <1>7

(* A step that leaves the ledger leaves its claims.                        *)
LEMMA IdleLedger ==
  ASSUME LoadInv, UNCHANGED ledgerVars
  PROVE  LedgerInv' /\ PostedClaims' = PostedClaims /\ Built' = Built
<1>1. LedgerInv'
  BY LedgerStep DEF LoadInv, LedgerMove
<1> QED
  BY <1>1 DEF ledgerVars, PostedClaims, Built, Fresh

(* The counters keep within the claims started.                            *)
LEMMA CountsTyped ==
  ASSUME NEW s \in Nat, NEW a \in Nat, NEW b \in Nat, NEW c \in Nat, NEW d \in Nat, NEW e \in Nat,
         NEW n \in Nat, s <= MaxStarted, s = a + b + c + d + e + n
  PROVE  {s, a, b, c, d, e} \subseteq Counts
<1>1. /\ s <= MaxStarted /\ a <= MaxStarted /\ b <= MaxStarted /\ c <= MaxStarted /\ d <= MaxStarted
      /\ e <= MaxStarted /\ MaxStarted \in Nat
  BY LoadSized
<1>2. s \in Counts /\ a \in Counts /\ b \in Counts /\ c \in Counts /\ d \in Counts /\ e \in Counts
  BY <1>1 DEF Counts
<1> QED
  BY <1>2

(* The parts of the invariant, put together.                               *)
LEMMA Reassembled ==
  ASSUME LedgerInv', EachOnce', PostsCounted', IdsSuffice',
         agent' \in [Players -> Agents], hotspot' \in Pixels, over' \in BOOLEAN,
         pacer' \in {"off", "asleep", "offering", "closed"}, mishaps' \in 0..MaxMishaps,
         started' \in Nat, started' <= MaxStarted, confirmed' \in Nat, conflicts' \in Nat,
         errors' \in Nat, abandoned' \in Nat, cut' \in Nat
  PROVE  LoadInv'
<1>1. Cardinality(Busy') \in Nat
  BY FS_CardinalityType DEF EachOnce
<1>2. started' = confirmed' + conflicts' + errors' + abandoned' + cut' + Cardinality(Busy')
  BY DEF EachOnce
<1>3. {started', confirmed', conflicts', errors', abandoned', cut'} \subseteq Counts
  BY ZenonT(60), <1>1, <1>2, CountsTyped
<1>4. LoadTypeOK'
  BY <1>3 DEF LoadTypeOK, LedgerInv, Counts, MaxStarted
<1> QED
  BY <1>4 DEF LoadInv

(* The swarm begins with counters at zero.                                 *)
LEMMA LoadInitInv == LoadInit => LoadInv
<1> SUFFICES ASSUME LoadInit PROVE LoadInv
  OBVIOUS
<1> USE DEF LoadInit
<1>1. LedgerInv
  BY LedgerInitInv
<1>2. Busy = {} /\ Claiming = {}
  BY DEF Busy, Claiming, AgentIs, At
<1>3. PostedClaims = {} /\ Built = {}
  BY DEF LedgerInit, PostedClaims, Built, Fresh
<1>4. EachOnce
  BY <1>2, FS_EmptySet DEF EachOnce
<1>5. PostsCounted /\ IdsSuffice
  BY <1>2, <1>3, FS_EmptySet DEF PostsCounted, IdsSuffice
<1>6. agent \in [Players -> Agents]
  BY Places
<1>7. LoadTypeOK
  <2>1. 0 \in Counts /\ mishaps \in 0..MaxMishaps
    BY LoadSized DEF Counts
  <2>2. {started, confirmed, conflicts, errors, abandoned, cut} \subseteq Counts
    BY <2>1
  <2> QED
    BY <1>1, <1>6, <2>1, <2>2 DEF LoadTypeOK, LedgerInv
<1> QED
  BY <1>1, <1>4, <1>5, <1>7 DEF LoadInv

(* Every step of the run keeps the invariant, and is a move of the ledger. *)
LEMMA LoadNextInv == LoadInv /\ [LoadNext]_loadVars => LoadInv' /\ [LedgerMove]_ledgerVars
<1> SUFFICES ASSUME LoadInv, [LoadNext]_loadVars PROVE LoadInv' /\ [LedgerMove]_ledgerVars
  OBVIOUS
<1>0. /\ IsFiniteSet(Busy) /\ Cardinality(Busy) \in Nat
      /\ Cardinality(PostedClaims) \in Nat /\ Cardinality(Built) \in Nat /\ Cardinality(Claiming) \in Nat
      /\ started \in Nat /\ started <= MaxStarted /\ MaxStarted \in Nat
      /\ confirmed \in Nat /\ conflicts \in Nat /\ errors \in Nat
      /\ abandoned \in Nat /\ cut \in Nat /\ mishaps \in 0..MaxMishaps /\ MaxMishaps \in Nat
      /\ started = confirmed + conflicts + errors + abandoned + cut + Cardinality(Busy)
      /\ Cardinality(PostedClaims) >= confirmed /\ Cardinality(PostedClaims) <= confirmed + mishaps
      /\ Cardinality(Built) + Cardinality(Claiming) <= started
      /\ agent \in [Players -> Agents] /\ hotspot \in Pixels /\ over \in BOOLEAN
      /\ pacer \in {"off", "asleep", "offering", "closed"}
  BY LoadFacts, LoadSized DEF LoadInv, LoadTypeOK, EachOnce, PostsCounted, IdsSuffice
<1>1. ASSUME UNCHANGED <<ledgerVars, agent, metrics, mishaps, hotspot>>, over' \in BOOLEAN,
             pacer' \in {"off", "asleep", "offering", "closed"}
      PROVE  LoadInv' /\ [LedgerMove]_ledgerVars
  <2>1. LedgerInv' /\ PostedClaims' = PostedClaims /\ Built' = Built
    BY <1>1, IdleLedger
  <2>2. Busy' = Busy /\ Claiming' = Claiming
    BY <1>1 DEF Busy, Claiming, AgentIs
  <2>3. UNCHANGED <<started, confirmed, conflicts, errors, abandoned, cut>>
    BY <1>1 DEF metrics
  <2>4. EachOnce' /\ PostsCounted' /\ IdsSuffice'
    BY <1>0, <1>1, <2>1, <2>2, <2>3 DEF EachOnce, PostsCounted, IdsSuffice
  <2>5. LoadInv'
    BY <1>0, <1>1, <2>1, <2>3, <2>4, Reassembled
  <2> QED
    BY <1>1, <2>5
<1>2. CASE RunBegins \/ PacerWakes \/ PacerStops \/ ContextEnds \/ UNCHANGED loadVars
  <2>1. UNCHANGED <<ledgerVars, agent, metrics, mishaps, hotspot>>
    BY <1>2 DEF RunBegins, PacerWakes, PacerStops, ContextEnds, loadVars
  <2>2. over' \in BOOLEAN /\ pacer' \in {"off", "asleep", "offering", "closed"}
    BY <1>0, <1>2 DEF RunBegins, PacerWakes, PacerStops, ContextEnds, loadVars
  <2> QED
    BY <1>1, <2>1, <2>2
<1>3. ASSUME NEW pl \in Players, TakeToken(pl) PROVE LoadInv' /\ [LedgerMove]_ledgerVars
  <2>1. /\ pl \notin Busy /\ pl \notin Claiming /\ started < MaxStarted /\ pacer' = "asleep"
        /\ UNCHANGED <<ledgerVars, hotspot, over, confirmed, conflicts, errors, abandoned, cut, mishaps>>
    BY <1>3 DEF TakeToken, AgentIs, Busy, Claiming
  <2>2. LedgerInv' /\ PostedClaims' = PostedClaims /\ Built' = Built
    BY <2>1, IdleLedger
  <2>3. CASE over
    <3>1. Moves(pl, At("gone")) /\ started' = started
      BY <1>3, <2>3 DEF TakeToken
    <3>2. /\ agent' \in [Players -> Agents] /\ IsFiniteSet(Busy')
          /\ Cardinality(Busy') = Cardinality(Busy) /\ Cardinality(Claiming') = Cardinality(Claiming)
      BY <1>0, <2>1, <3>1, Moved, Places
    <3>3. EachOnce' /\ PostsCounted' /\ IdsSuffice'
      BY SMTT(40), <1>0, <2>1, <2>2, <3>1, <3>2 DEF EachOnce, PostsCounted, IdsSuffice
    <3>4. LoadInv'
      BY <1>0, <2>1, <2>2, <3>1, <3>2, <3>3, Reassembled
    <3> QED
      BY <2>1, <3>4
  <2>4. CASE ~over
    <3>1. PICK c \in Targets : Moves(pl, [at |-> "claiming", cell |-> c])
      BY <1>3, <2>4 DEF TakeToken
    <3>2. started' = started + 1 /\ c \in Pixels
      BY <1>0, <1>3, <2>4 DEF TakeToken, Targets
    <3>3. /\ agent' \in [Players -> Agents] /\ IsFiniteSet(Busy')
          /\ Cardinality(Busy') = Cardinality(Busy) + 1 /\ Cardinality(Claiming') = Cardinality(Claiming) + 1
      BY SMTT(40), <1>0, <2>1, <3>1, <3>2, Moved, Places
    <3>4. EachOnce' /\ PostsCounted' /\ IdsSuffice'
      BY <1>0, <2>1, <2>2, <3>2, <3>3 DEF EachOnce, PostsCounted, IdsSuffice
    <3>5. LoadInv'
      BY <1>0, <2>1, <2>2, <3>2, <3>3, <3>4, Reassembled
    <3> QED
      BY <2>1, <3>5
  <2> QED
    BY <2>3, <2>4
<1>4. ASSUME NEW pl \in Players, TokensClosed(pl) PROVE LoadInv' /\ [LedgerMove]_ledgerVars
  <2>1. /\ pl \notin Busy /\ pl \notin Claiming /\ Moves(pl, At("gone"))
        /\ UNCHANGED <<ledgerVars, hotspot, pacer, over, started, confirmed, conflicts, errors, abandoned, cut, mishaps>>
    BY <1>4 DEF TokensClosed, AgentIs, Busy, Claiming, metrics
  <2>2. LedgerInv' /\ PostedClaims' = PostedClaims /\ Built' = Built
    BY <2>1, IdleLedger
  <2>3. /\ agent' \in [Players -> Agents] /\ IsFiniteSet(Busy')
        /\ Cardinality(Busy') = Cardinality(Busy) /\ Cardinality(Claiming') = Cardinality(Claiming)
    BY <1>0, <2>1, Moved, Places
  <2>4. EachOnce' /\ PostsCounted' /\ IdsSuffice'
    BY <1>0, <2>1, <2>2, <2>3 DEF EachOnce, PostsCounted, IdsSuffice
  <2>5. LoadInv'
    BY SMTT(40), <1>0, <2>1, <2>2, <2>3, <2>4, Reassembled
  <2> QED
    BY <2>1, <2>5
<1>5. ASSUME NEW pl \in Players, ClaimCreated(pl) PROVE LoadInv' /\ [LedgerMove]_ledgerVars
  <2>1. /\ AgentIs(pl, "claiming") /\ pl \in Busy /\ pl \in Claiming
        /\ BuildAndCreate(NewId, agent[pl].cell, pl)
        /\ Moves(pl, [at |-> "thinking", id |-> NewId])
        /\ UNCHANGED <<hotspot, pacer, over, started, confirmed, conflicts, errors, abandoned, cut, mishaps>>
    BY <1>5 DEF ClaimCreated, AgentIs, Busy, Claiming, metrics
  <2>2. NewId \in ClaimIds /\ agent[pl].cell \in Pixels
    BY <1>0, <2>1, AnIdIsLeft, Contents DEF AgentIs
  <2>3. LedgerInv' /\ PostedClaims' = PostedClaims /\ Cardinality(Built') = Cardinality(Built) + 1
    BY <2>1, <2>2, CreateCounts
  <2>4. /\ agent' \in [Players -> Agents] /\ IsFiniteSet(Busy')
        /\ Cardinality(Busy') = Cardinality(Busy) /\ Cardinality(Claiming') = Cardinality(Claiming) - 1
    <3> DEFINE to == [at |-> "thinking", id |-> NewId]
    <3>1. to \in Agents /\ to.at = "thinking" /\ Moves(pl, to)
      BY <2>1, <2>2, Places
    <3> HIDE DEF to
    <3> QED
      BY <1>0, <2>1, <3>1, Moved
  <2>5. EachOnce' /\ PostsCounted' /\ IdsSuffice'
    BY <1>0, <2>1, <2>3, <2>4 DEF EachOnce, PostsCounted, IdsSuffice
  <2>6. LoadInv'
    BY <1>0, <2>1, <2>3, <2>4, <2>5, Reassembled
  <2> QED
    BY <2>1, <2>2, <2>6 DEF LedgerMove
<1>6. ASSUME NEW pl \in Players, ClaimLocked(pl) PROVE LoadInv' /\ [LedgerMove]_ledgerVars
  <2>1. /\ pl \in Busy /\ pl \in Claiming /\ Moves(pl, At("waiting")) /\ conflicts' = conflicts + 1
        /\ UNCHANGED <<ledgerVars, hotspot, pacer, over, started, confirmed, errors, abandoned, cut, mishaps>>
    BY <1>6 DEF ClaimLocked, AgentIs, Busy, Claiming, MovesOn
  <2>2. LedgerInv' /\ PostedClaims' = PostedClaims /\ Built' = Built
    BY <2>1, IdleLedger
  <2>3. /\ agent' \in [Players -> Agents] /\ IsFiniteSet(Busy')
        /\ Cardinality(Busy') = Cardinality(Busy) - 1 /\ Cardinality(Claiming') = Cardinality(Claiming) - 1
    BY <1>0, <2>1, Moved, Places
  <2>4. EachOnce' /\ PostsCounted' /\ IdsSuffice'
    BY <1>0, <2>1, <2>2, <2>3 DEF EachOnce, PostsCounted, IdsSuffice
  <2>5. LoadInv'
    BY <1>0, <2>1, <2>2, <2>3, <2>4, Reassembled
  <2> QED
    BY <2>1, <2>5
<1>7. ASSUME NEW pl \in Players, ClaimFails(pl) PROVE LoadInv' /\ [LedgerMove]_ledgerVars
  <2>1. /\ AgentIs(pl, "claiming") /\ pl \in Busy /\ pl \in Claiming
        /\ mishaps < MaxMishaps /\ mishaps' = mishaps + 1 /\ errors' = errors + 1
        /\ Moves(pl, At("waiting"))
        /\ UNCHANGED <<hotspot, pacer, over, started, confirmed, conflicts, abandoned, cut>>
    BY <1>7 DEF ClaimFails, AgentIs, Busy, Claiming, MovesOn, Mishap
  <2>2. NewId \in ClaimIds /\ agent[pl].cell \in Pixels
    BY <1>0, <2>1, AnIdIsLeft, Contents DEF AgentIs
  <2>3. /\ LedgerInv' /\ PostedClaims' = PostedClaims /\ LedgerMove
        /\ Cardinality(Built') \in {Cardinality(Built), Cardinality(Built) + 1}
    <3>1. CASE BuildAndCreate(NewId, agent[pl].cell, pl)
      BY <2>2, <3>1, CreateCounts DEF LedgerMove
    <3>2. CASE UNCHANGED ledgerVars
      BY <3>2, IdleLedger DEF LedgerMove
    <3> QED
      BY <1>7, <3>1, <3>2 DEF ClaimFails
  <2>4. /\ agent' \in [Players -> Agents] /\ IsFiniteSet(Busy')
        /\ Cardinality(Busy') = Cardinality(Busy) - 1 /\ Cardinality(Claiming') = Cardinality(Claiming) - 1
    BY <1>0, <2>1, Moved, Places
  <2>5. EachOnce' /\ PostsCounted' /\ IdsSuffice' /\ mishaps' \in 0..MaxMishaps
    BY <1>0, <2>1, <2>3, <2>4 DEF EachOnce, PostsCounted, IdsSuffice
  <2>6. LoadInv'
    BY <1>0, <2>1, <2>3, <2>4, <2>5, Reassembled
  <2> QED
    BY <2>3, <2>6
<1>8. ASSUME NEW pl \in Players, ThinkCut(pl) PROVE LoadInv' /\ [LedgerMove]_ledgerVars
  <2>1. /\ pl \in Busy /\ pl \notin Claiming /\ Moves(pl, At("gone")) /\ cut' = cut + 1
        /\ UNCHANGED <<ledgerVars, hotspot, pacer, over, started, confirmed, conflicts, errors, abandoned, mishaps>>
    BY <1>8 DEF ThinkCut, AgentIs, Busy, Claiming
  <2>2. LedgerInv' /\ PostedClaims' = PostedClaims /\ Built' = Built
    BY <2>1, IdleLedger
  <2>3. /\ agent' \in [Players -> Agents] /\ IsFiniteSet(Busy')
        /\ Cardinality(Busy') = Cardinality(Busy) - 1 /\ Cardinality(Claiming') = Cardinality(Claiming)
    BY <1>0, <2>1, Moved, Places
  <2>4. EachOnce' /\ PostsCounted' /\ IdsSuffice'
    BY <1>0, <2>1, <2>2, <2>3 DEF EachOnce, PostsCounted, IdsSuffice
  <2>5. LoadInv'
    BY <1>0, <2>1, <2>2, <2>3, <2>4, Reassembled
  <2> QED
    BY <2>1, <2>5
<1>9. ASSUME NEW pl \in Players, Think(pl) PROVE LoadInv' /\ [LedgerMove]_ledgerVars
  <2>1. /\ pl \in Busy /\ pl \notin Claiming /\ AgentIs(pl, "thinking")
        /\ UNCHANGED <<ledgerVars, hotspot, pacer, over, started, confirmed, conflicts, errors, cut, mishaps>>
    BY <1>9 DEF Think, AgentIs, Busy, Claiming
  <2>2. LedgerInv' /\ PostedClaims' = PostedClaims /\ Built' = Built
    BY <2>1, IdleLedger
  <2>3. /\ agent' \in [Players -> Agents] /\ IsFiniteSet(Busy') /\ Cardinality(Claiming') = Cardinality(Claiming)
        /\ \/ abandoned' = abandoned + 1 /\ Cardinality(Busy') = Cardinality(Busy) - 1
           \/ abandoned' = abandoned /\ Cardinality(Busy') = Cardinality(Busy)
    <3>1. CASE abandoned' = abandoned + 1 /\ MovesOn(pl)
      BY SMTT(40), <1>0, <2>1, <3>1, Moved, Places DEF MovesOn
    <3>2. CASE Moves(pl, [at |-> "confirming", id |-> agent[pl].id]) /\ UNCHANGED abandoned
      <4> DEFINE to == [at |-> "confirming", id |-> agent[pl].id]
      <4>1. agent[pl].id \in ClaimIds
        BY <1>0, <2>1, Contents DEF AgentIs
      <4>2. to \in Agents /\ to.at = "confirming" /\ Moves(pl, to)
        BY <3>2, <4>1, Places
      <4> HIDE DEF to
      <4> QED
        BY SMTT(40), <1>0, <2>1, <3>2, <4>2, Moved
    <3> QED
      BY <1>9, <3>1, <3>2 DEF Think
  <2>4. EachOnce' /\ PostsCounted' /\ IdsSuffice' /\ abandoned' \in Nat
    BY <1>0, <2>1, <2>2, <2>3 DEF EachOnce, PostsCounted, IdsSuffice
  <2>5. LoadInv'
    BY <1>0, <2>1, <2>2, <2>3, <2>4, Reassembled
  <2> QED
    BY <2>1, <2>5
<1>10. ASSUME NEW pl \in Players, ConfirmAnswered(pl) PROVE LoadInv' /\ [LedgerMove]_ledgerVars
  <2> DEFINE id == agent[pl].id
  <2>1. /\ AgentIs(pl, "confirming") /\ pl \in Busy /\ pl \notin Claiming /\ Moves(pl, At("waiting"))
        /\ SubmitConfirm(id)
        /\ UNCHANGED <<hotspot, pacer, over, started, conflicts, abandoned, cut, mishaps>>
        /\ IF ConfirmAnswer(id) = "ok" THEN confirmed' = confirmed + 1 /\ errors' = errors
           ELSE errors' = errors + 1 /\ confirmed' = confirmed
    BY <1>10 DEF ConfirmAnswered, AgentIs, Busy, Claiming, MovesOn, ConfirmedAs
  <2>2. id \in ClaimIds
    BY <1>0, <2>1, Contents DEF AgentIs
  <2> HIDE DEF id
  <2>3. /\ LedgerInv' /\ Built' = Built
        /\ Cardinality(PostedClaims') =
               Cardinality(PostedClaims) + (IF ConfirmAnswer(id) = "ok" THEN 1 ELSE 0)
    BY <2>1, <2>2, ConfirmCounts
  <2>4. /\ agent' \in [Players -> Agents] /\ IsFiniteSet(Busy')
        /\ Cardinality(Busy') = Cardinality(Busy) - 1 /\ Cardinality(Claiming') = Cardinality(Claiming)
    BY <1>0, <2>1, Moved, Places
  <2>5. EachOnce' /\ PostsCounted' /\ IdsSuffice' /\ confirmed' \in Nat /\ errors' \in Nat
    BY <1>0, <2>1, <2>3, <2>4 DEF EachOnce, PostsCounted, IdsSuffice
  <2>6. LoadInv'
    BY <1>0, <2>1, <2>3, <2>4, <2>5, Reassembled
  <2> QED
    BY <2>1, <2>2, <2>6 DEF LedgerMove, SubmitConfirm
<1>11. ASSUME NEW pl \in Players, ConfirmFails(pl) PROVE LoadInv' /\ [LedgerMove]_ledgerVars
  <2> DEFINE id == agent[pl].id
  <2>1. /\ AgentIs(pl, "confirming") /\ pl \in Busy /\ pl \notin Claiming /\ Moves(pl, At("waiting"))
        /\ mishaps < MaxMishaps /\ mishaps' = mishaps + 1 /\ errors' = errors + 1
        /\ SubmitConfirm(id) \/ UNCHANGED ledgerVars
        /\ UNCHANGED <<hotspot, pacer, over, started, confirmed, conflicts, abandoned, cut>>
    BY <1>11 DEF ConfirmFails, AgentIs, Busy, Claiming, MovesOn, Mishap
  <2>2. id \in ClaimIds
    BY <1>0, <2>1, Contents DEF AgentIs
  <2> HIDE DEF id
  <2>3. /\ LedgerInv' /\ Built' = Built /\ LedgerMove
        /\ Cardinality(PostedClaims') \in {Cardinality(PostedClaims), Cardinality(PostedClaims) + 1}
    <3>1. CASE SubmitConfirm(id)
      BY <1>0, <2>2, <3>1, ConfirmCounts DEF LedgerMove, SubmitConfirm
    <3>2. CASE UNCHANGED ledgerVars
      BY <3>2, IdleLedger DEF LedgerMove
    <3> QED
      BY <2>1, <3>1, <3>2
  <2>4. /\ agent' \in [Players -> Agents] /\ IsFiniteSet(Busy')
        /\ Cardinality(Busy') = Cardinality(Busy) - 1 /\ Cardinality(Claiming') = Cardinality(Claiming)
    BY <1>0, <2>1, Moved, Places
  <2>5. EachOnce' /\ PostsCounted' /\ IdsSuffice' /\ mishaps' \in 0..MaxMishaps
    BY SMTT(40), <1>0, <2>1, <2>3, <2>4 DEF EachOnce, PostsCounted, IdsSuffice
  <2>6. LoadInv'
    BY <1>0, <2>1, <2>3, <2>4, <2>5, Reassembled
  <2> QED
    BY <2>3, <2>6
<1>12. ASSUME NEW id \in ClaimIds, ClaimEnds(id) PROVE LoadInv' /\ [LedgerMove]_ledgerVars
  <2>1. /\ UNCHANGED <<hotspot, pacer, over, agent, started, confirmed, conflicts, errors, abandoned, cut, mishaps>>
        /\ LedgerMove
    BY <1>12 DEF ClaimEnds, metrics, LedgerMove
  <2>2. LedgerInv' /\ status \in [ClaimIds -> Statuses]
    BY <2>1, LedgerStep DEF LoadInv, LedgerInv, LedgerTypeOK
  <2>3. PostedClaims' = PostedClaims /\ Built' = Built
    BY <1>12, <2>2 DEF ClaimEnds, Timeout, Release, PostedClaims, Built, Fresh
  <2>4. Busy' = Busy /\ Claiming' = Claiming
    BY <2>1 DEF Busy, Claiming, AgentIs
  <2>5. EachOnce' /\ PostsCounted' /\ IdsSuffice'
    BY <1>0, <2>1, <2>3, <2>4 DEF EachOnce, PostsCounted, IdsSuffice
  <2>6. LoadInv'
    BY <1>0, <2>1, <2>2, <2>5, Reassembled
  <2> QED
    BY <2>1, <2>6
<1> QED
  BY <1>2, <1>3, <1>4, <1>5, <1>6, <1>7, <1>8, <1>9, <1>10, <1>11, <1>12
     DEF LoadNext, RunGoesOn, AgentSteps, ClaimSteps, ConfirmSteps

(* For any players, cells and number of claims: the report accounts for    *)
(* every claim that was started, once, and calls confirmed what the ledger *)
(* posted, but for the confirms whose answer was lost (Metrics,            *)
(* runPlayer).                                                             *)
THEOREM LoadAccounted == LoadSpec => []LoadNumbers
<1>1. LoadInv => LoadNumbers
  BY LoadFacts DEF LoadInv, EachOnce, PostsCounted, LoadNumbers
<1> QED
  BY <1>1, LoadInitInv, LoadNextInv, PTL DEF LoadSpec

(* All that the swarm does to the ledger are the ledger's own moves, so it *)
(* never breaks what the ledger promises: one claim at most holds a cell,  *)
(* and no unit of a cell is lost or doubled (CreatePending, Confirm        *)
(* without the web server).                                                *)
THEOREM LoadKeepsLedger == LoadSpec => [][LedgerMove]_ledgerVars /\ [](Exclusive /\ OneUnit)
<1>1. LoadInv => Exclusive /\ OneUnit
  BY DEF LoadInv, LedgerInv
<1> QED
  BY <1>1, LoadInitInv, LoadNextInv, PTL DEF LoadSpec

(***************************************************************************)
(* Clients: one of them runs, the others stay as they start.               *)
(***************************************************************************)
(* The invariant of each, and what each is given.                          *)
ClientsInv ==
    /\ client \in Kinds
    /\ PageInv /\ PageBounded /\ SeekInv /\ LoadInv /\ BotInv /\ ConvInv

LEMMA OneOfThem == Init => ClientsInv
<1> SUFFICES ASSUME Init PROVE ClientsInv
  OBVIOUS
<1>1. client \in Kinds /\ PaintInit /\ SeekInit /\ LoadInit /\ BotInit /\ ConvInit /\ given \in GivenTo(client)
  BY DEF Init
<1>2. given \in Inputs \cup {Nothing}
  BY <1>1, ClientsAssumption DEF GivenTo, Inputs, Kinds
<1> QED
  BY <1>1, <1>2, PageInitInv, PageInitBounded, SeekInitInv, LoadInitInv, BotInitInv, ConvInitInv DEF ClientsInv

(* The bot compiles what it paints, then runs on what that came to.        *)
LEMMA PaintModeInv == ASSUME BotInv, ConvInv, PaintMode PROVE BotInv' /\ ConvInv'
<1>1. CASE Compile /\ UNCHANGED botVars
  BY <1>1, CompileInv, BotNextInv
<1>2. CASE Start
  <2>1. Begin(ToPaint(made)) /\ queue = {} /\ UNCHANGED convVars
    BY <1>2 DEF Start
  <2>2. Run
    BY <2>1, ToPaintIsFinite DEF Run
  <2> QED
    BY <2>1, <2>2, BotNextInv, ConvNextInv
<1>3. CASE BotNext /\ UNCHANGED convVars
  BY <1>3, BotNextInv, ConvNextInv
<1> QED
  BY <1>1, <1>2, <1>3 DEF PaintMode

LEMMA EachByItself == ClientsInv /\ [Next]_vars => ClientsInv'
<1> SUFFICES ASSUME ClientsInv, [Next]_vars PROVE ClientsInv'
  OBVIOUS
<1>1. PageInv /\ PageBounded /\ SeekInv /\ LoadInv /\ BotInv /\ ConvInv /\ client \in Kinds
  BY DEF ClientsInv
<1>2. /\ UNCHANGED paintVars => PageInv' /\ PageBounded'
      /\ UNCHANGED seekVars => SeekInv'
      /\ UNCHANGED loadVars => LoadInv'
      /\ UNCHANGED botVars => BotInv'
      /\ UNCHANGED convVars => ConvInv'
  BY <1>1, PageNextInv, PageStaysBounded, SeekNextInv, LoadNextInv, BotNextInv, ConvNextInv
<1>3. UNCHANGED client
  BY DEF Next, vars
<1>4. CASE PaintNext /\ UNCHANGED <<seekVars, loadVars, botVars, convVars>>
  BY SMTT(40), <1>1, <1>2, <1>3, <1>4, PageNextInv, PageStaysBounded DEF ClientsInv
<1>5. CASE SeekNext /\ UNCHANGED <<paintVars, loadVars, botVars, convVars>>
  BY <1>1, <1>2, <1>3, <1>5, SeekNextInv DEF ClientsInv
<1>6. CASE LoadNext /\ UNCHANGED <<paintVars, seekVars, botVars, convVars>>
  BY SMTT(40), <1>1, <1>2, <1>3, <1>6, LoadNextInv DEF ClientsInv
<1>7. CASE PaintMode /\ UNCHANGED <<paintVars, seekVars, loadVars>>
  BY <1>1, <1>2, <1>3, <1>7, PaintModeInv DEF ClientsInv
<1>8. CASE ConvNext /\ UNCHANGED <<paintVars, seekVars, loadVars, botVars>>
  BY SMTT(40), <1>1, <1>2, <1>3, <1>8, ConvNextInv DEF ClientsInv
<1>9. CASE UNCHANGED vars
  BY <1>1, <1>2, <1>3, <1>9 DEF ClientsInv, vars
<1> QED
  BY <1>4, <1>5, <1>6, <1>7, <1>8, <1>9 DEF Next

(* Whichever client runs, and whatever the others wait with, the           *)
(* invariants of all of them hold: what the paint bot runs on is what its  *)
(* input compiled to (cmd/bot main: LoadPaint, resolvePaintOffset,         *)
(* RunPaint).                                                              *)
THEOREM ClientsInvariance == FairSpec => []ClientsInv
  BY OneOfThem, EachByItself, PTL DEF FairSpec

(* Every variable of every client has its type.                            *)
THEOREM TypeCorrect == FairSpec => []TypeOK
<1>1. ClientsInv => TypeOK
  BY PageIsTyped, BotInvImplies, ConvIsTyped DEF ClientsInv, SeekInv, LoadInv, TypeOK
<1> QED
  BY <1>1, ClientsInvariance, PTL

(* What is promised of the pages and of the bots holds of Clients: the     *)
(* page arms no claim that fell, boxes are those announced, the timelapse  *)
(* shows where its slider is, no placement is lost or run twice, and the   *)
(* load bot's numbers add up.                                              *)
THEOREM ClientsSafe ==
    FairSpec => [](/\ ArmedIsStanding /\ BoxesAreAnnounced /\ FrameIsNewest
                   /\ Accounted /\ RunIsComplete /\ LoadNumbers)
<1>1. SeekInv => FrameIsNewest
  BY DEF SeekInv, FrameIsNewest, NewestCounts, Newly, Shown
<1>2. LoadInv => LoadNumbers
  BY LoadFacts DEF LoadInv, EachOnce, PostsCounted, LoadNumbers
<1>3. ClientsInv => /\ ArmedIsStanding /\ BoxesAreAnnounced /\ FrameIsNewest
                    /\ Accounted /\ RunIsComplete /\ LoadNumbers
  BY <1>1, <1>2, ArmedFollows, BoxesFollow, BotInvImplies DEF ClientsInv
<1> QED
  BY <1>3, ClientsInvariance, PTL

(* What is promised of the conversions holds of Clients, the paint bot's   *)
(* input included.                                                         *)
THEOREM ConvertsFaithfully ==
    FairSpec => [](ColoursAgree /\ ShapesAreExact /\ BlueprintIsFaithful /\ PreviewIsPainting)
<1>1. ClientsInv => ColoursAgree /\ ShapesAreExact /\ BlueprintIsFaithful /\ PreviewIsPainting
  BY ColoursAgreeFollows, ShapesFollow, BlueprintFollows, PreviewFollows DEF ClientsInv
<1> QED
  BY <1>1, ClientsInvariance, PTL
====
