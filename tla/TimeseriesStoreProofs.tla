------------------------ MODULE TimeseriesStoreProofs ------------------------
(***************************************************************************)
(* Theorems about TimeseriesStore, for any number of programs, files and   *)
(* leads, whatever the programs share and however often they are killed.   *)
(***************************************************************************)
EXTENDS TimeseriesStore, TLAPS

-----------------------------------------------------------------------------
(* Places, events and cells.                                               *)

\* What the assumption says of one file.
LEMMA FileTyped ==
  ASSUME NEW w \in Writers, NEW k \in DOMAIN Work[w]
  PROVE  /\ Len(Work[w]) \in Nat \ {0} /\ DOMAIN Work[w] = 1 .. Len(Work[w])
         /\ Work[w][k] \in [series : Series, slices : Seq(SUBSET Int)]
         /\ Len(Work[w][k].slices) \in Nat \ {0}
         /\ Leads(w, k) = 1 .. Len(Work[w][k].slices)
<1> DEFINE File == [series : Series, slices : Seq(SUBSET Int)]
<1>1. Work[w] \in Seq(File) /\ Work[w] # <<>>
  BY StoreAssumption
<1>2. Len(Work[w]) \in Nat \ {0} /\ DOMAIN Work[w] = 1 .. Len(Work[w])
  BY <1>1
<1>3. Work[w][k] \in File
  <2> HIDE DEF File
  <2>1. QED  BY <1>1, <1>2
<1>4. Work[w][k].slices \in Seq(SUBSET Int) /\ Work[w][k].slices # <<>>
  BY <1>3, StoreAssumption
<1>5. QED  BY <1>2, <1>3, <1>4 DEF Leads

\* A writer has a first file with a first lead.
LEMMA FirstPlace ==
  ASSUME NEW w \in Writers
  PROVE  [file |-> 1, lead |-> 1] \in Places[w]
<1>1. 1 \in DOMAIN Work[w]
  <2>1. Work[w] \in Seq([series : Series, slices : Seq(SUBSET Int)]) /\ Work[w] # <<>>
    BY StoreAssumption
  <2>2. QED  BY <2>1
<1>2. 1 \in Leads(w, 1)
  BY <1>1, FileTyped
<1>3. QED  BY <1>1, <1>2 DEF Places

\* The place of a writer names an event of the store and times of its rows.
LEMMA PlaceTyped ==
  ASSUME NEW w \in Writers, NEW p \in Places[w]
  PROVE  /\ p.file \in DOMAIN Work[w] /\ p.lead \in Leads(w, p.file)
         /\ p = [file |-> p.file, lead |-> p.lead]
         /\ p.file \in Nat \ {0} /\ p.lead \in Nat \ {0}
         /\ EventAt(w, p) \in Events
         /\ SliceAt(w, p) \subseteq Times
         /\ SliceAt(w, p) \subseteq Int
<1>1. PICK k \in DOMAIN Work[w] : \E i \in Leads(w, k) : p = [file |-> k, lead |-> i]
  BY DEF Places
<1>2. p.file \in DOMAIN Work[w] /\ p.lead \in Leads(w, p.file)
      /\ p = [file |-> p.file, lead |-> p.lead]
  BY <1>1
<1>3. p.file \in Nat \ {0} /\ p.lead \in Nat \ {0}
  BY <1>2, FileTyped
<1>4. EventAt(w, p) \in Events /\ SliceAt(w, p) \subseteq Times
  BY DEF Events, Times
<1>5. SliceAt(w, p) \subseteq Int
  <2>1. Work[w][p.file].slices \in Seq(SUBSET Int)
    BY <1>2, FileTyped
  <2>2. Work[w][p.file].slices[p.lead] \in SUBSET Int
    BY <1>2, <2>1 DEF Leads
  <2>3. QED  BY <2>2 DEF SliceAt
<1>6. QED  BY <1>2, <1>3, <1>4, <1>5

\* Places are told apart by their two fields.
LEMMA PlaceEqual ==
  ASSUME NEW w \in Writers, NEW p \in Places[w], NEW q \in Places[w],
         p.file = q.file, p.lead = q.lead
  PROVE  p = q
BY PlaceTyped

\* Every time of a slice lies between its first and its last.
LEMMA SliceBetween ==
  ASSUME NEW w \in Writers, NEW p \in Places[w], NEW t \in SliceAt(w, p)
  PROVE  t \in Between(SliceAt(w, p))
BY PlaceTyped DEF Between

-----------------------------------------------------------------------------
(* Type correctness.                                                       *)

LEMMA TypeInit == Init => TypeOK
<1> SUFFICES ASSUME Init PROVE TypeOK
  OBVIOUS
<1>1. pc \in [Writers -> Calls \cup {"off", "idle", "done", "failed"}]
  BY DEF Init
<1>2. /\ at \in [Writers -> [file : Nat, lead : Nat]]
      /\ \A w \in Writers : at[w] \in Places[w]
  BY FirstPlace DEF Init
<1>3. events \subseteq Events /\ rows \in [Cells -> Writers \cup {Absent}]
  BY DEF Init
<1>4. erases \in BOOLEAN /\ disturbed \in [Writers -> BOOLEAN]
  BY Zenon DEF Init
<1>5. kills \in 0 .. MaxKills
  BY StoreAssumption DEF Init
<1>6. QED  BY <1>1, <1>2, <1>3, <1>4, <1>5 DEF TypeOK

\* A program between two calls is at a place of its own.
LEMMA AtPlace ==
  ASSUME TypeOK, NEW w \in Writers, pc[w] \in Calls
  PROVE  /\ at[w] \in Places[w]
         /\ Event(w) \in Events
         /\ Slice(w) \subseteq Times
BY PlaceTyped DEF TypeOK, Calls, Event, Slice

\* Going on leaves the writer at the next place, or done.
LEMMA AdvanceTyped ==
  ASSUME TypeOK, NEW w \in Writers, pc[w] \in Calls, Advance(w)
  PROVE  /\ pc' \in [Writers -> Calls \cup {"off", "idle", "done", "failed"}]
         /\ at' \in [Writers -> [file : Nat, lead : Nat]]
         /\ \A v \in Writers : at'[v] \in Places[v] \/ pc'[v] = "done"
         /\ \A v \in Writers \ {w} : at'[v] = at[v] /\ pc'[v] = pc[v]
         /\ pc'[w] \in {"lookup", "done"}
         /\ \/ at'[w] = [file |-> at[w].file, lead |-> at[w].lead + 1]
            \/ /\ at'[w] = [file |-> at[w].file + 1, lead |-> 1]
               /\ LastLead(w)
<1>1. /\ at[w] \in Places[w] /\ at[w].file \in DOMAIN Work[w]
      /\ at[w].lead \in Leads(w, at[w].file)
      /\ at[w].file \in Nat /\ at[w].lead \in Nat
  BY AtPlace, PlaceTyped
<1>2. /\ Leads(w, at[w].file) = 1 .. Len(Work[w][at[w].file].slices)
      /\ Len(Work[w][at[w].file].slices) \in Nat
      /\ DOMAIN Work[w] = 1 .. Len(Work[w]) /\ Len(Work[w]) \in Nat
  BY <1>1, FileTyped
<1> DEFINE q == IF ~LastLead(w)
                THEN [file |-> at[w].file, lead |-> at[w].lead + 1]
                ELSE [file |-> at[w].file + 1, lead |-> 1]
<1>3. at' = [at EXCEPT ![w] = q]
  BY DEF Advance
<1>4. q \in [file : Nat, lead : Nat]
  BY <1>1
<1>5. /\ pc' \in [Writers -> Calls \cup {"off", "idle", "done", "failed"}]
      /\ pc'[w] \in {"lookup", "done"}
  BY DEF Advance, Goto, TypeOK, Calls
<1>6. \A v \in Writers \ {w} : at'[v] = at[v] /\ pc'[v] = pc[v]
  <2> HIDE DEF q
  <2>1. QED  BY <1>3 DEF Advance, Goto, TypeOK
<1>7. q \in Places[w] \/ pc'[w] = "done"
  <2>1. CASE ~LastLead(w)
    <3>1. at[w].lead + 1 \in Leads(w, at[w].file)
      BY <1>1, <1>2, <2>1 DEF LastLead
    <3>2. QED  BY <1>1, <2>1, <3>1 DEF Places
  <2>2. CASE LastLead(w) /\ at[w].file < Len(Work[w])
    <3>1. at[w].file + 1 \in DOMAIN Work[w]
      BY <1>1, <1>2, <2>2
    <3>2. 1 \in Leads(w, at[w].file + 1)
      BY <3>1, FileTyped
    <3>3. QED  BY <2>2, <3>1, <3>2 DEF Places
  <2>3. CASE LastLead(w) /\ ~(at[w].file < Len(Work[w]))
    BY <2>3 DEF Advance, Goto, TypeOK
  <2>4. QED  BY <2>1, <2>2, <2>3
<1>8. at'[w] = q
  <2> HIDE DEF q
  <2>1. QED  BY <1>3 DEF TypeOK
<1>9. at' \in [Writers -> [file : Nat, lead : Nat]]
  <2> HIDE DEF q
  <2>1. QED  BY <1>3, <1>4 DEF TypeOK
<1>10. \A v \in Writers : at'[v] \in Places[v] \/ pc'[v] = "done"
  <2> HIDE DEF q
  <2>1. QED  BY <1>6, <1>7, <1>8 DEF TypeOK
<1>11. QED  BY <1>5, <1>6, <1>8, <1>9, <1>10

\* A program that stays where it is goes to another call, or fails.
LEMMA StayTyped ==
  ASSUME TypeOK, NEW w \in Writers, pc[w] \in Calls \cup {"idle"},
         NEW c \in Calls \cup {"failed"}, Stay(w, c)
  PROVE  /\ pc' \in [Writers -> Calls \cup {"off", "idle", "done", "failed"}]
         /\ at' \in [Writers -> [file : Nat, lead : Nat]]
         /\ \A v \in Writers : at'[v] \in Places[v] \/ pc'[v] = "done"
         /\ \A v \in Writers \ {w} : pc'[v] = pc[v]
         /\ at' = at /\ pc'[w] = c
BY DEF Stay, Goto, TypeOK, Calls

\* What a step of w does to the calls and the places: w goes on or stays.
LEMMA MoveTyped ==
  ASSUME TypeOK, NEW w \in Writers, Call(w)
  PROVE  /\ pc[w] \in Calls
         /\ pc' \in [Writers -> Calls \cup {"off", "idle", "done", "failed"}]
         /\ at' \in [Writers -> [file : Nat, lead : Nat]]
         /\ \A v \in Writers : at'[v] \in Places[v] \/ pc'[v] = "done"
         /\ \A v \in Writers \ {w} : at'[v] = at[v] /\ pc'[v] = pc[v]
<1>1. pc[w] \in Calls
  BY DEF Call, LookupNone, LookupEvent, LookupRows, Retrieve, Create, Insert,
         InsertRefused, At, Calls
<1>2. \/ Advance(w)
      \/ \E c \in Calls \cup {"failed"} : Stay(w, c)
  BY DEF Call, LookupNone, LookupEvent, LookupRows, Retrieve, Create, Insert,
         InsertRefused, Fail, Calls
<1>3. QED  BY <1>1, <1>2, AdvanceTyped, StayTyped

\* What a step of w does to the store.
LEMMA StoreTyped ==
  ASSUME TypeOK, NEW w \in Writers, Call(w)
  PROVE  /\ events' = events \/ events' = events \cup {Event(w)}
         /\ \/ rows' = rows
            \/ At(w, "insert") /\ \E S \in SUBSET Slice(w) : rows' = Put(w, S)
         /\ erases' = erases /\ kills' = kills
         /\ disturbed' \in [Writers -> BOOLEAN]
<1>1. disturbed' \in [Writers -> BOOLEAN]
  <2>1. Look(w) \/ Disturb(w) \/ disturbed' = disturbed
    BY DEF Call, LookupNone, LookupEvent, LookupRows, Retrieve, Create, Insert,
           InsertRefused
  <2>2. Look(w) => disturbed' \in [Writers -> BOOLEAN]
    BY Zenon DEF Look, TypeOK
  <2>3. Disturb(w) => disturbed' \in [Writers -> BOOLEAN]
    <3> SUFFICES ASSUME Disturb(w) PROVE disturbed' \in [Writers -> BOOLEAN]
      OBVIOUS
    <3>1. \A v \in Writers :
            (disturbed[v] \/ (v # w /\ pc[v] \in Calls /\ Event(v) = Event(w))) \in BOOLEAN
      BY DEF TypeOK
    <3>2. QED  BY <3>1, Zenon DEF Disturb
  <2>4. QED  BY <2>1, <2>2, <2>3 DEF TypeOK
<1>2. \/ rows' = rows
      \/ At(w, "insert") /\ \E S \in SUBSET Slice(w) : rows' = Put(w, S)
  <2>1. CASE Insert(w)
    BY <2>1 DEF Insert
  <2>2. CASE InsertRefused(w)
    <3>1. {t \in Slice(w) : ~Stored(Event(w), t)} \in SUBSET Slice(w)
      OBVIOUS
    <3>2. QED  BY <2>2, <3>1 DEF InsertRefused
  <2>3. CASE ~(Insert(w) \/ InsertRefused(w))
    BY <2>3 DEF Call, LookupNone, LookupEvent, LookupRows, Retrieve, Create
  <2>4. QED  BY <2>1, <2>2, <2>3
<1>3. /\ events' = events \/ events' = events \cup {Event(w)}
      /\ erases' = erases /\ kills' = kills
  BY DEF Call, LookupNone, LookupEvent, LookupRows, Retrieve, Create, Insert,
         InsertRefused
<1>4. QED  BY <1>1, <1>2, <1>3

LEMMA TypeNext == TypeOK /\ [Next]_vars => TypeOK'
<1> SUFFICES ASSUME TypeOK, [Next]_vars PROVE TypeOK'
  OBVIOUS
<1>1. CASE UNCHANGED vars
  BY <1>1 DEF vars, TypeOK
<1>2. ASSUME NEW w \in Writers, Start(w) PROVE TypeOK'
  <2>1. pc[w] \in Calls \cup {"idle"} /\ "lookup" \in Calls \cup {"failed"}
    BY <1>2 DEF Start, At, Calls
  <2>2. QED  BY <1>2, <2>1, StayTyped DEF Start, TypeOK
<1>3. ASSUME NEW w \in Writers, Call(w) PROVE TypeOK'
  <2>1. pc[w] \in Calls /\ Event(w) \in Events
    BY <1>3, MoveTyped, AtPlace
  <2>2. events' \subseteq Events
    BY <1>3, <2>1, StoreTyped DEF TypeOK
  <2>3. rows' \in [Cells -> Writers \cup {Absent}]
    <3>1. \A S : Put(w, S) \in [Cells -> Writers \cup {Absent}]
      BY DEF Put, TypeOK
    <3>2. QED  BY <1>3, <3>1, StoreTyped DEF TypeOK
  <2>4. QED  BY <1>3, <2>2, <2>3, MoveTyped, StoreTyped DEF TypeOK
<1>4. ASSUME NEW w \in Writers, Killed(w) PROVE TypeOK'
  <2>1. kills' \in 0 .. MaxKills
    BY <1>4, StoreAssumption DEF Killed, TypeOK
  <2>2. QED  BY <1>4, <2>1, StayTyped DEF Killed, Fail, TypeOK
<1>5. QED  BY <1>1, <1>2, <1>3, <1>4 DEF Next

\* Every program is always at one of its own files and leads, or through with
\* them, and the store holds only events and times that some program addresses.
THEOREM TypeCorrect == Spec => []TypeOK
<1>1. QED  BY TypeInit, TypeNext, PTL DEF Spec

-----------------------------------------------------------------------------
(* A check holds until another program comes.                              *)

\* Rows need their event, and a program that asks for rows or inserts them has
\* found or created it.
EventsKnown ==
  /\ \A e \in Events : \A t \in Times : Stored(e, t) => e \in events
  /\ \A w \in Writers : pc[w] \in {"retrieve", "insert"} => Event(w) \in events

\* A cell after an insert.
LEMMA PutStores ==
  ASSUME NEW w \in Writers, NEW S \in SUBSET Times, rows' = Put(w, S),
         NEW e \in Events, NEW t \in Times
  PROVE  /\ e # Event(w) => rows'[<<e, t>>] = rows[<<e, t>>]
         /\ e = Event(w) /\ t \in S => rows'[<<e, t>>] = w
         /\ e = Event(w) /\ t \notin S /\ ~(w \in Forced /\ erases)
            => rows'[<<e, t>>] = rows[<<e, t>>]
<1>1. <<e, t>> \in Cells
  BY DEF Cells
<1>2. QED  BY <1>1 DEF Put

LEMMA EventsKnownNext == TypeOK /\ EventsKnown /\ [Next]_vars => EventsKnown'
<1> SUFFICES ASSUME TypeOK, EventsKnown, [Next]_vars PROVE EventsKnown'
  OBVIOUS
<1>1. CASE UNCHANGED vars
  BY <1>1 DEF vars, EventsKnown, Stored, Event
<1>2. ASSUME NEW w \in Writers, Start(w) \/ Killed(w) PROVE EventsKnown'
  <2>1. rows' = rows /\ events' = events /\ at' = at
    BY <1>2 DEF Start, Killed, Fail, Stay
  <2>2. \A v \in Writers : pc'[v] \in {"retrieve", "insert"} => pc'[v] = pc[v]
    BY <1>2 DEF Start, Killed, Fail, Stay, Goto, TypeOK
  <2>3. QED  BY <2>1, <2>2 DEF EventsKnown, Stored, Event
<1>3. ASSUME NEW w \in Writers, Call(w) PROVE EventsKnown'
  <2>1. events \subseteq events'
    BY <1>3, StoreTyped
  <2>2. pc[w] \in Calls /\ Slice(w) \subseteq Times
    BY <1>3, MoveTyped, AtPlace
  <2>3. ASSUME NEW e \in Events, NEW t \in Times, Stored(e, t)' PROVE e \in events'
    <3>1. CASE rows' = rows
      BY <2>1, <2>3, <3>1 DEF EventsKnown, Stored
    <3>2. CASE rows' # rows
      <4>1. PICK S \in SUBSET Slice(w) : At(w, "insert") /\ rows' = Put(w, S)
        BY <1>3, <3>2, StoreTyped
      <4>2. Event(w) \in events
        BY <4>1 DEF EventsKnown, At
      <4>3. e # Event(w) => rows'[<<e, t>>] = rows[<<e, t>>]
        BY <2>2, <4>1, PutStores
      <4>4. QED  BY <2>1, <2>3, <4>2, <4>3 DEF EventsKnown, Stored
    <3>3. QED  BY <3>1, <3>2
  <2>4. ASSUME NEW v \in Writers, pc'[v] \in {"retrieve", "insert"}
        PROVE  Event(v)' \in events'
    <3>1. CASE v # w
      BY <1>3, <2>1, <2>4, <3>1, MoveTyped DEF EventsKnown, Event
    <3>2. CASE v = w
      <4>1. ~Advance(w)
        BY <2>2, <2>4, <3>2, AdvanceTyped
      <4>2. ~Fail(w)
        BY <2>4, <3>2 DEF Fail, Stay, Goto, TypeOK
      <4>3. at' = at
        BY <1>3, <4>1 DEF Call, LookupNone, LookupEvent, LookupRows, Retrieve, Create,
                          Insert, InsertRefused, Fail, Stay
      <4>4. CASE LookupNone(w)
        BY <2>4, <3>2, <4>4 DEF LookupNone, Stay, Goto, TypeOK
      <4>5. CASE LookupEvent(w) \/ LookupRows(w) \/ Create(w)
        BY <2>1, <3>2, <4>3, <4>5 DEF LookupEvent, LookupRows, Create, Event
      <4>6. CASE Retrieve(w)
        BY <2>1, <3>2, <4>3, <4>6 DEF Retrieve, At, EventsKnown, Event
      <4>7. CASE Insert(w) \/ InsertRefused(w)
        BY <4>1, <4>2, <4>7 DEF Insert, InsertRefused
      <4>8. QED  BY <1>3, <4>4, <4>5, <4>6, <4>7 DEF Call
    <3>3. QED  BY <3>1, <3>2
  <2>5. QED  BY <2>3, <2>4 DEF EventsKnown
<1>4. QED  BY <1>1, <1>2, <1>3 DEF Next

\* Somebody else's call: it leaves the writer's event alone, or disturbs it.
LEMMA ChecksOfOthers ==
  ASSUME TypeOK, ChecksHold, NEW w \in Writers, Call(w), NEW v \in Writers, v # w,
         ~disturbed'[v]
  PROVE  /\ At(v, "create")' => Event(v)' \notin events'
         /\ At(v, "insert")' => ~Refused(v)'
<1> SUFFICES ASSUME pc[v] \in Calls
             PROVE  /\ pc[v] = "create" => Event(v) \notin events'
                    /\ pc[v] = "insert" => ~Refused(v)'
  BY MoveTyped DEF At, Event, Calls
<1>1. pc[w] \in Calls /\ Slice(w) \subseteq Times
  BY MoveTyped, AtPlace
<1>2. Event(v) \in Events /\ Slice(v) \subseteq Times
  BY AtPlace
<1>3. at'[v] = at[v] /\ Event(v)' = Event(v) /\ Slice(v)' = Slice(v)
  BY MoveTyped DEF Event, Slice
<1>4. ~disturbed[v]
  <2>1. disturbed'[v] = disturbed[v] \/ Disturb(w)
    BY Zenon DEF Call, LookupNone, LookupEvent, LookupRows, Retrieve, Create, Insert,
                 InsertRefused, Look, TypeOK
  <2>2. Disturb(w) => disturbed'[v] = (disturbed[v] \/ (v # w /\ pc[v] \in Calls /\ Event(v) = Event(w)))
    BY Zenon DEF Disturb
  <2>3. QED  BY <2>1, <2>2
<1>5. \/ events' = events /\ rows' = rows
      \/ Event(v) # Event(w)
  <2>1. Disturb(w) => Event(v) # Event(w)
    BY Zenon DEF Disturb
  <2>2. QED  BY <2>1 DEF Call, LookupNone, LookupEvent, LookupRows, Retrieve, Create, Insert,
                         InsertRefused
<1>6. pc[v] = "create" => Event(v) \notin events'
  BY <1>4, <1>5, StoreTyped DEF ChecksHold, At
<1>7. pc[v] = "insert" => ~Refused(v)'
  <2> SUFFICES ASSUME pc[v] = "insert", v \notin Forced, NEW t \in Slice(v)
               PROVE  ~Stored(Event(v), t)'
    BY <1>3 DEF Refused
  <2>1. ~Stored(Event(v), t)
    BY <1>4 DEF ChecksHold, At, Refused
  <2>2. CASE rows' = rows
    BY <1>3, <2>1, <2>2 DEF Stored
  <2>3. CASE rows' # rows
    <3>1. PICK S \in SUBSET Slice(w) : rows' = Put(w, S)
      BY <2>3, StoreTyped
    <3>2. rows'[<<Event(v), t>>] = rows[<<Event(v), t>>]
      BY <1>1, <1>2, <1>5, <2>3, <3>1, PutStores
    <3>3. QED  BY <1>3, <2>1, <3>2 DEF Stored
  <2>4. QED  BY <2>2, <2>3
<1>8. QED  BY <1>6, <1>7

\* The writer's own call.
LEMMA ChecksOfOwn ==
  ASSUME TypeOK, EventsKnown, ChecksHold, NEW w \in Writers, Call(w), ~disturbed'[w]
  PROVE  /\ At(w, "create")' => Event(w)' \notin events'
         /\ At(w, "insert")' => ~Refused(w)'
<1>1. pc[w] \in Calls /\ at[w] \in Places[w] /\ Slice(w) \subseteq Times
  BY MoveTyped, AtPlace
<1>2. Advance(w) \/ Fail(w) => pc'[w] \notin {"create", "insert"}
  BY <1>1, AdvanceTyped DEF Fail, Stay, Goto, TypeOK
<1>3. CASE LookupNone(w)
  BY <1>3 DEF LookupNone, Stay, Goto, At, Event, TypeOK
<1>4. CASE LookupEvent(w)
  <2>1. w \in Forced \/ Advance(w)
    BY <1>4 DEF LookupEvent
  <2>2. pc'[w] # "create"
    BY <1>2, <1>4, <2>1 DEF LookupEvent, Stay, Goto, TypeOK
  <2>3. QED  BY <1>2, <2>1, <2>2 DEF At, Refused
<1>5. CASE LookupRows(w)
  BY <1>5 DEF LookupRows, Fail, Stay, Goto, At, TypeOK
<1>6. CASE Retrieve(w)
  <2>1. CASE Advance(w)
    BY <1>2, <2>1 DEF At
  <2>2. CASE ~Advance(w)
    <3>1. /\ Stay(w, "insert") /\ rows' = rows
          /\ w \in Forced \/ \A t \in Between(Slice(w)) : ~Stored(Event(w), t)
      BY <1>6, <2>2 DEF Retrieve
    <3>2. \A t \in Slice(w) : t \in Between(Slice(w))
      BY <1>1, SliceBetween DEF Slice
    <3>3. at' = at /\ pc'[w] = "insert"
      BY <3>1 DEF Stay, Goto, TypeOK
    <3>4. QED  BY <3>1, <3>2, <3>3 DEF At, Refused, Slice, Event, Stored
  <2>3. QED  BY <2>1, <2>2
<1>7. CASE Create(w)
  <2>1. CASE Fail(w)
    BY <1>2, <2>1 DEF At
  <2>2. CASE ~Fail(w)
    <3>1. Stay(w, "insert") /\ rows' = rows /\ Disturb(w) /\ At(w, "create")
      BY <1>7, <2>2 DEF Create
    <3>2. ~disturbed[w]
      BY <3>1, Zenon DEF Disturb
    <3>3. Event(w) \notin events
      BY <3>1, <3>2 DEF ChecksHold
    <3>4. \A t \in Slice(w) : ~Stored(Event(w), t)
      BY <1>1, <3>3, AtPlace DEF EventsKnown
    <3>5. at' = at /\ pc'[w] = "insert"
      BY <3>1 DEF Stay, Goto, TypeOK
    <3>6. QED  BY <3>1, <3>4, <3>5 DEF At, Refused, Slice, Event, Stored
  <2>3. QED  BY <2>1, <2>2
<1>8. CASE Insert(w) \/ InsertRefused(w)
  BY <1>2, <1>8 DEF Insert, InsertRefused, At
<1>9. QED  BY <1>3, <1>4, <1>5, <1>6, <1>7, <1>8 DEF Call

LEMMA ChecksNext == TypeOK /\ EventsKnown /\ ChecksHold /\ [Next]_vars => ChecksHold'
<1> SUFFICES ASSUME TypeOK, EventsKnown, ChecksHold, [Next]_vars PROVE ChecksHold'
  OBVIOUS
<1>1. CASE UNCHANGED vars
  BY <1>1 DEF vars, ChecksHold, At, Event, Refused, Slice, Stored
<1>2. ASSUME NEW w \in Writers, Start(w) \/ Killed(w) PROVE ChecksHold'
  <2>1. rows' = rows /\ events' = events /\ at' = at /\ disturbed' = disturbed
    BY <1>2 DEF Start, Killed, Fail, Stay
  <2>2. \A v \in Writers : pc'[v] \in {"create", "insert"} => pc'[v] = pc[v]
    BY <1>2 DEF Start, Killed, Fail, Stay, Goto, TypeOK
  <2>3. QED  BY <2>1, <2>2 DEF ChecksHold, At, Event, Refused, Slice, Stored
<1>3. ASSUME NEW w \in Writers, Call(w) PROVE ChecksHold'
  BY <1>3, ChecksOfOthers, ChecksOfOwn DEF ChecksHold
<1>4. QED  BY <1>1, <1>2, <1>3 DEF Next

\* Between the check and the insert of a program nothing but another program at
\* the same event can make the answer of the check wrong: no create meets an
\* event that exists, and no unforced insert meets a row, unless somebody else
\* was there since.
THEOREM ChecksStand == Spec => []ChecksHold
<1>1. Init => EventsKnown /\ ChecksHold
  BY DEF Init, EventsKnown, ChecksHold, Stored, At, Cells
<1>2. QED  BY <1>1, TypeCorrect, EventsKnownNext, ChecksNext, PTL DEF Spec

-----------------------------------------------------------------------------
(* No gaps behind a writer that looks at the rows, or is forced.           *)

\* A stored row stays, unless a forced insert at its event erases it.
LEMMA RowsStay ==
  ASSUME TypeOK, [Next]_vars, NEW e \in Events, NEW t \in Times, Stored(e, t),
         \A w \in Forced : erases => ~(w \in Writers /\ pc[w] \in Calls /\ Event(w) = e)
  PROVE  Stored(e, t)'
<1>1. CASE rows' = rows
  BY <1>1 DEF Stored
<1>2. CASE rows' # rows
  <2>1. PICK w \in Writers : Call(w)
    BY <1>2 DEF Next, vars, Start, Killed
  <2>2. pc[w] \in Calls /\ Slice(w) \subseteq Times
    BY <2>1, MoveTyped, AtPlace
  <2>3. PICK S \in SUBSET Slice(w) : rows' = Put(w, S)
    BY <1>2, <2>1, StoreTyped
  <2>4. S \in SUBSET Times /\ (e = Event(w) => ~(w \in Forced /\ erases))
    BY <2>2
  <2>5. rows'[<<e, t>>] \in {w, rows[<<e, t>>]}
    BY <2>3, <2>4, PutStores
  <2>6. QED  BY <2>5, StoreAssumption DEF Stored
<1>3. QED  BY <1>1, <1>2

\* What is kept at a place that w has passed stays so.
LEMMA KeptStays ==
  ASSUME TypeOK, [Next]_vars, NEW w \in Writers, NEW p \in Places[w],
         Passed(w, p), ~MayBeErased(w, p), Kept(w, p)
  PROVE  Kept(w, p)'
<1> DEFINE e == EventAt(w, p)
<1>1. e \in Events /\ SliceAt(w, p) \subseteq Times /\ p.file \in Nat /\ p.lead \in Nat
  BY PlaceTyped
<1>2. ASSUME NEW v \in Forced, erases, v \in Writers, pc[v] \in Calls, Event(v) = e
      PROVE  FALSE
  <2>1. at[v] \in Places[v] /\ EventAt(v, at[v]) = e
    BY <1>2, AtPlace DEF Event
  <2>2. <<v, at[v]>> = <<w, p>>
    BY <1>2, <2>1 DEF MayBeErased
  <2>3. QED  BY <1>1, <2>2 DEF Passed, Before
<1>3. \A t \in Times : Stored(e, t) => Stored(e, t)'
  BY <1>1, <1>2, RowsStay
<1>4. \A t \in Between(SliceAt(w, p)) : t \in Times
  BY DEF Between
<1>5. QED  BY <1>1, <1>3, <1>4 DEF Kept, Stored

\* A program that moves on passes the place it was at, and no other.
LEMMA PassedAfterAdvance ==
  ASSUME TypeOK, NEW w \in Writers, pc[w] \in Calls, Advance(w),
         NEW v \in Writers, NEW p \in Places[v], Passed(v, p)'
  PROVE  Passed(v, p) \/ (v = w /\ p = at[w])
<1>1. CASE v # w
  BY <1>1, AdvanceTyped DEF Passed
<1>2. CASE v = w /\ ~Passed(v, p)
  <2>1. at[w] \in Places[w]
    BY AtPlace
  <2>2. /\ p.file \in DOMAIN Work[w] /\ p.lead \in Leads(w, p.file)
        /\ p.file \in Nat /\ p.lead \in Nat \ {0}
    BY <1>2, PlaceTyped
  <2>3. /\ at[w].file \in DOMAIN Work[w] /\ at[w].lead \in Leads(w, at[w].file)
        /\ at[w].file \in Nat /\ at[w].lead \in Nat
    BY <2>1, PlaceTyped
  <2>4. /\ Leads(w, p.file) = 1 .. Len(Work[w][p.file].slices)
        /\ Len(Work[w][at[w].file].slices) \in Nat
    BY <2>2, <2>3, FileTyped
  <2>5. \/ at'[w] = [file |-> at[w].file, lead |-> at[w].lead + 1]
        \/ at'[w] = [file |-> at[w].file + 1, lead |-> 1] /\ LastLead(w)
    BY AdvanceTyped
  <2>6. /\ p.file < at'[w].file \/ (p.file = at'[w].file /\ p.lead < at'[w].lead)
        /\ ~(p.file < at[w].file \/ (p.file = at[w].file /\ p.lead < at[w].lead))
    BY <1>2 DEF Passed, Before
  <2>7. p.file = at[w].file /\ p.lead = at[w].lead
    <3>1. CASE at'[w] = [file |-> at[w].file, lead |-> at[w].lead + 1]
      <4>1. at'[w].file = at[w].file /\ at'[w].lead = at[w].lead + 1
        BY <3>1
      <4>2. QED  BY <2>2, <2>3, <2>6, <4>1
    <3>2. CASE at'[w] = [file |-> at[w].file + 1, lead |-> 1] /\ LastLead(w)
      <4>1. at'[w].file = at[w].file + 1 /\ at'[w].lead = 1
        BY <3>2
      <4>2. p.file = at[w].file /\ p.lead >= at[w].lead
        BY <2>2, <2>3, <2>6, <4>1
      <4>3. QED  BY <2>2, <2>3, <2>4, <3>2, <4>2 DEF LastLead
    <3>3. QED  BY <2>5, <3>1, <3>2
  <2>8. QED  BY <1>2, <2>1, <2>7, PlaceEqual
<1>3. QED  BY <1>1, <1>2

\* A writer moves on from a place only where Kept says so.
LEMMA KeptByAdvance ==
  ASSUME TypeOK, [Next]_vars, NEW w \in Writers, w \in ByRows \cup Forced, Call(w), Advance(w),
         NEW p \in Places[w], p = at[w]
  PROVE  Kept(w, p)'
<1>1. pc[w] \in Calls /\ at[w] \in Places[w] /\ Event(w) \in Events /\ Slice(w) \subseteq Times
  BY MoveTyped, AtPlace
<1>2. pc'[w] \in {"lookup", "done"}
  BY <1>1, AdvanceTyped
<1> DEFINE e == EventAt(w, p)
           slice == SliceAt(w, p)
<1>  e = Event(w) /\ slice = Slice(w)
  BY DEF Event, Slice
<1>3. SUFFICES IF w \in Forced THEN \A t \in slice : rows'[<<e, t>>] # Absent
               ELSE slice # {} => \E t \in Between(slice) : rows'[<<e, t>>] # Absent
  BY DEF Kept, Stored
<1>4. \A t \in slice : t \in Between(slice)
  BY <1>1, SliceBetween DEF Slice
<1>5. CASE LookupNone(w) \/ LookupRows(w) \/ Create(w)
  <2>1. pc'[w] \in {"create", "retrieve", "insert", "failed"}
    BY <1>5 DEF LookupNone, LookupRows, Create, Fail, Stay, Goto, TypeOK
  <2>2. QED  BY <1>2, <2>1
<1>6. CASE LookupEvent(w)
  <2>1. w \in Forced
    BY <1>6 DEF LookupEvent
  <2>2. pc'[w] = "insert"
    BY <1>6, <2>1 DEF LookupEvent, Stay, Goto, TypeOK
  <2>3. QED  BY <1>2, <2>2
<1>7. CASE Retrieve(w)
  <2>1. pc'[w] # "insert"
    BY <1>2
  <2>2. w \notin Forced /\ \E t \in Between(slice) : Stored(e, t)
    BY <1>7, <2>1 DEF Retrieve, Stay, Goto, TypeOK
  <2>3. QED  BY <1>7, <2>2 DEF Retrieve, Stored
<1>8. CASE Insert(w)
  <2>1. rows' = Put(w, slice)
    BY <1>8 DEF Insert
  <2>2. \A t \in slice : rows'[<<e, t>>] = w
    BY <1>1, <2>1, PutStores
  <2>3. QED  BY <1>4, <2>2, StoreAssumption
<1>9. CASE InsertRefused(w)
  <2>1. w \notin Forced
    BY <1>9 DEF InsertRefused, Refused
  <2>2. PICK t \in slice : Stored(e, t)
    BY <1>9 DEF InsertRefused, Refused
  <2>3. t \in Times /\ rows[<<e, t>>] # Absent
    BY <1>1, <2>2 DEF Stored
  <2>4. CASE rows' = rows
    BY <1>4, <2>1, <2>3, <2>4
  <2>5. CASE rows' # rows
    <3>1. PICK S \in SUBSET slice : rows' = Put(w, S)
      BY <2>5, StoreTyped
    <3>2. rows'[<<e, t>>] \in {w, rows[<<e, t>>]}
      BY <1>1, <2>1, <2>3, <3>1, PutStores
    <3>3. QED  BY <1>4, <2>1, <2>3, <3>2, StoreAssumption
  <2>6. QED  BY <2>4, <2>5
<1>10. QED  BY <1>5, <1>6, <1>7, <1>8, <1>9 DEF Call

LEMMA GapsNext == TypeOK /\ NoGapsBehind /\ [Next]_vars => NoGapsBehind'
<1> SUFFICES ASSUME TypeOK, NoGapsBehind, [Next]_vars,
                    NEW v \in Writers, v \in ByRows \cup Forced, NEW p \in Places[v],
                    Passed(v, p)', ~MayBeErased(v, p)'
             PROVE  Kept(v, p)'
  BY StoreAssumption DEF NoGapsBehind
<1>1. erases' = erases
  BY StoreTyped DEF Next, vars, Start, Killed
<1>2. ~MayBeErased(v, p)
  BY <1>1 DEF MayBeErased
<1>3. CASE Passed(v, p)
  BY <1>2, <1>3, KeptStays DEF NoGapsBehind
<1>4. CASE ~Passed(v, p)
  <2>1. at' # at
    BY <1>4 DEF Passed
  <2>2. PICK w \in Writers : Call(w) /\ Advance(w)
    BY <2>1 DEF Next, vars, Start, Killed, Call, LookupNone, LookupEvent, LookupRows, Retrieve,
                Create, Insert, InsertRefused, Fail, Stay
  <2>3. v = w /\ p = at[w]
    BY <1>4, <2>2, MoveTyped, PassedAfterAdvance
  <2>4. QED  BY <2>2, <2>3, KeptByAdvance
<1>5. QED  BY <1>3, <1>4

\* A writer that looks at the rows, or is forced, has passed no slice of which
\* nothing is stored, whoever runs beside it or was killed before it, except
\* where a forced run at the same event may delete rows of other times.
THEOREM NoGaps == Spec => []NoGapsBehind
<1>1. Init => NoGapsBehind
  <2> SUFFICES ASSUME Init, NEW w \in Writers, NEW p \in Places[w]
               PROVE  ~Passed(w, p)
    BY StoreAssumption DEF NoGapsBehind
  <2>1. p.file \in Nat \ {0} /\ p.lead \in Nat \ {0}
    BY PlaceTyped
  <2>2. at[w].file = 1 /\ at[w].lead = 1
    BY DEF Init
  <2>3. QED  BY <2>1, <2>2 DEF Passed, Before
<1>2. QED  BY <1>1, TypeCorrect, GapsNext, PTL DEF Spec
=============================================================================
