--------------------------- MODULE TimeseriesStore ---------------------------
(***************************************************************************)
(* The programs that store forecasts in MySQL: the two extractions of      *)
(* FLO2D results (each through its save_forecast_timeseries) and           *)
(* STORE_MYSQL.py.                                                         *)
(*                                                                         *)
(* A series (station, variable, source, run name) has one event per lead:  *)
(* Forecast-0-d, Forecast-1-d-after, ...  The key of an event has no date, *)
(* so the events of a series are shared by the forecasts of all dates, and *)
(* the rows of an event are told apart by their times.  A program goes     *)
(* through its files, cuts each into slices, one per lead, and does for    *)
(* each slice:                                                             *)
(*                                                                         *)
(*   get_event_id  -> create_event_id when there is none                   *)
(*                 -> otherwise skip, go on, or look at the rows           *)
(*   insert_timeseries                                                     *)
(*                                                                         *)
(* with a commit after each call and no transaction around them.  Several  *)
(* programs may do so at once: the server does not wait for an extraction. *)
(*                                                                         *)
(* A slice is the set of the times it has rows for, empty where the        *)
(* forecast ends before its lead.  STORE_MYSQL.py cuts slices of a fixed   *)
(* number of rows from the first row on, so they may reach from one day    *)
(* into the next, and takes the files of a station from a glob, so it may  *)
(* visit a series more than once.                                          *)
(***************************************************************************)
EXTENDS Integers, Sequences

CONSTANTS
  Series,    \* the time series of the database
  Writers,   \* invocations of the programs
  Work,      \* writer -> its files, those of known stations: series and slices
  ByRows,    \* the writers that look at the rows of an event that exists
  Forced,    \* the writers started with --force
  Casts,     \* the sets of writers that may meet in one behaviour
  MaxKills,  \* bound: how often a program is killed
  Absent     \* nothing is stored

ASSUME StoreAssumption ==
  /\ Work \in [Writers -> Seq([series : Series, slices : Seq(SUBSET Int)])]
  /\ \A w \in Writers : Work[w] # <<>> /\ \A k \in DOMAIN Work[w] : Work[w][k].slices # <<>>
  /\ ByRows \cup Forced \subseteq Writers
  /\ Casts \subseteq SUBSET Writers
  /\ MaxKills \in Nat
  /\ Absent \notin Writers

Leads(w, k) == DOMAIN Work[w][k].slices

\* A place is a file of the writer and one of its leads; Forecast-0-d is lead 1.
Places ==
  [w \in Writers |->
     UNION {{[file |-> k, lead |-> i] : i \in Leads(w, k)} : k \in DOMAIN Work[w]}]

EventAt(w, p) == <<Work[w][p.file].series, p.lead>>
SliceAt(w, p) == Work[w][p.file].slices[p.lead]

Events == UNION {{EventAt(w, p) : p \in Places[w]} : w \in Writers}
Times  == UNION {UNION {SliceAt(w, p) : p \in Places[w]} : w \in Writers}
Cells  == Events \X Times

VARIABLES
  events,     \* the events that exist
  rows,       \* event and time -> the writer whose row is stored there
  pc,         \* writer -> the call it makes next
  at,         \* writer -> the file and the lead it is at
  erases,     \* --force deletes the event's rows before it stores the new ones
  disturbed,  \* history: somebody else created or filled the writer's event
              \* since the writer looked for it
  kills       \* how many programs were killed

vars == <<events, rows, pc, at, erases, disturbed, kills>>

Calls == {"lookup", "create", "retrieve", "insert"}

TypeOK ==
  /\ events \subseteq Events
  /\ rows \in [Cells -> Writers \cup {Absent}]
  /\ pc \in [Writers -> Calls \cup {"off", "idle", "done", "failed"}]
  /\ at \in [Writers -> [file : Nat, lead : Nat]]
  /\ \A w \in Writers : at[w] \in Places[w] \/ pc[w] = "done"
  /\ erases \in BOOLEAN
  /\ disturbed \in [Writers -> BOOLEAN]
  /\ kills \in 0 .. MaxKills

\* What --force does to rows of other times is the adapter's business, which
\* is not in the repository: usage says that it deletes them, CSVTODAT.py that
\* it overrides values.
Init ==
  /\ events = {}
  /\ rows = [c \in Cells |-> Absent]
  /\ \E cast \in Casts :
       pc = [w \in Writers |-> IF w \in cast THEN "idle" ELSE "off"]
  /\ at = [w \in Writers |-> [file |-> 1, lead |-> 1]]
  /\ erases \in BOOLEAN
  /\ disturbed = [w \in Writers |-> FALSE]
  /\ kills = 0

-----------------------------------------------------------------------------
At(w, call) == pc[w] = call
Goto(w, call) == pc' = [pc EXCEPT ![w] = call]

Event(w) == EventAt(w, at[w])
Slice(w) == SliceAt(w, at[w])

Stored(e, t) == rows[<<e, t>>] # Absent

\* The times from the first to the last row of a slice.
Between(slice) == {t \in Times : \E a, b \in slice : a <= t /\ t <= b}

LastLead(w) == at[w].lead = Len(Work[w][at[w].file].slices)

\* Mutant: the end of the list of files is missed.
Advance_Beyond(w) ==
  IF ~LastLead(w)
  THEN /\ at' = [at EXCEPT ![w] = [file |-> @.file, lead |-> @.lead + 1]]
       /\ Goto(w, "lookup")
  ELSE /\ at' = [at EXCEPT ![w] = [file |-> @.file + 1, lead |-> 1]]
       /\ Goto(w, "lookup")

\* On to the next lead, or the next file, or the end.
Advance(w) ==
  IF ~LastLead(w)
  THEN /\ at' = [at EXCEPT ![w] = [file |-> @.file, lead |-> @.lead + 1]]
       /\ Goto(w, "lookup")
  ELSE /\ at' = [at EXCEPT ![w] = [file |-> @.file + 1, lead |-> 1]]
       /\ Goto(w, IF at[w].file < Len(Work[w]) THEN "lookup" ELSE "done")

Stay(w, call) == Goto(w, call) /\ UNCHANGED at
Fail(w) == Stay(w, "failed")

\* w creates or fills its event, and whoever looked for it has an old answer.
Disturb(w) ==
  disturbed' = [v \in Writers |->
                  \/ disturbed[v]
                  \/ v # w /\ pc[v] \in Calls /\ Event(v) = Event(w)]

Look(w) == disturbed' = [disturbed EXCEPT ![w] = FALSE]

Start(w) ==
  /\ At(w, "idle")
  /\ Stay(w, "lookup")
  /\ UNCHANGED <<events, rows, erases, disturbed, kills>>

\* get_event_id finds nothing.
LookupNone(w) ==
  /\ At(w, "lookup")
  /\ Event(w) \notin events
  /\ Look(w)
  /\ Stay(w, "create")
  /\ UNCHANGED <<events, rows, erases, kills>>

\* get_event_id finds the event: it counts as stored unless --force is given.
LookupEvent(w) ==
  /\ At(w, "lookup")
  /\ w \notin ByRows
  /\ Event(w) \in events
  /\ Look(w)
  /\ IF w \in Forced THEN Stay(w, "insert") ELSE Advance(w)
  /\ UNCHANGED <<events, rows, erases, kills>>

\* Mutant: the event is enough here, too.
LookupRows_Event(w) ==
  /\ At(w, "lookup")
  /\ w \in ByRows
  /\ Event(w) \in events
  /\ Look(w)
  /\ IF w \in Forced THEN Stay(w, "insert") ELSE Advance(w)
  /\ UNCHANGED <<events, rows, erases, kills>>

\* get_event_id finds the event, and the rows of the slice are asked for.  An
\* empty slice has no first row to take the time from: IndexError.
LookupRows(w) ==
  /\ At(w, "lookup")
  /\ w \in ByRows
  /\ Event(w) \in events
  /\ Look(w)
  /\ IF Slice(w) = {} THEN Fail(w) ELSE Stay(w, "retrieve")
  /\ UNCHANGED <<events, rows, erases, kills>>

\* Mutant: only the row of the first time is asked for.
Retrieve_First(w) ==
  /\ At(w, "retrieve")
  /\ IF /\ w \notin Forced
        /\ \E t \in Slice(w) : Stored(Event(w), t) /\ \A u \in Slice(w) : t <= u
     THEN Advance(w)
     ELSE Stay(w, "insert")
  /\ UNCHANGED <<events, rows, erases, disturbed, kills>>

\* retrieve_timeseries: one row between the first and the last time of the
\* slice is enough to leave the slice alone, unless forced.
Retrieve(w) ==
  /\ At(w, "retrieve")
  /\ IF w \notin Forced /\ \E t \in Between(Slice(w)) : Stored(Event(w), t)
     THEN Advance(w)
     ELSE Stay(w, "insert")
  /\ UNCHANGED <<events, rows, erases, disturbed, kills>>

\* Mutant: a new event is left for the next run to fill.
Create_Skips(w) ==
  /\ At(w, "create")
  /\ events' = events \cup {Event(w)}
  /\ Disturb(w)
  /\ Advance(w)
  /\ UNCHANGED <<rows, erases, kills>>

\* create_event_id.  Somebody else may have created the event meanwhile: the
\* database refuses the second, and the adapter raises or keeps it to itself.
Create(w) ==
  /\ At(w, "create")
  /\ events' = events \cup {Event(w)}
  /\ Disturb(w)
  /\ \/ Stay(w, "insert")
     \/ Event(w) \in events /\ Fail(w)
  /\ UNCHANGED <<rows, erases, kills>>

\* A row of one of these times is stored, and the insert is not to replace it.
Refused(w) == w \notin Forced /\ \E t \in Slice(w) : Stored(Event(w), t)

\* The rows after w has stored those of the given times.
Put(w, times) ==
  [c \in Cells |-> IF c[1] # Event(w) THEN rows[c]
                   ELSE IF c[2] \in times THEN w
                   ELSE IF w \in Forced /\ erases THEN Absent ELSE rows[c]]

\* insert_timeseries, one commit for the rows of the slice.  An empty slice
\* inserts nothing, and the event stays without rows.
Insert(w) ==
  /\ At(w, "insert")
  /\ ~Refused(w)
  /\ rows' = Put(w, Slice(w))
  /\ Disturb(w)
  /\ Advance(w)
  /\ UNCHANGED <<events, erases, kills>>

\* The database refuses rows it has, and the adapter raises, or reports that
\* none or only the others were stored.
InsertRefused(w) ==
  /\ At(w, "insert")
  /\ Refused(w)
  /\ \/ rows' = rows /\ Fail(w)
     \/ rows' = rows /\ Advance(w)
     \/ rows' = Put(w, {t \in Slice(w) : ~Stored(Event(w), t)}) /\ Advance(w)
  /\ Disturb(w)
  /\ UNCHANGED <<events, erases, kills>>

\* The program is killed, or loses its connection, between two calls.
Killed(w) ==
  /\ pc[w] \in Calls
  /\ kills < MaxKills
  /\ kills' = kills + 1
  /\ Fail(w)
  /\ UNCHANGED <<events, rows, erases, disturbed>>

-----------------------------------------------------------------------------
Call(w) ==
  \/ LookupNone(w) \/ LookupEvent(w) \/ LookupRows(w) \/ Retrieve(w)
  \/ Create(w) \/ Insert(w) \/ InsertRefused(w)

Next == \E w \in Writers : Start(w) \/ Call(w) \/ Killed(w)

Spec == Init /\ [][Next]_vars

\* A program that was started goes on; nobody has to start it, or to kill it.
Fairness == \A w \in Writers : WF_vars(Call(w))

FairSpec == Spec /\ Fairness
-----------------------------------------------------------------------------
(* Properties.                                                             *)

\* The check for the event, or for its rows, and the insert are separate calls,
\* and only another program at the same event can come between them: unless one
\* created or filled the event since this one looked, an event to be created is
\* not there, and no row to be inserted without --force is stored.  A slice that
\* reaches into the next day, or a second file of the series, is no exception.
ChecksHold ==
  \A w \in Writers :
    ~disturbed[w] =>
      /\ At(w, "create") => Event(w) \notin events
      /\ At(w, "insert") => ~Refused(w)

\* The place p of w comes before q, or is behind w.
Before(p, q) == p.file < q.file \/ (p.file = q.file /\ p.lead < q.lead)
Passed(w, p) == Before(p, at[w])

\* A forced insert elsewhere may delete what w stores at p.
MayBeErased(w, p) ==
  erases /\ \E v \in Forced : \E q \in Places[v] :
              <<v, q>> # <<w, p>> /\ EventAt(v, q) = EventAt(w, p)

\* A slice that w left behind is there: all of it where w is forced; otherwise
\* a row from its first to its last time, which is all that w asks for.
Kept(w, p) ==
  IF w \in Forced
  THEN \A t \in SliceAt(w, p) : Stored(EventAt(w, p), t)
  ELSE SliceAt(w, p) # {} => \E t \in Between(SliceAt(w, p)) : Stored(EventAt(w, p), t)

\* A writer that looks at the rows, or is forced, passes no slice of which
\* nothing is stored, by itself or by somebody else, even where an earlier
\* program was killed between creating the event and inserting the rows.  So
\* one such run fills the events the others left empty.
NoGapsBehind ==
  \A w \in ByRows \cup Forced : \A p \in Places[w] :
    Passed(w, p) /\ ~MayBeErased(w, p) => Kept(w, p)

\* The programs that were started, until now or ever.
Started == {w \in Writers : pc[w] \notin {"off", "idle"}}

\* An earlier file of w has the series, and the lead.
Revisits(w, p) == \E q \in Places[w] : Before(q, p) /\ EventAt(w, q) = EventAt(w, p)

\* w got to the end of its files, or to a second file of a series that has no
\* rows for a lead the first had.
GotThrough(w) ==
  \/ pc[w] = "done"
  \/ pc[w] = "failed" /\ w \in ByRows /\ Slice(w) = {} /\ Revisits(w, at[w])

\* Every row of the first file of each series that w passed is stored.
FirstFilesStored(w) ==
  \A p \in Places[w] :
    Passed(w, p) /\ ~Revisits(w, p) /\ ~MayBeErased(w, p)
    => \A t \in SliceAt(w, p) : Stored(EventAt(w, p), t)

\* A program that finds the database empty and keeps it for itself stores every
\* row of the first file of each series it gets to, and gets through all its
\* files, with one exception: a second file of a series that is shorter than the
\* first finds the event of its missing lead, and stops the writer that looks at
\* the rows (STORE_MYSQL.py:348).
FirstWriterStores ==
  (\E w \in Writers : Started = {w} /\ pc[w] = "lookup") ~>
    \/ \E w \in Writers : Started = {w} /\ GotThrough(w) /\ FirstFilesStored(w)
    \/ \E v, w \in Started : v # w
    \/ kills > 0

-----------------------------------------------------------------------------
(* What the programs say, which the model refutes.                         *)

\* Nobody else is in the middle of its calls.
Undisturbed(w) == \A v \in Writers \ {w} : pc[v] \in {"off", "idle", "done"}

\* LibForecastTimeseries.py:145 "Timeseries already exists. User --force to
\* update the existing.": where a writer that has the database for itself skips
\* a lead, rows of its slice are there.
SkippedIsStored ==
  [][\A w \in Writers :
       At(w, "lookup") /\ at'[w] # at[w] /\ Slice(w) # {} /\ Undisturbed(w)
       => \E t \in Between(Slice(w)) : Stored(Event(w), t)]_vars
=============================================================================
