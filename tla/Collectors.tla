------------------------------ MODULE Collectors ------------------------------
(***************************************************************************)
(* Collectors that follow a source of their own                            *)
(* (agent/internal/collectors): the browsers' history, whose watermark is  *)
(* kept in a file (browsing); the newest records of the Security log,      *)
(* whose cursor is kept in memory (seclog); a trace session whose events   *)
(* are handed over one by one (dns, printjobs) or added up and flushed     *)
(* (netflow).                                                              *)
(*                                                                         *)
(* A behaviour follows one collector. It is started and cancelled by the   *)
(* policy, consent and commands, and nobody waits for a cancelled one to   *)
(* return: a generation may still be at work when the next one starts.     *)
(* Items are numbered in the order the source gets them, which need not be *)
(* that of their times: clocks are set, and visits arrive from elsewhere.  *)
(***************************************************************************)
EXTENDS Naturals, FiniteSets

CONSTANTS
  MaxLogged,   \* bound: the visits, records or events there will be
  Time,        \* the clock reading of each item
  Horizon,     \* what a week before now (initialLookback) may be when there is no mark
  Limit,       \* maxPerScan of browsing, /c:50 of seclog
  Generation,  \* places for generations of the collector
  MaxStarts,   \* bound: generations started
  MaxFaults    \* bound: crashes, failed reads and writes, closed sessions

ASSUME CollectorsAssumption ==
  /\ MaxLogged \in Nat
  /\ Time \in [1..MaxLogged -> Nat \ {0}] /\ Horizon \subseteq Nat \ {0}
  /\ Limit \in Nat \ {0} /\ MaxStarts \in Nat /\ MaxFaults \in Nat

VARIABLES
  kind,       \* which collector this is
  logged,     \* the items 1..logged exist
  saved,      \* the mark in browsing-state.json; 0: none
  gens,       \* the generations
  reported,   \* events emitted for each item, up to 2
  excused,    \* items given up on, for one of the reasons below (history)
  overlapped, \* a generation was started while another was at work (history)
  starts, faults

Item == 1..MaxLogged

vars == <<kind, logged, saved, gens, reported, excused, overlapped, starts, faults>>

Kind    == {"browsing", "seclog", "dns", "netflow"}
Session == kind \in {"dns", "netflow"}

\* A generation: what it is about to do, whether it was cancelled, its cursor and the
\* one it will have, the items it is about to emit, and those the session holds for it.
Step  == {"seed", "idle", "query", "emit", "save", "flush"}
Gen   == [step : Step, on : BOOLEAN, mark : Nat, next : Nat,
          todo : SUBSET Item, inbox : SUBSET Item]
NoGen == [step |-> "none"]
Live  == {g \in Generation : gens[g] # NoGen}

TypeOK ==
  /\ kind \in Kind /\ logged \in 0..MaxLogged /\ saved \in Nat
  /\ gens \in [Generation -> Gen \union {NoGen}]
  /\ reported \in [Item -> 0..2] /\ excused \subseteq 1..logged
  /\ overlapped \in BOOLEAN /\ starts \in Nat /\ faults \in Nat
  \* Nothing is emitted that is not in the source; one generation is on at most.
  /\ \A g \in Live : gens[g].todo \union gens[g].inbox \subseteq 1..logged
  /\ \A g, h \in Live : gens[g].on /\ gens[h].on => g = h

Init ==
  /\ kind \in Kind
  /\ logged = 0 /\ saved = 0
  /\ gens = [g \in Generation |-> NoGen]
  /\ reported = [i \in Item |-> 0] /\ excused = {} /\ overlapped = FALSE
  /\ starts = 0 /\ faults = 0

Fault == faults < MaxFaults /\ faults' = faults + 1

At(g, step) == gens[g] # NoGen /\ gens[g].step = step

-----------------------------------------------------------------------------
(* The source *)

\* A visit is too late when its time is not after the mark: the saved one, that of a scan
\* under way, or the one that scan will save.
TooLate(i) ==
  \/ Time[i] <= saved
  \/ \E g \in Live : \/ At(g, "query") /\ Time[i] <= gens[g].mark
                     \/ /\ At(g, "emit") \/ At(g, "save")
                        /\ Time[i] <= gens[g].mark \/ Time[i] <= gens[g].next

\* A visit or a record.
Log ==
  LET i == logged + 1 IN
  /\ ~Session /\ i \in Item /\ logged' = i
  /\ excused' = IF kind = "browsing" /\ TooLate(i) THEN excused \union {i} ELSE excused
  /\ UNCHANGED <<kind, saved, gens, reported, overlapped, starts, faults>>

\* Generations whose session is open.
Listening == {g \in Live : gens[g].step # "flush"}

\* A query, a document or traffic: a session hands it to a generation; when nobody
\* listens nobody will ever know.
Happen ==
  LET i == logged + 1 IN
  /\ Session /\ i \in Item /\ logged' = i
  /\ \/ /\ Listening = {} /\ excused' = excused \union {i}
        /\ UNCHANGED gens
     \/ \E g \in Listening : /\ gens' = [gens EXCEPT ![g].inbox = @ \union {i}]
                              /\ UNCHANGED excused
  /\ UNCHANGED <<kind, saved, reported, overlapped, starts, faults>>

-----------------------------------------------------------------------------
(* Generations *)

\* startCollectors: browsing scans at once, seclog seeds its cursor first.
Start(g) ==
  /\ gens[g] = NoGen /\ starts < MaxStarts /\ starts' = starts + 1
  /\ \A h \in Live : ~gens[h].on
  /\ gens' = [gens EXCEPT ![g] =
       [step |-> IF kind = "seclog" THEN "seed" ELSE "idle", on |-> TRUE,
        mark |-> 0, next |-> 0, todo |-> {}, inbox |-> {}]]
  /\ overlapped' = (overlapped \/ Live # {})
  /\ UNCHANGED <<kind, logged, saved, reported, excused, faults>>

\* cancelCollectors.
Cancel(g) ==
  /\ g \in Live /\ gens[g].on
  /\ gens' = [gens EXCEPT ![g].on = FALSE]
  /\ UNCHANGED <<kind, logged, saved, reported, excused, overlapped, starts, faults>>

\* Mutant: the loop waits for its ticker only.
LooksAtTicks(g) == At(g, "save") /\ ~gens[g].on

\* The select of the loop, which takes any branch that is ready, ctx.Done among others.
SeesCancelled(g) == At(g, "idle") /\ ~gens[g].on

\* What is flushed before a loop returns.
Counters(g) == IF kind = "netflow" THEN gens[g].todo ELSE {}

\* The loop returns, after a last flush; what its session held for it is lost.
Return(g) ==
  /\ \/ SeesCancelled(g) /\ UNCHANGED faults
     \/ Session /\ At(g, "idle") /\ Fault   \* the channel of events was closed
  /\ gens' = [gens EXCEPT ![g] =
       IF Counters(g) = {} THEN NoGen ELSE [@ EXCEPT !.step = "flush", !.inbox = {}]]
  /\ excused' = excused \union gens[g].inbox
  /\ UNCHANGED <<kind, logged, saved, reported, overlapped, starts>>

\* The process dies.
Crash ==
  /\ Live # {} /\ Fault
  /\ excused' = IF Session
                  THEN excused \union UNION {gens[g].inbox \union gens[g].todo : g \in Live}
                  ELSE excused
  /\ gens' = [g \in Generation |-> NoGen]
  /\ UNCHANGED <<kind, logged, saved, reported, overlapped, starts>>

-----------------------------------------------------------------------------
(* browsing: scanAll *)

\* Mutant: the watermark is saved before the visits are emitted.
SavesFirst(step) == [query |-> "save", save |-> "emit", emit |-> "idle"][step]

\* scanChromium and scanFirefox emit, then saveWatermarks; the others only emit.
After(step) ==
  IF kind = "browsing"
    THEN [query |-> "emit", emit |-> "save", save |-> "idle"][step]
    ELSE [query |-> "emit", emit |-> "idle"][step]

\* loadWatermarks. An unreadable file is no mark.
Load(g) ==
  /\ kind = "browsing" /\ At(g, "idle")
  /\ \/ gens' = [gens EXCEPT ![g].step = "query", ![g].mark = saved] /\ UNCHANGED faults
     \/ gens' = [gens EXCEPT ![g].step = "query", ![g].mark = 0] /\ saved > 0 /\ Fault
  /\ UNCHANGED <<kind, logged, saved, reported, excused, overlapped, starts>>

\* Where a scan begins: without a mark, a week before now.
From(g) == IF gens[g].mark = 0 THEN Horizon ELSE {gens[g].mark}

\* Mutant: the last visit again.
NotBefore(from) == {i \in 1..logged : Time[i] >= from}

\* WHERE visit_time > mark, in the copy of the database.
Newer(from) == {i \in 1..logged : Time[i] > from}

\* newMark: the latest time read, or where the scan began.
IsNewMark(mark, from, read) ==
  /\ \A i \in read : Time[i] <= mark
  /\ IF read = {} THEN mark = from ELSE \E i \in read : Time[i] = mark

\* What a scan puts behind the mark unread: whoever shares the time of the last visit
\* read, and, without a mark, what is older than a week.
PassedOver(g, from, read) ==
  {j \in Newer(from) \ read : \E i \in read : Time[j] = Time[i]} \union
  {j \in 1..logged : gens[g].mark = 0 /\ Time[j] <= from}

\* ORDER BY visit_time LIMIT: equal times come in any order. Rows that cannot be read to
\* their end are fewer.
Query(g) ==
  /\ kind = "browsing" /\ At(g, "query")
  /\ \E from \in From(g), read \in SUBSET (1..logged) :
     \E mark \in {from} \union {Time[i] : i \in Item} :
       /\ read \subseteq Newer(from) /\ IsNewMark(mark, from, read)
       /\ Cardinality(read) <= Limit
       /\ \A i \in read, j \in Newer(from) \ read : Time[i] <= Time[j]
       /\ IF Cardinality(read) = Limit \/ read = Newer(from) THEN UNCHANGED faults ELSE Fault
       /\ gens' = [gens EXCEPT ![g].step = After("query"), ![g].todo = read,
                               ![g].next = mark]
       /\ excused' = excused \union PassedOver(g, from, read)
  /\ UNCHANGED <<kind, logged, saved, reported, overlapped, starts>>

\* The database cannot be copied, opened or queried: its mark stays as it was loaded.
QueryFails(g) ==
  /\ kind = "browsing" /\ At(g, "query") /\ Fault
  /\ gens' = [gens EXCEPT ![g].step = After("query"), ![g].next = gens[g].mark]
  /\ UNCHANGED <<kind, logged, saved, reported, excused, overlapped, starts>>

\* saveWatermarks writes another file and renames it; the marks were scanAll's own.
Save(g) ==
  /\ kind = "browsing" /\ At(g, "save")
  /\ \/ saved' = gens[g].next /\ UNCHANGED faults
     \/ UNCHANGED saved /\ Fault
  /\ gens' = [gens EXCEPT ![g].step = After("save"), ![g].mark = 0, ![g].next = 0]
  /\ UNCHANGED <<kind, logged, reported, excused, overlapped, starts>>

-----------------------------------------------------------------------------
(* seclog: run and poll *)

\* The newest records, which the first poll skips in silence. It may fail.
Seed(g) ==
  /\ kind = "seclog" /\ At(g, "seed")
  /\ \/ /\ gens' = [gens EXCEPT ![g].step = "idle", ![g].mark = logged]
        /\ excused' = excused \union {i \in 1..logged : reported[i] = 0}
        /\ UNCHANGED faults
     \/ /\ gens' = [gens EXCEPT ![g].step = "idle"]
        /\ Fault /\ UNCHANGED excused
  /\ UNCHANGED <<kind, logged, saved, reported, overlapped, starts>>

\* Those of the newest Limit records that are newer than lastRecord.
NewestRecords(g) == {i \in (gens[g].mark + 1)..logged : i + Limit > logged}

\* The next poll: one that fails, or is cancelled, sees nothing. A burst passes over
\* the rest.
Poll(g) ==
  /\ kind = "seclog" /\ At(g, "idle") /\ gens[g].on
  /\ gens' = [gens EXCEPT ![g].step = "emit", ![g].todo = NewestRecords(g),
                          ![g].next = logged]
  /\ logged > gens[g].mark
  /\ excused' = excused \union {i \in (gens[g].mark + 1)..logged : i + Limit <= logged}
  /\ UNCHANGED <<kind, logged, saved, reported, overlapped, starts, faults>>

-----------------------------------------------------------------------------
(* Sessions: dns, printjobs, netflow *)

\* The loop takes an event from the channel, to emit it or to add it up.
Take(g) ==
  /\ Session /\ At(g, "idle")
  /\ \E i \in gens[g].inbox :
       gens' = [gens EXCEPT ![g].inbox = @ \ {i}, ![g].todo = @ \union {i},
                            ![g].step = IF kind = "dns" THEN "emit" ELSE "idle"]
  /\ UNCHANGED <<kind, logged, saved, reported, excused, overlapped, starts, faults>>

\* Mutant: what was added up is flushed in the end only.
FlushesInTheEnd(g) == gens[g].todo # {} /\ ~gens[g].on

HasCounters(g) == gens[g].todo # {}

\* netflow's ticker.
Tick(g) ==
  /\ kind = "netflow" /\ At(g, "idle") /\ HasCounters(g)
  /\ gens' = [gens EXCEPT ![g].step = "emit"]
  /\ UNCHANGED <<kind, logged, saved, reported, excused, overlapped, starts, faults>>

-----------------------------------------------------------------------------
(* Emitting *)

\* Visits are emitted in the order of their times, records newest first.
IsNext(g, i) ==
  /\ i \in gens[g].todo
  /\ kind = "browsing" => \A j \in gens[g].todo : Time[i] <= Time[j]
  /\ kind = "seclog"   => \A j \in gens[g].todo : j <= i

Emits(g) == At(g, "emit") \/ At(g, "flush")

Emit(g) ==
  /\ Emits(g)
  /\ \E i \in Item :
       /\ IsNext(g, i)
       /\ reported' = [reported EXCEPT ![i] = IF @ = 2 THEN 2 ELSE @ + 1]
       /\ gens' = [gens EXCEPT ![g].todo = @ \ {i}]
  /\ UNCHANGED <<kind, logged, saved, excused, overlapped, starts, faults>>

\* Everything was emitted: seclog moves its cursor, browsing goes on to save, a last
\* flush ends the generation.
Emitted(g) ==
  /\ Emits(g) /\ gens[g].todo = {}
  /\ gens' = [gens EXCEPT ![g] =
       IF At(g, "flush") THEN NoGen
       ELSE [@ EXCEPT !.step = After("emit"), !.mark = gens[g].next]]
  /\ UNCHANGED <<kind, logged, saved, reported, excused, overlapped, starts, faults>>

-----------------------------------------------------------------------------
Works(g) ==
  \/ Load(g) \/ Query(g) \/ QueryFails(g) \/ Save(g) \/ Seed(g) \/ Poll(g) \/ Take(g) \/ Tick(g)
  \/ Emit(g) \/ Emitted(g)

Next ==
  \/ Log \/ Happen \/ Crash
  \/ \E g \in Generation : Start(g) \/ Cancel(g) \/ Return(g) \/ Works(g)

Spec == Init /\ [][Next]_vars

\* A loop goes on, and it does not choose the ticker over ctx.Done() for ever.
Fairness ==
  \A g \in Generation : WF_vars(Works(g)) /\ SF_vars(SeesCancelled(g) /\ Return(g))

FairSpec == Spec /\ Fairness

-----------------------------------------------------------------------------
Held(g) == gens[g].inbox \union gens[g].todo

\* An item the collector has put behind it was reported, unless it was passed over: a
\* visit at the very time of the one that ended a scan, one older than a week when there
\* was no mark, one that came with a time before the mark; a record before the collector
\* started or beyond the newest of a burst; an event nobody listened to.
NothingPassedOver ==
  \A i \in (1..logged) \ excused : reported[i] = 0 =>
    CASE kind = "browsing" -> Time[i] > saved
      [] kind = "seclog"   -> \A g \in Live : i > gens[g].mark
      [] OTHER             -> \E g \in Live : i \in Held(g)

\* Only a crash or a failure, or a generation that was still at work when the next one
\* started, makes a collector report an item twice.
RepeatsNeedAReason ==
  faults = 0 /\ ~overlapped => \A i \in Item : reported[i] <= 1

\* What a collector that is left running finds in its source, it reports.
EventuallyReported ==
  \A i \in Item :
    []<>(i > logged \/ reported[i] > 0 \/ i \in excused \/ \A g \in Live : ~gens[g].on)

\* A cancelled collector returns.
EventuallyQuiet == \A g \in Generation : []<>(gens[g] = NoGen \/ gens[g].on)
=============================================================================
