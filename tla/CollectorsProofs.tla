--------------------------- MODULE CollectorsProofs ---------------------------
(***************************************************************************)
(* Types, NothingPassedOver and RepeatsNeedAReason, for any number of      *)
(* items, of whatever times, any limit, generations at work at once,       *)
(* starts and faults.                                                      *)
(*                                                                         *)
(* The mark of a browsing generation, loaded or about to be saved, and the *)
(* cursor of a seclog one are behind items that were reported, are about   *)
(* to be, or were given up for a reason; what is logged later is after the *)
(* mark or excused, and a scan without a mark excuses what is before it.   *)
(***************************************************************************)
EXTENDS Collectors, TLAPS

\* A generation: its types, and what belongs to which kind of collector.
Fits(h, k, n) ==
  /\ h \in Gen /\ h.todo \subseteq 1..n /\ h.inbox \subseteq 1..n
  /\ h.step \in {"query", "save"} => k = "browsing"
  /\ h.step = "seed" => k = "seclog"
  /\ h.step = "flush" => k = "netflow" /\ h.inbox = {}
  /\ h.step \in {"idle", "query", "save", "seed"} /\ k # "netflow" => h.todo = {}
  /\ k \in {"browsing", "seclog"} => h.inbox = {}

Typed ==
  /\ kind \in Kind /\ logged \in 0..MaxLogged /\ saved \in Nat
  /\ gens = [g \in Generation |-> gens[g]]
  /\ \A g \in Generation : gens[g] = NoGen \/ Fits(gens[g], kind, logged)
  /\ \A g, h \in Live : gens[g].on /\ gens[h].on => g = h
  /\ reported \in [Item -> 0..2] /\ excused \subseteq 1..logged
  /\ \A i \in Item : reported[i] > 0 => i <= logged
  /\ overlapped \in BOOLEAN /\ starts \in Nat /\ faults \in Nat

LEMMA TypedImplies == Typed => TypeOK
  <1> SUFFICES ASSUME Typed PROVE TypeOK
    OBVIOUS
  <1>1. gens \in [Generation -> Gen \union {NoGen}]
    BY DEF Typed, Fits
  <1> QED BY <1>1 DEF Typed, TypeOK, Fits, Live

LEMMA TypedInit == Init => Typed
  <1> SUFFICES ASSUME Init PROVE Typed
    OBVIOUS
  <1>1. logged \in 0..MaxLogged
    BY CollectorsAssumption DEF Init
  <1>2. /\ gens = [g \in Generation |-> gens[g]]
        /\ \A g \in Generation : gens[g] = NoGen
    BY DEF Init
  <1>3. reported \in [Item -> 0..2] /\ \A i \in Item : reported[i] = 0
    BY DEF Init
  <1>4. overlapped \in BOOLEAN
    BY DEF Init
  <1> QED BY <1>1, <1>2, <1>3, <1>4 DEF Init, Typed, Live

\* What is not a generation, and the fields of one.
LEMMA NoGenIsNone == NoGen \notin Gen
  BY DEF NoGen, Gen, Step


-----------------------------------------------------------------------------
(* What is behind a mark *)

\* The parts of the state these speak of are their parameters: the items n there are,
\* those reported, rep, and those excused, exc.
Settled(i, rep, exc) == i \in exc \/ rep[i] > 0

Behind(t, todo, n, rep, exc) ==
  \A i \in 1..n : Time[i] <= t => Settled(i, rep, exc) \/ i \in todo

Covers(h, k, n, rep, exc) ==
  /\ k = "browsing" /\ h.step \in {"query", "emit", "save"} =>
       Behind(h.mark, {}, n, rep, exc)
  /\ k = "browsing" /\ h.step \in {"emit", "save"} => Behind(h.next, h.todo, n, rep, exc)
  /\ k = "seclog" => h.mark <= n /\ \A i \in 1..h.mark : Settled(i, rep, exc)
  /\ k = "seclog" /\ h.step = "emit" =>
       h.next <= n /\ \A i \in 1..h.next : Settled(i, rep, exc) \/ i \in h.todo

CoverInv ==
  /\ \A g \in Live : Covers(gens[g], kind, logged, reported, excused)
  /\ kind = "browsing" => Behind(saved, {}, logged, reported, excused)
  /\ Session => \A i \in (1..logged) \ excused : reported[i] = 0 =>
       \E g \in Live : i \in Held(g)

Inv == Typed /\ CoverInv

\* More reports and more excuses do no harm.
More(rep, exc, rep2, exc2) == exc \subseteq exc2 /\ \A i \in Item : rep[i] > 0 => rep2[i] > 0

LEMMA BehindMore ==
  ASSUME NEW n \in 0..MaxLogged, NEW rep, NEW exc, NEW rep2, NEW exc2, NEW t, NEW todo,
         More(rep, exc, rep2, exc2), Behind(t, todo, n, rep, exc)
  PROVE  Behind(t, todo, n, rep2, exc2)
  BY CollectorsAssumption DEF More, Behind, Settled, Item

LEMMA CoversMore ==
  ASSUME NEW n \in 0..MaxLogged, NEW rep, NEW exc, NEW rep2, NEW exc2, NEW h \in Gen, NEW k,
         More(rep, exc, rep2, exc2), Covers(h, k, n, rep, exc)
  PROVE  Covers(h, k, n, rep2, exc2)
  <1>1. \A i \in 1..n : Settled(i, rep, exc) => Settled(i, rep2, exc2)
    BY CollectorsAssumption DEF More, Settled, Item
  <1>2. /\ k = "browsing" /\ h.step \in {"query", "emit", "save"} =>
             Behind(h.mark, {}, n, rep2, exc2)
        /\ k = "browsing" /\ h.step \in {"emit", "save"} =>
             Behind(h.next, h.todo, n, rep2, exc2)
    BY BehindMore DEF Covers
  <1>3. k = "seclog" => h.mark <= n /\ \A i \in 1..h.mark : Settled(i, rep2, exc2)
    <2>1. h.mark \in Nat
      BY DEF Gen
    <2> QED BY <1>1, <2>1 DEF Covers
  <1>4. k = "seclog" /\ h.step = "emit" =>
          h.next <= n /\ \A i \in 1..h.next : Settled(i, rep2, exc2) \/ i \in h.todo
    <2>1. h.next \in Nat
      BY DEF Gen
    <2> QED BY <1>1, <2>1 DEF Covers
  <1> QED BY <1>2, <1>3, <1>4 DEF Covers

-----------------------------------------------------------------------------
(* One generation changes at a time *)

\* Generation g moves to h, all others stay.
Moves(g, h) == gens' = [gens EXCEPT ![g] = h]

LEMMA MovesKeeps ==
  ASSUME Typed, NEW g \in Generation, gens[g] # NoGen, NEW h, Moves(g, h),
         Fits(h, kind, logged), h.on => gens[g].on,
         UNCHANGED <<kind, logged, overlapped, starts>>,
         saved' \in Nat, faults' \in Nat,
         reported' \in [Item -> 0..2], \A i \in Item : reported'[i] > 0 => i <= logged,
         excused' \subseteq 1..logged
  PROVE  Typed'
  <1>1. gens' = [f \in Generation |-> gens'[f]]
    BY DEF Moves, Typed
  <1>2. \A f \in Generation : gens'[f] = NoGen \/ Fits(gens'[f], kind, logged)
    BY DEF Moves, Typed
  <1>3. \A e, f \in Generation : gens'[e] # NoGen /\ gens'[f] # NoGen
          /\ gens'[e].on /\ gens'[f].on => e = f
    BY DEF Moves, Typed, Live
  <1> QED BY <1>1, <1>2, <1>3 DEF Typed, Live

LEMMA EndsKeeps ==
  ASSUME Typed, NEW g \in Generation, Moves(g, NoGen),
         UNCHANGED <<kind, logged, overlapped, starts, saved, reported>>,
         faults' \in Nat, excused' \subseteq 1..logged
  PROVE  Typed'
  <1>1. gens' = [f \in Generation |-> gens'[f]]
    BY DEF Moves, Typed
  <1>2. \A f \in Generation : gens'[f] = NoGen \/ Fits(gens'[f], kind, logged)
    BY DEF Moves, Typed
  <1>3. \A e, f \in Generation : gens'[e] # NoGen /\ gens'[f] # NoGen
          /\ gens'[e].on /\ gens'[f].on => e = f
    BY DEF Moves, Typed, Live
  <1> QED BY <1>1, <1>2, <1>3 DEF Typed, Live

\* A generation goes on: what it held it still holds, or it was reported or excused.
LEMMA GoesOn ==
  ASSUME Inv, NEW g \in Generation, gens[g] # NoGen, NEW h, Moves(g, h),
         Fits(h, kind, logged), h.on => gens[g].on,
         UNCHANGED <<kind, logged, overlapped, starts>>,
         saved' \in Nat, faults' \in Nat,
         reported' \in [Item -> 0..2], \A i \in Item : reported'[i] > 0 => i <= logged,
         excused' \subseteq 1..logged,
         More(reported, excused, reported', excused'),
         Covers(h, kind, logged, reported', excused'),
         kind = "browsing" => \/ saved' = saved
                              \/ Behind(saved', {}, logged, reported', excused'),
         Session => \A i \in Held(g) : i \in h.todo \union h.inbox
                                        \/ Settled(i, reported', excused')
  PROVE  Inv'
  <1>1. Typed'
    BY MovesKeeps DEF Inv
  <1>2. ASSUME NEW f \in Live' PROVE Covers(gens'[f], kind, logged, reported', excused')
    <2>1. CASE f = g
      BY <2>1 DEF Moves, Inv, Typed
    <2>2. CASE f # g
      <3>1. gens'[f] = gens[f] /\ f \in Live /\ gens[f] \in Gen
        BY <1>2, <2>2 DEF Moves, Inv, Typed, Live, Fits
      <3>2. Covers(gens[f], kind, logged, reported, excused)
        BY <3>1 DEF Inv, CoverInv
      <3> QED BY <3>1, <3>2, CoversMore DEF Inv, Typed
    <2> QED BY <2>1, <2>2
  <1>3. kind = "browsing" => Behind(saved', {}, logged, reported', excused')
    BY BehindMore DEF Inv, Typed, CoverInv
  <1>4. ASSUME Session, NEW i \in (1..logged) \ excused', reported'[i] = 0
        PROVE  \E f \in Live' : i \in gens'[f].inbox \union gens'[f].todo
    <2>1. i \in Item
      BY CollectorsAssumption DEF Inv, Typed, Item
    <2>2. ~Settled(i, reported', excused')
      BY <1>4 DEF Settled
    <2>3. reported[i] = 0 /\ i \notin excused
      BY <1>4, <2>1 DEF More, Inv, Typed
    <2>4. PICK f \in Live : i \in Held(f)
      BY <1>4, <2>3 DEF Inv, CoverInv
    <2>5. CASE f = g
      <3>1. gens'[g] = h /\ h # NoGen
        BY NoGenIsNone DEF Moves, Inv, Typed, Fits
      <3> QED BY <1>4, <2>2, <2>4, <2>5, <3>1 DEF Live
    <2>6. CASE f # g
      BY <2>4, <2>6 DEF Moves, Inv, Typed, Live, Held
    <2> QED BY <2>5, <2>6
  <1>5. CoverInv'
    BY <1>2, <1>3, <1>4 DEF CoverInv, Session, Held
  <1> QED BY <1>1, <1>5 DEF Inv

\* A generation ends: what its session held for it is excused.
LEMMA Ends ==
  ASSUME Inv, NEW g \in Generation, gens[g] # NoGen, Moves(g, NoGen),
         UNCHANGED <<kind, logged, overlapped, starts, saved, reported>>,
         faults' \in Nat, excused' \subseteq 1..logged, excused \subseteq excused',
         Session => Held(g) \subseteq excused'
  PROVE  Inv'
  <1>1. Typed'
    BY EndsKeeps DEF Inv
  <1>2. More(reported, excused, reported, excused')
    BY DEF More
  <1>3. ASSUME NEW f \in Live' PROVE Covers(gens'[f], kind, logged, reported, excused')
    <2>1. gens'[f] = gens[f] /\ f \in Live /\ gens[f] \in Gen
      BY <1>3 DEF Moves, Inv, Typed, Live, Fits
    <2>2. Covers(gens[f], kind, logged, reported, excused)
      BY <2>1 DEF Inv, CoverInv
    <2> QED BY <1>2, <2>1, <2>2, CoversMore DEF Inv, Typed
  <1>4. kind = "browsing" => Behind(saved, {}, logged, reported, excused')
    BY <1>2, BehindMore DEF Inv, Typed, CoverInv
  <1>5. ASSUME Session, NEW i \in (1..logged) \ excused', reported[i] = 0
        PROVE  \E f \in Live' : i \in gens'[f].inbox \union gens'[f].todo
    <2>1. PICK f \in Live : i \in Held(f)
      BY <1>5 DEF Inv, CoverInv
    <2>2. f # g
      BY <1>5, <2>1
    <2> QED BY <2>1, <2>2 DEF Moves, Inv, Typed, Live, Held
  <1>6. CoverInv'
    BY <1>3, <1>4, <1>5 DEF CoverInv, Session, Held
  <1> QED BY <1>1, <1>6 DEF Inv

-----------------------------------------------------------------------------
(* The source *)

LEMMA LoggedKeeps ==
  ASSUME Typed, logged' = logged + 1, logged + 1 \in Item,
         UNCHANGED <<kind, saved, reported, overlapped, starts, faults>>,
         excused' \subseteq 1..(logged + 1),
         gens' = [g \in Generation |-> gens'[g]],
         \A g \in Generation : gens'[g] = NoGen \/ Fits(gens'[g], kind, logged + 1),
         \A g, h \in Generation : gens'[g] # NoGen /\ gens'[h] # NoGen
           /\ gens'[g].on /\ gens'[h].on => g = h
  PROVE  Typed'
  <1>1. logged' \in 0..MaxLogged
    BY CollectorsAssumption DEF Typed, Item
  <1>2. \A i \in Item : reported'[i] > 0 => i <= logged'
    BY CollectorsAssumption DEF Typed, Item
  <1> QED BY <1>1, <1>2 DEF Typed, Live

\* A new item is after the mark, or excused.
LEMMA BehindLogged ==
  ASSUME Typed, NEW t \in Nat, NEW todo, NEW i, i = logged + 1,
         Behind(t, todo, logged, reported, excused),
         NEW exc, excused \subseteq exc, Time[i] <= t => i \in exc
  PROVE  Behind(t, todo, logged + 1, reported, exc)
  <1>1. 1..(logged + 1) = 1..logged \union {i}
    BY DEF Typed
  <1> QED BY <1>1 DEF Behind, Settled

LEMMA LogInv ==
  ASSUME Inv, Log
  PROVE  Inv'
  <1> DEFINE i == logged + 1
  <1>1. /\ i \in Item /\ logged' = i /\ ~Session /\ excused \subseteq excused'
        /\ excused' \subseteq 1..i /\ (kind = "browsing" /\ TooLate(i) => i \in excused')
        /\ UNCHANGED <<kind, saved, gens, reported, overlapped, starts, faults>>
    BY DEF Log, Inv, Typed
  <1>2. logged \in Nat /\ i <= MaxLogged
    BY <1>1, CollectorsAssumption DEF Inv, Typed, Item
  <1>3. Typed'
    <2>1. \A g \in Generation : Fits(gens[g], kind, logged) => Fits(gens[g], kind, i)
      BY <1>2 DEF Fits
    <2>2. \A g, h \in Generation : gens[g] # NoGen /\ gens[h] # NoGen
            /\ gens[g].on /\ gens[h].on => g = h
      BY DEF Inv, Typed, Live
    <2> QED BY <1>1, <2>1, <2>2, LoggedKeeps DEF Inv, Typed
  <1>4. ASSUME NEW g \in Live PROVE Covers(gens[g], kind, i, reported, excused')
    <2> DEFINE h == gens[g]
    <2>1. h \in Gen /\ h.mark \in Nat /\ h.next \in Nat /\ h.todo \in SUBSET Item
      BY <1>4 DEF Inv, Typed, Live, Fits, Gen
    <2>2. Covers(h, kind, logged, reported, excused)
      BY <1>4 DEF Inv, CoverInv
    <2>3. CASE kind = "browsing"
      <3>1. h.step \in {"query", "emit", "save"} => (Time[i] <= h.mark => i \in excused')
        BY <1>1, <1>4, <2>3 DEF TooLate, At, Live
      <3>2. h.step \in {"emit", "save"} => (Time[i] <= h.next => i \in excused')
        BY <1>1, <1>4, <2>3 DEF TooLate, At, Live
      <3>3. h.step \in {"query", "emit", "save"} => Behind(h.mark, {}, i, reported, excused')
        BY <1>1, <2>1, <2>2, <2>3, <3>1, BehindLogged DEF Covers, Inv
      <3>4. h.step \in {"emit", "save"} => Behind(h.next, h.todo, i, reported, excused')
        BY <1>1, <2>1, <2>2, <2>3, <3>2, BehindLogged DEF Covers, Inv
      <3> QED BY <2>3, <3>3, <3>4 DEF Covers
    <2>4. CASE kind # "browsing"
      BY <1>1, <1>2, <2>1, <2>2, <2>4 DEF Covers, Settled
    <2> QED BY <2>3, <2>4
  <1>5. kind = "browsing" => Behind(saved, {}, i, reported, excused')
    BY <1>1, BehindLogged DEF Inv, Typed, CoverInv, TooLate
  <1>6. CoverInv'
    BY <1>1, <1>4, <1>5 DEF CoverInv, Session, Live
  <1> QED BY <1>3, <1>6 DEF Inv

LEMMA HappenInv ==
  ASSUME Inv, Happen
  PROVE  Inv'
  <1> DEFINE i == logged + 1
  <1>1. /\ i \in Item /\ logged' = i /\ Session
        /\ UNCHANGED <<kind, saved, reported, overlapped, starts, faults>>
    BY DEF Happen
  <1>2. logged \in Nat /\ i <= MaxLogged
    BY <1>1, CollectorsAssumption DEF Inv, Typed, Item
  <1>3. kind \notin {"browsing", "seclog"}
    BY <1>1 DEF Session
  <1>4. CASE excused' = excused \union {i} /\ UNCHANGED gens
    <2>1. Typed'
      <3>1. \A g \in Generation : Fits(gens[g], kind, logged) => Fits(gens[g], kind, i)
        BY <1>2 DEF Fits
      <3>2. \A g, h \in Generation : gens[g] # NoGen /\ gens[h] # NoGen
              /\ gens[g].on /\ gens[h].on => g = h
        BY DEF Inv, Typed, Live
      <3>3. excused' \subseteq 1..i
        BY <1>2, <1>4 DEF Inv, Typed
      <3> QED BY <1>1, <1>4, <3>1, <3>2, <3>3, LoggedKeeps DEF Inv, Typed
    <2>2. CoverInv'
      BY <1>1, <1>2, <1>3, <1>4 DEF Inv, CoverInv, Covers, Session, Live, Held
    <2> QED BY <2>1, <2>2 DEF Inv
  <1>5. ASSUME NEW g \in Listening, gens' = [gens EXCEPT ![g].inbox = @ \union {i}],
               UNCHANGED excused
        PROVE  Inv'
    <2> DEFINE b == gens[g]
               h == [b EXCEPT !.inbox = @ \union {i}]
    <2>1. /\ g \in Live /\ g \in Generation /\ b.step # "flush" /\ b \in Gen
          /\ Fits(b, kind, logged)
      BY <1>5 DEF Listening, Inv, Typed, Live, Fits
    <2>2. /\ h \in Gen /\ h.step = b.step /\ h.on = b.on /\ h.todo = b.todo
          /\ h.inbox = b.inbox \union {i}
      BY <1>1, <2>1 DEF Gen
    <2>3. \A f \in Generation : gens'[f] = IF f = g THEN h ELSE gens[f]
      BY <1>5, <2>1 DEF Inv, Typed
    <2> HIDE DEF h
    <2>4. Fits(h, kind, i)
      BY <1>2, <1>3, <2>1, <2>2 DEF Fits
    <2>5. Typed'
      <3>1. \A f \in Generation : Fits(gens[f], kind, logged) => Fits(gens[f], kind, i)
        BY <1>2 DEF Fits
      <3>2. gens' = [f \in Generation |-> gens'[f]]
        BY <1>5 DEF Inv, Typed
      <3>3. \A e, f \in Generation : gens'[e] # NoGen /\ gens'[f] # NoGen
              /\ gens'[e].on /\ gens'[f].on => e = f
        BY <2>1, <2>2, <2>3 DEF Inv, Typed, Live
      <3>4. \A f \in Generation : gens'[f] = NoGen \/ Fits(gens'[f], kind, i)
        BY <2>3, <2>4, <3>1 DEF Inv, Typed
      <3>5. excused' \subseteq 1..i
        BY <1>2, <1>5 DEF Inv, Typed
      <3> QED BY <1>1, <3>2, <3>3, <3>4, <3>5, LoggedKeeps DEF Inv
    <2>6. ASSUME NEW j \in (1..i) \ excused, reported[j] = 0
          PROVE  \E f \in Live' : j \in gens'[f].inbox \union gens'[f].todo
      <3>1. g \in Live' /\ gens'[g] = h
        BY <2>1, <2>2, <2>3, NoGenIsNone DEF Live
      <3>2. CASE j = i
        BY <2>2, <3>1, <3>2
      <3>3. CASE j # i
        <4>1. PICK f \in Live : j \in Held(f)
          BY <1>1, <1>2, <2>6, <3>3 DEF Inv, CoverInv
        <4> QED BY <2>2, <2>3, <3>1, <4>1 DEF Live, Held
      <3> QED BY <3>2, <3>3
    <2>7. CoverInv'
      BY <1>1, <1>3, <1>5, <2>6 DEF CoverInv, Covers, Session, Held
    <2> QED BY <2>5, <2>7 DEF Inv
  <1> QED BY <1>4, <1>5 DEF Happen

-----------------------------------------------------------------------------
(* Generations begin and end *)

LEMMA StartInv ==
  ASSUME Inv, NEW g \in Generation, Start(g)
  PROVE  Inv'
  <1> DEFINE first == IF kind = "seclog" THEN "seed" ELSE "idle"
             h == [step |-> first, on |-> TRUE, mark |-> 0, next |-> 0, todo |-> {},
                   inbox |-> {}]
  <1>1. /\ gens[g] = NoGen /\ gens' = [gens EXCEPT ![g] = h]
        /\ \A f \in Live : ~gens[f].on
        /\ UNCHANGED <<kind, logged, saved, reported, excused, faults>>
    BY DEF Start
  <1>2. Fits(h, kind, logged) /\ h # NoGen
    <2>1. first \in Step /\ (first = "seed" => kind = "seclog")
          /\ first \notin {"query", "save", "flush"}
      BY DEF Step
    <2> HIDE DEF first
    <2>2. h \in Gen
      BY <2>1 DEF Gen
    <2> QED BY <2>1, <2>2, NoGenIsNone DEF Fits
  <1>3. \A f \in Generation : gens'[f] = IF f = g THEN h ELSE gens[f]
    BY <1>1 DEF Inv, Typed
  <1>4. Typed'
    <2>1. gens' = [f \in Generation |-> gens'[f]]
      BY <1>1 DEF Inv, Typed
    <2>2. \A f \in Generation : gens'[f] = NoGen \/ Fits(gens'[f], kind, logged)
      BY <1>2, <1>3 DEF Inv, Typed
    <2>3. \A e, f \in Generation : gens'[e] # NoGen /\ gens'[f] # NoGen
            /\ gens'[e].on /\ gens'[f].on => e = f
      BY <1>1, <1>3 DEF Live
    <2>4. overlapped' \in BOOLEAN /\ starts' \in Nat
      <3>1. starts' \in Nat
        BY DEF Start, Inv, Typed
      <3>2. overlapped' \in BOOLEAN
        BY ZenonT(30) DEF Start, Inv, Typed
      <3> QED BY <3>1, <3>2
    <2> QED BY <1>1, <2>1, <2>2, <2>3, <2>4 DEF Inv, Typed, Live
  <1>5. Covers(h, kind, logged, reported, excused)
    BY DEF Covers, Inv, Typed
  <1>6. \A f \in Live' : Covers(gens'[f], kind, logged, reported, excused)
    BY <1>3, <1>5 DEF Live, Inv, CoverInv
  <1>7. \A f \in Live : f \in Live' /\ gens'[f] = gens[f]
    BY <1>1, <1>3 DEF Live
  <1>8. CoverInv'
    BY <1>1, <1>6, <1>7 DEF Inv, CoverInv, Session, Held
  <1> QED BY <1>4, <1>8 DEF Inv

LEMMA CrashInv ==
  ASSUME Inv, Crash
  PROVE  Inv'
  <1>1. /\ gens' = [g \in Generation |-> NoGen] /\ faults' \in Nat
        /\ UNCHANGED <<kind, logged, saved, reported, overlapped, starts>>
        /\ excused \subseteq excused' /\ excused' \subseteq 1..logged
    BY DEF Crash, Fault, Inv, Typed, Live, Fits
  <1>2. Live' = {}
    BY <1>1 DEF Live
  <1>3. Typed'
    BY <1>1, <1>2 DEF Inv, Typed
  <1>4. kind = "browsing" => Behind(saved, {}, logged, reported, excused')
    BY <1>1, BehindMore DEF Inv, Typed, CoverInv, More
  <1>5. ASSUME Session, NEW i \in (1..logged) \ excused', reported[i] = 0 PROVE FALSE
    <2>1. PICK g \in Live : i \in Held(g)
      BY <1>1, <1>5 DEF Inv, CoverInv
    <2> QED BY <1>5, <2>1 DEF Crash, Held
  <1>6. CoverInv'
    BY <1>1, <1>2, <1>4, <1>5 DEF CoverInv, Session
  <1> QED BY <1>3, <1>6 DEF Inv

\* Steps that only leave a generation as it is, but for fields no mark depends on.
LEMMA CancelInv ==
  ASSUME Inv, NEW g \in Generation, Cancel(g)
  PROVE  Inv'
  <1> DEFINE b == gens[g]
             h == [b EXCEPT !.on = FALSE]
  <1>1. b # NoGen /\ b \in Gen /\ Fits(b, kind, logged)
        /\ Covers(b, kind, logged, reported, excused)
    BY DEF Cancel, Live, Inv, Typed, CoverInv, Fits
  <1>2. /\ h \in Gen /\ h.on = FALSE
        /\ \A x \in {"step", "mark", "next", "todo", "inbox"} : h[x] = b[x]
    BY <1>1 DEF Gen
  <1>3. Moves(g, h)
    BY DEF Cancel, Moves, Inv, Typed
  <1> HIDE DEF h
  <1>4. Fits(h, kind, logged) /\ Covers(h, kind, logged, reported, excused)
    BY <1>1, <1>2 DEF Fits, Covers
  <1> QED
    BY <1>1, <1>2, <1>3, <1>4, GoesOn DEF Cancel, Inv, Typed, More, Held

LEMMA ReturnInv ==
  ASSUME Inv, NEW g \in Generation, Return(g)
  PROVE  Inv'
  <1> DEFINE b == gens[g]
             h == [b EXCEPT !.step = "flush", !.inbox = {}]
  <1>1. /\ b # NoGen /\ b.step = "idle" /\ b \in Gen /\ Fits(b, kind, logged)
        /\ Covers(b, kind, logged, reported, excused)
    BY DEF Return, SeesCancelled, At, Live, Inv, Typed, CoverInv, Fits
  <1>2. /\ UNCHANGED <<kind, logged, saved, reported, overlapped, starts>>
        /\ faults' \in Nat /\ excused' = excused \union b.inbox /\ excused' \subseteq 1..logged
    BY <1>1 DEF Return, Fault, Inv, Typed, Fits
  <1>3. CASE Counters(g) = {}
    <2>1. Moves(g, NoGen)
      BY <1>3 DEF Return, Moves
    <2>2. b.todo = {}
      BY <1>1, <1>3 DEF Fits, Counters
    <2> QED BY <1>1, <1>2, <2>1, <2>2, Ends DEF Held
  <1>4. CASE Counters(g) # {}
    <2>1. kind = "netflow"
      BY <1>4 DEF Counters
    <2>2. /\ h \in Gen /\ h.step = "flush" /\ h.inbox = {}
          /\ h.on = b.on /\ h.todo = b.todo
      BY <1>1 DEF Gen, Step
    <2>3. Moves(g, h)
      BY <1>4 DEF Return, Moves
    <2> HIDE DEF h
    <2>4. Fits(h, kind, logged) /\ Covers(h, kind, logged, reported, excused')
      BY <1>1, <2>1, <2>2 DEF Fits, Covers
    <2>5. More(reported, excused, reported', excused')
      BY <1>2 DEF More
    <2>6. \A i \in Held(g) : i \in h.todo \/ i \in excused'
      BY <1>2, <2>2 DEF Held
    <2> QED
      BY <1>1, <1>2, <2>2, <2>3, <2>4, <2>5, <2>6, GoesOn DEF Inv, Typed, Settled
  <1> QED BY <1>3, <1>4

-----------------------------------------------------------------------------
(* browsing *)

LEMMA LoadInv ==
  ASSUME Inv, NEW g \in Generation, Load(g)
  PROVE  Inv'
  <1> DEFINE b == gens[g]
  <1>1. /\ b # NoGen /\ b.step = "idle" /\ b \in Gen /\ Fits(b, kind, logged)
        /\ kind = "browsing"
    BY DEF Load, At, Live, Inv, Typed, Fits
  <1>2. PICK mark \in {saved, 0} :
          gens' = [gens EXCEPT ![g].step = "query", ![g].mark = mark]
    BY DEF Load
  <1> DEFINE h == [b EXCEPT !.step = "query", !.mark = mark]
  <1>3. Behind(mark, {}, logged, reported, excused)
    <2>1. Behind(0, {}, logged, reported, excused)
      BY CollectorsAssumption DEF Behind, Item, Inv, Typed
    <2> QED BY <1>1, <1>2, <2>1 DEF Inv, CoverInv
  <1>4. /\ h \in Gen /\ h.step = "query" /\ h.mark = mark /\ h.on = b.on
        /\ h.todo = b.todo /\ h.inbox = b.inbox
    BY <1>1, <1>2 DEF Gen, Step, Inv, Typed
  <1>5. Moves(g, h)
    BY <1>2 DEF Moves, Inv, Typed
  <1> HIDE DEF h
  <1>6. Fits(h, kind, logged) /\ Covers(h, kind, logged, reported, excused)
    BY <1>1, <1>3, <1>4 DEF Fits, Covers
  <1>7. faults' \in Nat /\ UNCHANGED <<kind, logged, saved, reported, excused, overlapped, starts>>
    BY DEF Load, Fault, Inv, Typed
  <1> QED
    BY <1>1, <1>4, <1>5, <1>6, <1>7, GoesOn DEF Inv, Typed, More, Held

\* The steps of a scan: where it begins, what it reads and the mark it leaves are times.
Scan(g, from, read, mark) ==
  /\ from \in From(g) /\ mark \in {from} \union {Time[i] : i \in Item}
  /\ read \subseteq Newer(from) /\ IsNewMark(mark, from, read)
  /\ \A i \in read, j \in Newer(from) \ read : Time[i] <= Time[j]
  /\ gens' = [gens EXCEPT ![g].step = After("query"), ![g].todo = read, ![g].next = mark]
  /\ excused' = excused \union PassedOver(g, from, read)

LEMMA QueryScans ==
  ASSUME NEW g \in Generation, Query(g), gens[g].mark \in Nat
  PROVE  \E from \in Nat, read \in SUBSET (1..logged), mark \in Nat : Scan(g, from, read, mark)
  <1>1. PICK from \in From(g) :
          \E read \in SUBSET (1..logged) : \E mark \in {from} \union {Time[i] : i \in Item} :
            Scan(g, from, read, mark)
    BY DEF Query, Scan
  <1>2. PICK read \in SUBSET (1..logged) :
          \E mark \in {from} \union {Time[i] : i \in Item} : Scan(g, from, read, mark)
    BY <1>1
  <1>3. PICK mark \in {from} \union {Time[i] : i \in Item} : Scan(g, from, read, mark)
    BY <1>2
  <1>4. from \in Nat
    BY CollectorsAssumption DEF From
  <1>5. mark \in Nat
    BY <1>4, CollectorsAssumption DEF Item
  <1> QED BY <1>3, <1>4, <1>5

\* The items a scan reads are the first after the mark, up to those at its last time.
LEMMA QueryInv ==
  ASSUME Inv, NEW g \in Generation, Query(g)
  PROVE  Inv'
  <1> DEFINE b == gens[g]
  <1>1. /\ b # NoGen /\ b.step = "query" /\ b \in Gen /\ Fits(b, kind, logged)
        /\ kind = "browsing" /\ Behind(b.mark, {}, logged, reported, excused)
    BY DEF Query, At, Live, Inv, Typed, Fits, CoverInv, Covers
  <1>2. PICK from \in Nat, read \in SUBSET (1..logged), mark \in Nat :
          Scan(g, from, read, mark)
    BY <1>1, QueryScans DEF Gen
  <1> DEFINE h == [b EXCEPT !.step = "emit", !.todo = read, !.next = mark]
  <1>3. After("query") = "emit"
    BY DEF After
  <1>4. /\ 1..logged \subseteq Item /\ read \in SUBSET (1..logged)
        /\ \A i \in Item : Time[i] \in Nat
    BY CollectorsAssumption DEF Item, Inv, Typed
  <1>5. b.mark \in Nat /\ from \in Nat /\ mark \in Nat
    BY <1>1 DEF Gen
  <1>6. /\ faults' \in Nat /\ excused \subseteq excused' /\ excused' \subseteq 1..logged
        /\ UNCHANGED <<kind, logged, saved, reported, overlapped, starts>>
    BY <1>2 DEF Query, Fault, Inv, Typed, Newer, PassedOver, Scan
  <1>7. Behind(mark, read, logged, reported, excused')
    <2>1. ASSUME NEW i \in 1..logged, Time[i] <= mark, i \notin read
          PROVE  Settled(i, reported, excused')
      <3>1. CASE Time[i] <= from
        <4>1. b.mark # 0 => from = b.mark
          BY <1>2 DEF From, Scan
        <4>2. b.mark = 0 => i \in excused'
          BY <1>2, <2>1, <3>1 DEF PassedOver, Scan
        <4> QED BY <1>1, <1>6, <2>1, <3>1, <4>1, <4>2 DEF Behind, Settled
      <3>2. CASE ~(Time[i] <= from)
        <4>1. i \in Newer(from)
          BY <1>4, <1>5, <2>1, <3>2 DEF Newer
        <4>2. PICK j \in read : Time[j] = mark
          BY <1>2, <1>4, <1>5, <2>1, <3>2 DEF IsNewMark, Scan
        <4>3. Time[j] <= Time[i]
          BY <1>2, <2>1, <4>1, <4>2 DEF Scan
        <4>4. Time[i] = Time[j]
          BY <1>4, <2>1, <4>2, <4>3
        <4> QED BY <1>2, <2>1, <4>1, <4>2, <4>4 DEF Settled, PassedOver, Scan
      <3> QED BY <3>1, <3>2
    <2> QED BY <2>1 DEF Behind
  <1>8. /\ h \in Gen /\ h.step = "emit" /\ h.mark = b.mark /\ h.on = b.on
        /\ h.todo = read /\ h.inbox = b.inbox /\ h.next = mark
    BY <1>1, <1>4, <1>5 DEF Gen, Step
  <1>9. Moves(g, h)
    BY <1>2, <1>3 DEF Moves, Scan, Inv, Typed
  <1> HIDE DEF h
  <1>10. More(reported, excused, reported', excused')
    BY <1>6 DEF More
  <1>11. Behind(b.mark, {}, logged, reported, excused')
    BY <1>1, <1>6, <1>10, BehindMore DEF Inv, Typed
  <1>12. Fits(h, kind, logged) /\ Covers(h, kind, logged, reported, excused')
    BY <1>1, <1>4, <1>7, <1>8, <1>11 DEF Fits, Covers
  <1> QED
    BY <1>1, <1>6, <1>8, <1>9, <1>10, <1>12, GoesOn DEF Inv, Typed, Session

LEMMA QueryFailsInv ==
  ASSUME Inv, NEW g \in Generation, QueryFails(g)
  PROVE  Inv'
  <1> DEFINE b == gens[g]
             h == [b EXCEPT !.step = "emit", !.next = b.mark]
  <1>1. /\ b # NoGen /\ b.step = "query" /\ b \in Gen /\ Fits(b, kind, logged)
        /\ kind = "browsing" /\ Behind(b.mark, {}, logged, reported, excused)
    BY DEF QueryFails, At, Live, Inv, Typed, Fits, CoverInv, Covers
  <1>2. b.todo = {}
    BY <1>1 DEF Fits
  <1>3. /\ h \in Gen /\ h.step = "emit" /\ h.mark = b.mark /\ h.on = b.on
        /\ h.todo = b.todo /\ h.inbox = b.inbox /\ h.next = b.mark
    BY <1>1 DEF Gen, Step
  <1>4. Moves(g, h)
    <2>1. After("query") = "emit"
      BY DEF After
    <2> QED BY <2>1 DEF QueryFails, Moves
  <1> HIDE DEF h
  <1>5. Fits(h, kind, logged) /\ Covers(h, kind, logged, reported, excused)
    BY <1>1, <1>2, <1>3 DEF Fits, Covers
  <1>6. faults' \in Nat /\ UNCHANGED <<kind, logged, saved, reported, excused, overlapped, starts>>
    BY DEF QueryFails, Fault, Inv, Typed
  <1> QED
    BY <1>1, <1>3, <1>4, <1>5, <1>6, GoesOn DEF Inv, Typed, More, Held

LEMMA SaveInv ==
  ASSUME Inv, NEW g \in Generation, Save(g)
  PROVE  Inv'
  <1> DEFINE b == gens[g]
             h == [b EXCEPT !.step = "idle", !.mark = 0, !.next = 0]
  <1>1. /\ b # NoGen /\ b.step = "save" /\ b \in Gen /\ Fits(b, kind, logged)
        /\ kind = "browsing" /\ Behind(b.next, b.todo, logged, reported, excused)
        /\ b.todo = {} /\ b.next \in Nat
    BY DEF Save, At, Live, Inv, Typed, Fits, CoverInv, Covers, Gen
  <1>2. /\ saved' \in Nat /\ (saved' = saved \/ Behind(saved', {}, logged, reported, excused))
        /\ faults' \in Nat /\ UNCHANGED <<kind, logged, reported, excused, overlapped, starts>>
    <2>1. Behind(b.next, {}, logged, reported, excused)
      BY <1>1
    <2>2. saved' = saved \/ saved' = b.next
      BY DEF Save
    <2>3. faults' \in Nat /\ UNCHANGED <<kind, logged, reported, excused, overlapped, starts>>
      BY DEF Save, Fault, Inv, Typed
    <2>4. saved \in Nat
      BY DEF Inv, Typed
    <2> QED BY <1>1, <2>1, <2>2, <2>3, <2>4
  <1>3. /\ h \in Gen /\ h.step = "idle" /\ h.on = b.on /\ h.todo = {} /\ h.inbox = b.inbox
    BY <1>1 DEF Gen, Step
  <1>4. Moves(g, h)
    <2>1. After("save") = "idle"
      BY <1>1 DEF After
    <2> QED BY <2>1 DEF Save, Moves
  <1> HIDE DEF h
  <1>5. Fits(h, kind, logged) /\ Covers(h, kind, logged, reported, excused)
    BY <1>1, <1>3 DEF Fits, Covers
  <1> QED
    BY <1>1, <1>2, <1>3, <1>4, <1>5, GoesOn DEF Inv, Typed, More, Session

-----------------------------------------------------------------------------
(* seclog *)

LEMMA SeedInv ==
  ASSUME Inv, NEW g \in Generation, Seed(g)
  PROVE  Inv'
  <1> DEFINE b == gens[g]
  <1>1. /\ b # NoGen /\ b.step = "seed" /\ b \in Gen /\ Fits(b, kind, logged)
        /\ kind = "seclog" /\ Covers(b, kind, logged, reported, excused)
    BY DEF Seed, At, Live, Inv, Typed, Fits, CoverInv
  <1>2. /\ faults' \in Nat /\ excused \subseteq excused' /\ excused' \subseteq 1..logged
        /\ UNCHANGED <<kind, logged, saved, reported, overlapped, starts>>
    BY DEF Seed, Fault, Inv, Typed
  <1>3. More(reported, excused, reported', excused')
    BY <1>2 DEF More
  <1>4. Covers(b, kind, logged, reported, excused')
    BY <1>1, <1>2, <1>3, CoversMore DEF Inv, Typed
  <1>5. CASE /\ gens' = [gens EXCEPT ![g].step = "idle", ![g].mark = logged]
             /\ excused' = excused \union {i \in 1..logged : reported[i] = 0}
    <2> DEFINE h == [b EXCEPT !.step = "idle", !.mark = logged]
    <2>0. logged \in Nat /\ "idle" \in Step
      BY CollectorsAssumption DEF Step, Inv, Typed
    <2>1. /\ h \in Gen /\ h.step = "idle" /\ h.mark = logged /\ h.on = b.on
          /\ h.todo = b.todo /\ h.inbox = b.inbox
      BY <1>1, <2>0 DEF Gen
    <2>2. Moves(g, h)
      BY <1>5 DEF Moves, Inv, Typed
    <2> HIDE DEF h
    <2>3. \A i \in 1..logged : Settled(i, reported, excused')
      <3>1. \A i \in 1..logged : reported[i] \in Nat
        BY CollectorsAssumption DEF Inv, Typed, Item
      <3> QED BY <1>5, <3>1 DEF Settled
    <2>4. Fits(h, kind, logged) /\ Covers(h, kind, logged, reported, excused')
      BY <1>1, <2>1, <2>3 DEF Fits, Covers, Inv, Typed
    <2> QED
      BY <1>1, <1>2, <1>3, <2>1, <2>2, <2>4, GoesOn DEF Inv, Typed, Session
  <1>6. CASE gens' = [gens EXCEPT ![g].step = "idle"]
    <2> DEFINE h == [b EXCEPT !.step = "idle"]
    <2>1. /\ h \in Gen /\ h.step = "idle" /\ h.mark = b.mark /\ h.on = b.on
          /\ h.todo = b.todo /\ h.inbox = b.inbox
      BY <1>1 DEF Gen, Step
    <2>2. Moves(g, h)
      BY <1>6 DEF Moves
    <2> HIDE DEF h
    <2>3. Fits(h, kind, logged) /\ Covers(h, kind, logged, reported, excused')
      BY <1>1, <1>4, <2>1 DEF Fits, Covers
    <2> QED
      BY <1>1, <1>2, <1>3, <2>1, <2>2, <2>3, GoesOn DEF Inv, Typed, Session
  <1> QED BY <1>5, <1>6 DEF Seed

\* The records a poll finds are reported, but for those beyond the limit.
LEMMA PollInv ==
  ASSUME Inv, NEW g \in Generation, Poll(g)
  PROVE  Inv'
  <1> DEFINE b == gens[g]
             read == NewestRecords(g)
             h == [b EXCEPT !.step = "emit", !.todo = read, !.next = logged]
  <1>1. /\ b # NoGen /\ b.step = "idle" /\ b \in Gen /\ Fits(b, kind, logged)
        /\ kind = "seclog" /\ Covers(b, kind, logged, reported, excused)
        /\ b.mark \in Nat /\ logged \in Nat /\ logged <= MaxLogged
    BY CollectorsAssumption DEF Poll, At, Live, Inv, Typed, Fits, CoverInv, Gen
  <1>2. /\ excused \subseteq excused' /\ excused' \subseteq 1..logged
        /\ \A i \in (b.mark + 1)..logged : i \in read \/ i \in excused'
        /\ UNCHANGED <<kind, logged, saved, reported, overlapped, starts, faults>>
    <2>1. /\ excused' = excused \union {i \in (b.mark + 1)..logged : i + Limit <= logged}
          /\ UNCHANGED <<kind, logged, saved, reported, overlapped, starts, faults>>
      BY DEF Poll
    <2>2. excused \subseteq 1..logged
      BY DEF Inv, Typed
    <2>3. \A i \in (b.mark + 1)..logged : i + Limit > logged \/ i + Limit <= logged
      BY <1>1, CollectorsAssumption
    <2>4. (b.mark + 1)..logged \subseteq 1..logged
      BY <1>1
    <2>5. \A i \in (b.mark + 1)..logged : i \in read \/ i \in excused'
      BY <2>1, <2>3 DEF NewestRecords
    <2>6. excused' \subseteq 1..logged
      BY <2>1, <2>2, <2>4
    <2> QED BY <2>1, <2>5, <2>6
  <1>3. More(reported, excused, reported', excused')
    BY <1>2 DEF More
  <1>4. Covers(b, kind, logged, reported, excused')
    BY <1>1, <1>2, <1>3, CoversMore DEF Inv, Typed
  <1>5. read \subseteq 1..logged /\ read \subseteq Item
    BY <1>1, CollectorsAssumption DEF NewestRecords, Item
  <1>6. /\ h \in Gen /\ h.step = "emit" /\ h.mark = b.mark /\ h.on = b.on
        /\ h.todo = read /\ h.inbox = b.inbox /\ h.next = logged
    BY <1>1, <1>5 DEF Gen, Step
  <1>7. Moves(g, h)
    BY DEF Poll, Moves, Inv, Typed
  <1> HIDE DEF h, read
  <1>8. \A i \in 1..logged : Settled(i, reported, excused') \/ i \in read
    BY <1>1, <1>2, <1>4 DEF Covers, Settled
  <1>9. Fits(h, kind, logged) /\ Covers(h, kind, logged, reported, excused')
    BY <1>1, <1>4, <1>5, <1>6, <1>8 DEF Fits, Covers
  <1> QED
    BY <1>1, <1>2, <1>3, <1>6, <1>7, <1>9, GoesOn DEF Inv, Typed, Session

-----------------------------------------------------------------------------
(* Sessions, and emitting *)

LEMMA TakeInv ==
  ASSUME Inv, NEW g \in Generation, Take(g)
  PROVE  Inv'
  <1> DEFINE b == gens[g]
             step == IF kind = "dns" THEN "emit" ELSE "idle"
  <1>1. /\ b # NoGen /\ b.step = "idle" /\ b \in Gen /\ Fits(b, kind, logged) /\ Session
    BY DEF Take, At, Live, Inv, Typed, Fits
  <1>2. PICK i \in b.inbox :
          gens' = [gens EXCEPT ![g].inbox = @ \ {i}, ![g].todo = @ \union {i}, ![g].step = step]
    BY DEF Take
  <1> DEFINE h == [b EXCEPT !.inbox = @ \ {i}, !.todo = @ \union {i}, !.step = step]
  <1>3. i \in 1..logged /\ i \in Item
    BY <1>1, <1>2, CollectorsAssumption DEF Fits, Inv, Typed, Item
  <1>4. /\ step \in {"emit", "idle"} /\ step \in Step
        /\ step = "idle" => kind = "netflow"
    BY <1>1 DEF Step, Session
  <1> HIDE DEF step
  <1>5. /\ h \in Gen /\ h.step = step /\ h.on = b.on
        /\ h.inbox = b.inbox \ {i} /\ h.todo = b.todo \union {i}
    BY <1>1, <1>3, <1>4 DEF Gen
  <1>6. Moves(g, h)
    BY <1>2 DEF Moves, Inv, Typed
  <1> HIDE DEF h
  <1>7. Fits(h, kind, logged) /\ Covers(h, kind, logged, reported, excused)
    BY <1>1, <1>3, <1>4, <1>5 DEF Fits, Covers, Session
  <1>8. UNCHANGED <<kind, logged, saved, reported, excused, overlapped, starts, faults>>
    BY DEF Take
  <1>9. \A j \in Held(g) : j \in h.todo \union h.inbox
    BY <1>5 DEF Held
  <1> QED
    BY <1>1, <1>5, <1>6, <1>7, <1>8, <1>9, GoesOn DEF Inv, Typed, More

LEMMA TickInv ==
  ASSUME Inv, NEW g \in Generation, Tick(g)
  PROVE  Inv'
  <1> DEFINE b == gens[g]
             h == [b EXCEPT !.step = "emit"]
  <1>1. /\ b # NoGen /\ b \in Gen /\ Fits(b, kind, logged) /\ kind = "netflow"
    BY DEF Tick, At, Live, Inv, Typed, Fits
  <1>2. /\ h \in Gen /\ h.step = "emit" /\ h.on = b.on /\ h.inbox = b.inbox
        /\ h.todo = b.todo
    BY <1>1 DEF Gen, Step
  <1>3. Moves(g, h)
    BY DEF Tick, Moves
  <1> HIDE DEF h
  <1>4. Fits(h, kind, logged) /\ Covers(h, kind, logged, reported, excused)
    BY <1>1, <1>2 DEF Fits, Covers
  <1>5. \A j \in Held(g) : j \in h.todo \union h.inbox
    BY <1>2 DEF Held
  <1> QED
    BY <1>1, <1>2, <1>3, <1>4, <1>5, GoesOn DEF Tick, Inv, Typed, More

LEMMA EmitInv ==
  ASSUME Inv, NEW g \in Generation, Emit(g)
  PROVE  Inv'
  <1> DEFINE b == gens[g]
  <1>1. /\ b # NoGen /\ b.step \in {"emit", "flush"} /\ b \in Gen /\ Fits(b, kind, logged)
        /\ Covers(b, kind, logged, reported, excused)
    BY DEF Emit, Emits, At, Live, Inv, Typed, Fits, CoverInv
  <1>2. PICK i \in Item :
          /\ i \in b.todo
          /\ reported' = [reported EXCEPT ![i] = IF @ = 2 THEN 2 ELSE @ + 1]
          /\ gens' = [gens EXCEPT ![g].todo = @ \ {i}]
    BY DEF Emit, IsNext
  <1> DEFINE h == [b EXCEPT !.todo = @ \ {i}]
  <1>3. UNCHANGED <<kind, logged, saved, excused, overlapped, starts, faults>>
    BY DEF Emit
  <1>4. /\ reported' \in [Item -> 0..2] /\ reported'[i] > 0
        /\ \A j \in Item : j # i => reported'[j] = reported[j]
    BY <1>2 DEF Inv, Typed
  <1>5. /\ More(reported, excused, reported', excused')
        /\ \A j \in Item : reported'[j] > 0 => j <= logged
    BY <1>1, <1>2, <1>3, <1>4 DEF More, Inv, Typed, Fits
  <1>6. /\ h \in Gen /\ h.step = b.step /\ h.on = b.on /\ h.inbox = b.inbox
        /\ h.todo = b.todo \ {i} /\ h.mark = b.mark /\ h.next = b.next
    BY <1>1 DEF Gen
  <1>7. Moves(g, h)
    BY <1>2 DEF Moves
  <1> HIDE DEF h
  <1>8. Covers(b, kind, logged, reported', excused)
    BY <1>1, <1>3, <1>5, CoversMore DEF Inv, Typed
  <1>9. Fits(h, kind, logged) /\ Covers(h, kind, logged, reported', excused)
    <2>1. Fits(h, kind, logged)
      BY <1>1, <1>6 DEF Fits
    <2>2. Settled(i, reported', excused)
      BY <1>4 DEF Settled
    <2>3. kind = "browsing" /\ h.step = "emit" => Behind(h.next, h.todo, logged, reported', excused)
      BY <1>1, <1>4, <1>6, <1>8, <2>2 DEF Behind, Covers
    <2>4. kind = "seclog" /\ h.step = "emit" =>
            h.next <= logged /\ \A j \in 1..h.next : Settled(j, reported', excused) \/ j \in h.todo
      BY <1>6, <1>8, <2>2 DEF Covers
    <2> QED BY <1>1, <1>6, <1>8, <2>1, <2>3, <2>4 DEF Covers
  <1>10. \A j \in Held(g) : j \in h.todo \union h.inbox \/ Settled(j, reported', excused)
    BY <1>4, <1>6 DEF Held, Settled
  <1> QED
    BY <1>1, <1>3, <1>4, <1>5, <1>6, <1>7, <1>9, <1>10, GoesOn DEF Inv, Typed

LEMMA EmittedInv ==
  ASSUME Inv, NEW g \in Generation, Emitted(g)
  PROVE  Inv'
  <1> DEFINE b == gens[g]
             step == After("emit")
             h == [b EXCEPT !.step = step, !.mark = b.next]
  <1>1. /\ b # NoGen /\ b.step \in {"emit", "flush"} /\ b \in Gen /\ Fits(b, kind, logged)
        /\ Covers(b, kind, logged, reported, excused) /\ b.todo = {}
        /\ UNCHANGED <<kind, logged, saved, reported, excused, overlapped, starts, faults>>
    BY DEF Emitted, Emits, At, Live, Inv, Typed, Fits, CoverInv
  <1>2. CASE b.step = "flush"
    <2>1. Moves(g, NoGen)
      BY <1>1, <1>2 DEF Emitted, Moves, At
    <2>2. Held(g) = {}
      BY <1>1, <1>2 DEF Fits, Held
    <2> QED BY <1>1, <2>1, <2>2, Ends DEF Inv, Typed
  <1>3. CASE b.step = "emit"
    <2>1. step = IF kind = "browsing" THEN "save" ELSE "idle"
      BY DEF After
    <2>2. /\ step \in Step /\ step \in {"save", "idle"}
          /\ step = "save" <=> kind = "browsing"
      BY <2>1 DEF Step
    <2>3. Moves(g, h)
      BY <1>1, <1>3 DEF Emitted, Moves, At
    <2> HIDE DEF step
    <2>4. /\ h \in Gen /\ h.step = step /\ h.on = b.on /\ h.inbox = b.inbox
          /\ h.todo = {} /\ h.mark = b.next /\ h.next = b.next
      BY <1>1, <2>2 DEF Gen
    <2> HIDE DEF h
    <2>5. Fits(h, kind, logged) /\ Covers(h, kind, logged, reported, excused)
      BY <1>1, <1>3, <2>2, <2>4 DEF Fits, Covers
    <2>6. \A j \in Held(g) : j \in h.todo \union h.inbox
      BY <1>1, <2>4 DEF Held
    <2> QED
      BY <1>1, <2>3, <2>4, <2>5, <2>6, GoesOn DEF Inv, Typed, More
  <1> QED BY <1>1, <1>2, <1>3

-----------------------------------------------------------------------------
LEMMA InvInit == Init => Inv
  <1> SUFFICES ASSUME Init PROVE CoverInv
    BY TypedInit DEF Inv
  <1>1. Behind(saved, {}, logged, reported, excused) /\ Live = {} /\ logged = 0
    BY DEF Init, Behind, Live
  <1> QED BY <1>1 DEF CoverInv

LEMMA InvNext == Inv /\ [Next]_vars => Inv'
  <1> SUFFICES ASSUME Inv, [Next]_vars PROVE Inv'
    OBVIOUS
  <1>1. CASE UNCHANGED vars
    BY <1>1 DEF vars, Inv, Typed, CoverInv, Live, Session, Held
  <1>2. ASSUME NEW g \in Generation, Works(g) PROVE Inv'
    BY <1>2, LoadInv, QueryInv, QueryFailsInv, SaveInv, SeedInv, PollInv, TakeInv, TickInv, EmitInv,
       EmittedInv DEF Works
  <1>3. ASSUME NEW g \in Generation, Start(g) \/ Cancel(g) \/ Return(g) PROVE Inv'
    BY <1>3, StartInv, CancelInv, ReturnInv
  <1> QED BY <1>1, <1>2, <1>3, LogInv, HappenInv, CrashInv DEF Next

LEMMA Always == Spec => []Inv
  BY InvInit, InvNext, PTL DEF Spec

(* Types; and nothing is emitted or held that is not in the source, and one *)
(* generation at most is not cancelled, however many are still at work.    *)
THEOREM TypeCorrect == Spec => []TypeOK
  BY Always, TypedImplies, PTL DEF Inv

(* An item that is behind the saved mark of browsing, behind a cursor of    *)
(* seclog or no longer held by a session was reported, or excused: crashes, *)
(* unreadable and unsaved marks and generations that overlap included.     *)
THEOREM NothingIsPassedOver == Spec => []NothingPassedOver
  <1>1. Inv => NothingPassedOver
    <2> SUFFICES ASSUME Inv, NEW i \in (1..logged) \ excused, reported[i] = 0
                 PROVE  CASE kind = "browsing" -> Time[i] > saved
                          [] kind = "seclog"   -> \A g \in Live : i > gens[g].mark
                          [] OTHER             -> \E g \in Live : i \in Held(g)
      BY DEF NothingPassedOver
    <2>1. i \in Item /\ Time[i] \in Nat /\ saved \in Nat
      BY CollectorsAssumption DEF Inv, Typed, Item
    <2>2. CASE kind = "browsing"
      BY <2>1, <2>2 DEF Inv, CoverInv, Behind, Settled
    <2>3. CASE kind = "seclog"
      <3>1. ASSUME NEW g \in Live PROVE i > gens[g].mark
        <4>1. gens[g].mark \in Nat
          BY DEF Live, Inv, Typed, Fits, Gen
        <4> QED BY <2>3, <4>1 DEF Inv, CoverInv, Covers, Settled
      <3> QED BY <2>3, <3>1
    <2>4. CASE kind \notin {"browsing", "seclog"}
      <3>1. \E g \in Live : i \in Held(g)
        BY <2>4 DEF Inv, CoverInv, Session, Typed, Kind
      <3> QED BY <2>4, <3>1
    <2> QED BY <2>2, <2>3, <2>4
  <1> QED BY <1>1, Always, PTL

-----------------------------------------------------------------------------
(* Once each, while nothing fails and no generations overlap *)

\* What a generation is about to emit, or its session holds for it, was not reported,
\* and what was reported is not after the mark it will look from next.
Fresh(h, k, s, rep) ==
  /\ \A i \in h.todo \union h.inbox : rep[i] = 0
  /\ h.todo \intersect h.inbox = {}
  /\ k = "browsing" /\ h.step = "query" => h.mark = s
  /\ k = "browsing" /\ h.step \in {"idle", "query"} =>
       \A i \in Item : rep[i] > 0 => Time[i] <= s
  /\ k = "browsing" /\ h.step \in {"emit", "save"} =>
       \A i \in Item : rep[i] > 0 \/ i \in h.todo => Time[i] <= h.next
  /\ k = "seclog" /\ h.step = "idle" => \A i \in Item : rep[i] > 0 => i <= h.mark
  /\ k = "seclog" /\ h.step = "emit" =>
       \A i \in Item : rep[i] > 0 \/ i \in h.todo => i <= h.next

Quiet == faults = 0 /\ ~overlapped

OnceInv ==
  /\ \A g, h \in Live : g = h
  /\ \A i \in Item : reported[i] <= 1
  /\ \A g \in Live : Fresh(gens[g], kind, saved, reported)
  /\ kind = "browsing" /\ Live = {} => \A i \in Item : reported[i] > 0 => Time[i] <= saved

QuietInv == Quiet => OnceInv

\* A generation goes on, alone.
LEMMA OnceGoes ==
  ASSUME Inv, OnceInv, NEW g \in Generation, gens[g] # NoGen, NEW h, h # NoGen, Moves(g, h),
         kind' = kind, \A i \in Item : reported'[i] <= 1, Fresh(h, kind, saved', reported')
  PROVE  OnceInv'
  <1>1. Live = {g}
    BY DEF OnceInv, Live
  <1>2. \A f \in Generation : gens'[f] = IF f = g THEN h ELSE NoGen
    BY <1>1 DEF Moves, Inv, Typed, Live
  <1>3. Live' = {g}
    BY <1>2 DEF Live
  <1> QED BY <1>2, <1>3 DEF OnceInv

\* A generation ends, or none begins: what was reported is not after the saved mark.
LEMMA OnceNone ==
  ASSUME OnceInv, Live' = {}, UNCHANGED <<kind, saved, reported>>,
         kind = "browsing" => \A i \in Item : reported[i] > 0 => Time[i] <= saved
  PROVE  OnceInv'
  BY DEF OnceInv

\* What a generation at work has.
LEMMA OnceHas ==
  ASSUME Inv, OnceInv, NEW g \in Generation, gens[g] # NoGen
  PROVE  /\ gens[g] \in Gen /\ Fits(gens[g], kind, logged)
         /\ Fresh(gens[g], kind, saved, reported) /\ \A f \in Live : f = g
         /\ \A i \in Item : reported[i] \in Nat /\ reported[i] <= 1 /\ Time[i] \in Nat
         /\ logged \in Nat /\ saved \in Nat
  <1>1. g \in Live
    BY DEF Live
  <1>2. Fits(gens[g], kind, logged) /\ gens[g] \in Gen
    BY DEF Inv, Typed, Fits
  <1>3. Fresh(gens[g], kind, saved, reported) /\ \A f \in Live : f = g
    BY <1>1 DEF OnceInv
  <1>4. \A i \in Item : reported[i] \in Nat /\ reported[i] <= 1
    BY DEF OnceInv, Inv, Typed
  <1>5. /\ \A i \in Item : Time[i] \in Nat
        /\ logged \in Nat /\ saved \in Nat
    BY CollectorsAssumption DEF Inv, Typed, Item
  <1> QED BY <1>2, <1>3, <1>4, <1>5

LEMMA HappenOnce ==
  ASSUME Inv, OnceInv, Happen
  PROVE  OnceInv'
  <1> DEFINE i == logged + 1
  <1>1. /\ i \in Item /\ Session /\ UNCHANGED <<kind, saved, reported>>
    BY DEF Happen
  <1>2. kind \notin {"browsing", "seclog"}
    BY <1>1 DEF Session
  <1>3. CASE UNCHANGED gens
    BY <1>1, <1>3 DEF OnceInv, Live
  <1>4. ASSUME NEW g \in Listening, gens' = [gens EXCEPT ![g].inbox = @ \union {i}]
        PROVE  OnceInv'
    <2> DEFINE b == gens[g]
               h == [b EXCEPT !.inbox = @ \union {i}]
    <2>1. g \in Generation /\ b # NoGen
      BY <1>4 DEF Listening, Live
    <2>2. /\ b \in Gen /\ Fits(b, kind, logged) /\ Fresh(b, kind, saved, reported)
          /\ logged \in Nat /\ \A j \in Item : reported[j] \in Nat
      BY <2>1, OnceHas
    <2>3. h \in Gen /\ h.todo = b.todo /\ h.inbox = b.inbox \union {i}
      BY <1>1, <2>2 DEF Gen
    <2>4. Moves(g, h)
      BY <1>4 DEF Moves, Inv, Typed
    <2> HIDE DEF h
    <2>5. reported[i] = 0
      <3>1. ~(reported[i] > 0)
        BY <1>1, <2>2 DEF Inv, Typed
      <3> QED BY <1>1, <2>2, <3>1
    <2>6. i \notin b.todo
      BY <2>2 DEF Fits
    <2>7. Fresh(h, kind, saved, reported)
      BY <1>2, <2>2, <2>3, <2>5, <2>6 DEF Fresh
    <2> QED BY <1>1, <2>1, <2>3, <2>4, <2>7, NoGenIsNone, OnceGoes DEF OnceInv
  <1> QED BY <1>3, <1>4 DEF Happen

LEMMA StartOnce ==
  ASSUME Inv, OnceInv, NEW g \in Generation, Start(g), ~overlapped'
  PROVE  OnceInv'
  <1> DEFINE first == IF kind = "seclog" THEN "seed" ELSE "idle"
             h == [step |-> first, on |-> TRUE, mark |-> 0, next |-> 0, todo |-> {},
                   inbox |-> {}]
  <1>1. gens[g] = NoGen /\ gens' = [gens EXCEPT ![g] = h] /\ UNCHANGED <<kind, saved, reported>>
    BY DEF Start
  <1>2. Live = {}
    BY Zenon DEF Start
  <1>3. \A f \in Generation : gens'[f] = IF f = g THEN h ELSE NoGen
    BY <1>1, <1>2 DEF Inv, Typed, Live
  <1>4. h.todo = {} /\ h.inbox = {} /\ h.step = first /\ (first = "idle" => kind # "seclog")
        /\ first \in {"seed", "idle"} /\ (first = "seed" => kind = "seclog")
    OBVIOUS
  <1>5. kind = "browsing" => \A i \in Item : reported[i] > 0 => Time[i] <= saved
    BY <1>2 DEF OnceInv
  <1> HIDE DEF h, first
  <1>6. Fresh(h, kind, saved, reported)
    BY <1>4, <1>5 DEF Fresh
  <1>7. \A f \in Live' : f = g /\ gens'[f] = h
    BY <1>3 DEF Live
  <1>8. g \in Live'
    <2>1. h \in Gen \/ h # NoGen
      BY <1>4 DEF NoGen
    <2>2. h # NoGen
      BY <1>4 DEF NoGen
    <2> QED BY <1>3, <2>2 DEF Live
  <1> QED BY <1>1, <1>6, <1>7, <1>8 DEF OnceInv

LEMMA CancelOnce ==
  ASSUME Inv, OnceInv, NEW g \in Generation, Cancel(g)
  PROVE  OnceInv'
  <1> DEFINE b == gens[g]
             h == [b EXCEPT !.on = FALSE]
  <1>1. b # NoGen /\ UNCHANGED <<kind, saved, reported>>
    BY DEF Cancel, Live
  <1>2. b \in Gen /\ Fresh(b, kind, saved, reported)
    BY <1>1, OnceHas
  <1>3. /\ h \in Gen /\ h.step = b.step /\ h.mark = b.mark /\ h.next = b.next
        /\ h.todo = b.todo /\ h.inbox = b.inbox
    BY <1>2 DEF Gen
  <1>4. Moves(g, h)
    BY DEF Cancel, Moves, Inv, Typed
  <1> HIDE DEF h
  <1>5. Fresh(h, kind, saved, reported)
    BY <1>2, <1>3 DEF Fresh
  <1> QED BY <1>1, <1>3, <1>4, <1>5, NoGenIsNone, OnceGoes DEF OnceInv

LEMMA ReturnOnce ==
  ASSUME Inv, OnceInv, NEW g \in Generation, Return(g)
  PROVE  OnceInv'
  <1> DEFINE b == gens[g]
             h == [b EXCEPT !.step = "flush", !.inbox = {}]
  <1>1. /\ b # NoGen /\ b.step = "idle" /\ UNCHANGED <<kind, saved, reported>>
    BY DEF Return, SeesCancelled, At
  <1>2. b \in Gen /\ Fresh(b, kind, saved, reported) /\ \A f \in Live : f = g
    BY <1>1, OnceHas
  <1>3. CASE Counters(g) = {}
    <2>1. gens' = [gens EXCEPT ![g] = NoGen]
      BY <1>3 DEF Return
    <2>2. Live' = {}
      BY <1>2, <2>1 DEF Live, Inv, Typed
    <2>3. kind = "browsing" => \A i \in Item : reported[i] > 0 => Time[i] <= saved
      BY <1>1, <1>2 DEF Fresh
    <2> QED BY <1>1, <2>2, <2>3, OnceNone
  <1>4. CASE Counters(g) # {}
    <2>1. kind = "netflow"
      BY <1>4 DEF Counters
    <2>2. h \in Gen /\ h.step = "flush" /\ h.inbox = {} /\ h.todo = b.todo
      BY <1>2 DEF Gen, Step
    <2>3. Moves(g, h)
      BY <1>4 DEF Return, Moves
    <2> HIDE DEF h
    <2>4. Fresh(h, kind, saved, reported)
      BY <1>2, <2>1, <2>2 DEF Fresh
    <2> QED BY <1>1, <2>2, <2>3, <2>4, NoGenIsNone, OnceGoes DEF OnceInv
  <1> QED BY <1>3, <1>4

LEMMA LoadOnce ==
  ASSUME Inv, OnceInv, NEW g \in Generation, Load(g), faults' = faults
  PROVE  OnceInv'
  <1> DEFINE b == gens[g]
             h == [b EXCEPT !.step = "query", !.mark = saved]
  <1>1. b # NoGen /\ b.step = "idle" /\ kind = "browsing" /\ UNCHANGED <<kind, saved, reported>>
    BY DEF Load, At
  <1>2. b \in Gen /\ Fresh(b, kind, saved, reported) /\ saved \in Nat
    BY <1>1, OnceHas
  <1>3. faults' # faults + 1
    BY DEF Inv, Typed
  <1>4. gens' = [gens EXCEPT ![g].step = "query", ![g].mark = saved]
    BY <1>3 DEF Load, Fault
  <1>5. /\ h \in Gen /\ h.step = "query" /\ h.mark = saved
        /\ h.todo = b.todo /\ h.inbox = b.inbox
    BY <1>2 DEF Gen, Step
  <1>6. Moves(g, h)
    BY <1>4 DEF Moves, Inv, Typed
  <1> HIDE DEF h
  <1>7. Fresh(h, kind, saved, reported)
    BY <1>1, <1>2, <1>5 DEF Fresh
  <1> QED BY <1>1, <1>5, <1>6, <1>7, NoGenIsNone, OnceGoes DEF OnceInv

\* A scan reads what is after the mark, and its new mark is not before any of it.
LEMMA QueryOnce ==
  ASSUME Inv, OnceInv, NEW g \in Generation, Query(g)
  PROVE  OnceInv'
  <1> DEFINE b == gens[g]
  <1>1. b # NoGen /\ b.step = "query" /\ kind = "browsing" /\ UNCHANGED <<kind, saved, reported>>
    BY DEF Query, At
  <1>2. /\ b \in Gen /\ Fits(b, kind, logged) /\ Fresh(b, kind, saved, reported) /\ saved \in Nat
        /\ b.inbox = {} /\ b.mark = saved /\ b.mark \in Nat
        /\ \A i \in Item : reported[i] \in Nat /\ Time[i] \in Nat
    BY <1>1, OnceHas DEF Fits, Fresh, Gen
  <1>3. PICK from \in Nat, read \in SUBSET (1..logged), mark \in Nat :
          Scan(g, from, read, mark)
    BY <1>2, QueryScans
  <1> DEFINE h == [b EXCEPT !.step = "emit", !.todo = read, !.next = mark]
  <1>4. After("query") = "emit"
    BY DEF After
  <1>5. /\ read \subseteq Item /\ mark \in Nat
        /\ \A i \in read : Time[i] > saved /\ Time[i] <= mark
        /\ saved <= mark
    <2>1. 1..logged \subseteq Item
      BY CollectorsAssumption DEF Inv, Typed, Item
    <2>2. from \in Nat /\ mark \in Nat /\ saved <= from
      BY <1>2, <1>3, CollectorsAssumption DEF From, Scan
    <2>3. \A i \in read : i \in Item /\ Time[i] > saved /\ Time[i] <= mark
      BY <1>2, <1>3, <2>1, <2>2 DEF Newer, IsNewMark, Scan
    <2>4. saved <= mark
      <3>1. CASE read = {}
        BY <1>2, <1>3, <2>2, <3>1 DEF IsNewMark, Scan
      <3>2. CASE read # {}
        <4>1. PICK i \in read : TRUE
          BY <3>2
        <4> QED BY <1>2, <2>2, <2>3, <4>1
      <3> QED BY <3>1, <3>2
    <2> QED BY <2>2, <2>3, <2>4
  <1>6. /\ h \in Gen /\ h.step = "emit" /\ h.todo = read /\ h.inbox = {} /\ h.next = mark
    BY <1>2, <1>5 DEF Gen, Step
  <1>7. Moves(g, h)
    BY <1>3, <1>4 DEF Moves, Scan, Inv, Typed
  <1> HIDE DEF h
  <1>8. \A i \in Item : reported[i] > 0 => Time[i] <= saved
    BY <1>1, <1>2 DEF Fresh
  <1>9. ASSUME NEW i \in read PROVE reported[i] = 0
    <2>1. i \in Item /\ Time[i] \in Nat /\ Time[i] > saved /\ reported[i] \in Nat
      BY <1>2, <1>5
    <2>2. reported[i] > 0 => Time[i] <= saved
      BY <1>8, <2>1
    <2> QED BY <1>2, <2>1, <2>2
  <1>10. \A i \in Item : reported[i] > 0 \/ i \in read => Time[i] <= mark
    BY <1>2, <1>5, <1>8
  <1>11. Fresh(h, kind, saved, reported)
    BY <1>1, <1>6, <1>9, <1>10 DEF Fresh
  <1> QED BY <1>1, <1>6, <1>7, <1>11, NoGenIsNone, OnceGoes DEF OnceInv

LEMMA SaveOnce ==
  ASSUME Inv, OnceInv, NEW g \in Generation, Save(g), faults' = faults
  PROVE  OnceInv'
  <1> DEFINE b == gens[g]
             h == [b EXCEPT !.step = "idle", !.mark = 0, !.next = 0]
  <1>1. b # NoGen /\ b.step = "save" /\ kind = "browsing" /\ UNCHANGED <<kind, reported>>
    BY DEF Save, At
  <1>2. b \in Gen /\ Fits(b, kind, logged) /\ Fresh(b, kind, saved, reported)
    BY <1>1, OnceHas
  <1>3. saved' = b.next
    <2>1. faults' # faults + 1
      BY DEF Inv, Typed
    <2> QED BY <2>1 DEF Save, Fault
  <1>4. /\ h \in Gen /\ h.step = "idle" /\ h.todo = {} /\ h.inbox = {}
    BY <1>1, <1>2 DEF Gen, Step, Fits
  <1>5. Moves(g, h)
    <2>1. After("save") = "idle"
      BY <1>1 DEF After
    <2> QED BY <2>1 DEF Save, Moves
  <1> HIDE DEF h
  <1>6. Fresh(h, kind, saved', reported)
    BY <1>1, <1>2, <1>3, <1>4 DEF Fresh
  <1> QED BY <1>1, <1>4, <1>5, <1>6, NoGenIsNone, OnceGoes DEF OnceInv

LEMMA SeedOnce ==
  ASSUME Inv, OnceInv, NEW g \in Generation, Seed(g), faults' = faults
  PROVE  OnceInv'
  <1> DEFINE b == gens[g]
             h == [b EXCEPT !.step = "idle", !.mark = logged]
  <1>1. b # NoGen /\ b.step = "seed" /\ kind = "seclog" /\ UNCHANGED <<kind, saved, reported>>
    BY DEF Seed, At
  <1>2. b \in Gen /\ Fresh(b, kind, saved, reported) /\ logged \in Nat
    BY <1>1, OnceHas
  <1>3. gens' = [gens EXCEPT ![g].step = "idle", ![g].mark = logged]
    <2>1. faults' # faults + 1
      BY DEF Inv, Typed
    <2> QED BY <2>1 DEF Seed, Fault
  <1>4. /\ h \in Gen /\ h.step = "idle" /\ h.mark = logged
        /\ h.todo = b.todo /\ h.inbox = b.inbox
    BY <1>2 DEF Gen, Step
  <1>5. Moves(g, h)
    BY <1>3 DEF Moves, Inv, Typed
  <1> HIDE DEF h
  <1>6. \A i \in Item : reported[i] > 0 => i <= logged
    BY DEF Inv, Typed
  <1>7. Fresh(h, kind, saved, reported)
    BY <1>1, <1>2, <1>4, <1>6 DEF Fresh
  <1> QED BY <1>1, <1>4, <1>5, <1>7, NoGenIsNone, OnceGoes DEF OnceInv

LEMMA PollOnce ==
  ASSUME Inv, OnceInv, NEW g \in Generation, Poll(g)
  PROVE  OnceInv'
  <1> DEFINE b == gens[g]
             read == NewestRecords(g)
             h == [b EXCEPT !.step = "emit", !.todo = read, !.next = logged]
  <1>1. b # NoGen /\ b.step = "idle" /\ kind = "seclog" /\ UNCHANGED <<kind, saved, reported>>
    BY DEF Poll, At
  <1>2. /\ b \in Gen /\ Fits(b, kind, logged) /\ Fresh(b, kind, saved, reported)
        /\ b.inbox = {} /\ b.mark \in Nat /\ logged \in Nat
        /\ \A i \in Item : reported[i] \in Nat
    BY <1>1, OnceHas DEF Fits, Gen
  <1>3. read \subseteq Item /\ \A i \in read : i > b.mark /\ i <= logged
    <2>1. logged <= MaxLogged
      BY CollectorsAssumption DEF Inv, Typed
    <2>2. read \subseteq (b.mark + 1)..logged
      BY DEF NewestRecords
    <2>3. \A i \in (b.mark + 1)..logged : i \in 1..MaxLogged /\ i > b.mark /\ i <= logged
      BY <1>2, <2>1, CollectorsAssumption
    <2> QED BY <2>2, <2>3 DEF Item
  <1>4. \A i \in Item : reported[i] > 0 => i <= b.mark /\ i <= logged
    BY <1>1, <1>2 DEF Fresh, Inv, Typed
  <1>5. \A i \in read : reported[i] = 0
    <2>1. \A i \in read : i \in Nat /\ ~(i <= b.mark)
      BY <1>2, <1>3, CollectorsAssumption DEF Item
    <2> QED BY <1>2, <1>3, <1>4, <2>1
  <1>6. /\ h \in Gen /\ h.step = "emit" /\ h.todo = read /\ h.inbox = {} /\ h.next = logged
    BY <1>2, <1>3 DEF Gen, Step
  <1>7. Moves(g, h)
    BY DEF Poll, Moves, Inv, Typed
  <1> HIDE DEF h, read
  <1>8. Fresh(h, kind, saved, reported)
    BY <1>1, <1>3, <1>4, <1>5, <1>6 DEF Fresh
  <1> QED BY <1>1, <1>6, <1>7, <1>8, NoGenIsNone, OnceGoes DEF OnceInv

LEMMA TakeOnce ==
  ASSUME Inv, OnceInv, NEW g \in Generation, Take(g)
  PROVE  OnceInv'
  <1> DEFINE b == gens[g]
             step == IF kind = "dns" THEN "emit" ELSE "idle"
  <1>1. b # NoGen /\ Session /\ UNCHANGED <<kind, saved, reported>>
    BY DEF Take, At
  <1>2. b \in Gen /\ Fits(b, kind, logged) /\ Fresh(b, kind, saved, reported)
    BY <1>1, OnceHas
  <1>3. PICK i \in b.inbox :
          gens' = [gens EXCEPT ![g].inbox = @ \ {i}, ![g].todo = @ \union {i}, ![g].step = step]
    BY DEF Take
  <1> DEFINE h == [b EXCEPT !.inbox = @ \ {i}, !.todo = @ \union {i}, !.step = step]
  <1>4. i \in Item
    BY <1>2, <1>3, CollectorsAssumption DEF Fits, Inv, Typed, Item
  <1>5. step \in Step
    BY DEF Step
  <1> HIDE DEF step
  <1>6. h \in Gen /\ h.inbox = b.inbox \ {i} /\ h.todo = b.todo \union {i}
    BY <1>2, <1>4, <1>5 DEF Gen
  <1>7. Moves(g, h)
    BY <1>3 DEF Moves, Inv, Typed
  <1> HIDE DEF h
  <1>8. Fresh(h, kind, saved, reported)
    BY <1>1, <1>2, <1>3, <1>6 DEF Fresh, Session
  <1> QED BY <1>1, <1>6, <1>7, <1>8, NoGenIsNone, OnceGoes DEF OnceInv

LEMMA TickOnce ==
  ASSUME Inv, OnceInv, NEW g \in Generation, Tick(g)
  PROVE  OnceInv'
  <1> DEFINE b == gens[g]
             h == [b EXCEPT !.step = "emit"]
  <1>1. b # NoGen /\ kind = "netflow" /\ UNCHANGED <<kind, saved, reported>>
    BY DEF Tick, At
  <1>2. b \in Gen /\ Fresh(b, kind, saved, reported)
    BY <1>1, OnceHas
  <1>3. h \in Gen /\ h.inbox = b.inbox /\ h.todo = b.todo
    BY <1>2 DEF Gen, Step
  <1>4. Moves(g, h)
    BY DEF Tick, Moves
  <1> HIDE DEF h
  <1>5. Fresh(h, kind, saved, reported)
    BY <1>1, <1>2, <1>3 DEF Fresh
  <1> QED BY <1>1, <1>3, <1>4, <1>5, NoGenIsNone, OnceGoes DEF OnceInv

LEMMA EmitOnce ==
  ASSUME Inv, OnceInv, NEW g \in Generation, Emit(g)
  PROVE  OnceInv'
  <1> DEFINE b == gens[g]
  <1>1. /\ b # NoGen /\ b.step \in {"emit", "flush"} /\ UNCHANGED <<kind, saved>>
    BY DEF Emit, Emits, At
  <1>2. /\ b \in Gen /\ Fits(b, kind, logged) /\ Fresh(b, kind, saved, reported)
        /\ \A j \in Item : reported[j] \in Nat /\ reported[j] <= 1
    BY <1>1, OnceHas
  <1>3. PICK i \in Item :
          /\ i \in b.todo
          /\ reported' = [reported EXCEPT ![i] = IF @ = 2 THEN 2 ELSE @ + 1]
          /\ gens' = [gens EXCEPT ![g].todo = @ \ {i}]
    BY DEF Emit, IsNext
  <1> DEFINE h == [b EXCEPT !.todo = @ \ {i}]
  <1>4. reported[i] = 0 /\ i \notin b.inbox
    BY <1>2, <1>3 DEF Fresh
  <1>5. reported'[i] = 1 /\ \A j \in Item : j # i => reported'[j] = reported[j]
    BY <1>3, <1>4 DEF Inv, Typed
  <1>6. /\ h \in Gen /\ h.step = b.step /\ h.inbox = b.inbox /\ h.todo = b.todo \ {i}
        /\ h.next = b.next /\ h.mark = b.mark
    BY <1>2 DEF Gen
  <1>7. Moves(g, h)
    BY <1>3 DEF Moves
  <1> HIDE DEF h
  <1>8. h.todo \subseteq Item /\ h.inbox \subseteq Item
    BY <1>6 DEF Gen
  <1>9. \A j \in h.todo \union h.inbox : reported'[j] = 0
    BY <1>2, <1>4, <1>5, <1>6, <1>8 DEF Fresh
  <1>10. \A j \in Item : reported'[j] > 0 \/ j \in h.todo => reported[j] > 0 \/ j \in b.todo
    BY <1>3, <1>5, <1>6
  <1>11. Fresh(h, kind, saved, reported')
    BY <1>1, <1>2, <1>6, <1>9, <1>10 DEF Fresh
  <1>12. \A j \in Item : reported'[j] <= 1
    BY <1>2, <1>5
  <1> QED BY <1>1, <1>6, <1>7, <1>11, <1>12, NoGenIsNone, OnceGoes

LEMMA EmittedOnce ==
  ASSUME Inv, OnceInv, NEW g \in Generation, Emitted(g)
  PROVE  OnceInv'
  <1> DEFINE b == gens[g]
             step == After("emit")
             h == [b EXCEPT !.step = step, !.mark = b.next]
  <1>1. /\ b # NoGen /\ b.step \in {"emit", "flush"} /\ b.todo = {}
        /\ UNCHANGED <<kind, saved, reported>>
    BY DEF Emitted, Emits, At
  <1>2. /\ b \in Gen /\ Fits(b, kind, logged) /\ Fresh(b, kind, saved, reported)
        /\ \A f \in Live : f = g
    BY <1>1, OnceHas
  <1>3. CASE b.step = "flush"
    <2>1. gens' = [gens EXCEPT ![g] = NoGen]
      BY <1>1, <1>3 DEF Emitted, At
    <2>2. Live' = {}
      BY <1>2, <2>1 DEF Live, Inv, Typed
    <2>3. kind # "browsing"
      BY <1>2, <1>3 DEF Fits
    <2> QED BY <1>1, <2>2, <2>3, OnceNone
  <1>4. CASE b.step = "emit"
    <2>1. step = IF kind = "browsing" THEN "save" ELSE "idle"
      BY DEF After
    <2>2. step \in Step
      BY <2>1 DEF Step
    <2>3. Moves(g, h)
      BY <1>1, <1>4 DEF Emitted, Moves, At
    <2> HIDE DEF step
    <2>4. /\ h \in Gen /\ h.step = step /\ h.inbox = b.inbox /\ h.todo = {}
          /\ h.mark = b.next /\ h.next = b.next
      BY <1>1, <1>2, <2>2 DEF Gen
    <2> HIDE DEF h
    <2>5. Fresh(h, kind, saved, reported)
      BY <1>1, <1>2, <1>4, <2>1, <2>4 DEF Fresh
    <2> QED BY <1>1, <2>3, <2>4, <2>5, NoGenIsNone, OnceGoes DEF OnceInv
  <1> QED BY <1>1, <1>3, <1>4

LEMMA QuietNext == Inv /\ QuietInv /\ [Next]_vars => QuietInv'
  <1> SUFFICES ASSUME Inv, QuietInv, [Next]_vars, Quiet' PROVE OnceInv'
    BY DEF QuietInv
  <1>1. faults' \in Nat /\ faults \in Nat /\ faults' = 0 /\ ~overlapped'
    <2>1. faults' = 0 /\ ~overlapped'
      BY DEF Quiet
    <2>2. faults \in Nat
      BY DEF Inv, Typed
    <2> QED BY <2>1, <2>2
  <1>2. faults' = faults \/ faults' = faults + 1
    <2>1. CASE Log \/ Happen \/ Crash \/ UNCHANGED vars
      BY <2>1 DEF Log, Happen, Crash, Fault, vars
    <2>2. ASSUME NEW g \in Generation, Start(g) \/ Cancel(g) \/ Return(g)
          PROVE  faults' = faults \/ faults' = faults + 1
      BY <2>2 DEF Start, Cancel, Return, Fault
    <2>3. ASSUME NEW g \in Generation, Load(g) \/ Query(g) \/ QueryFails(g) \/ Save(g)
                                      \/ Seed(g) \/ Poll(g)
          PROVE  faults' = faults \/ faults' = faults + 1
      BY <2>3 DEF Load, Query, QueryFails, Save, Seed, Poll, Fault
    <2>4. ASSUME NEW g \in Generation, Take(g) \/ Tick(g) \/ Emit(g) \/ Emitted(g)
          PROVE  faults' = faults
      BY <2>4 DEF Take, Tick, Emit, Emitted
    <2> QED BY <2>1, <2>2, <2>3, <2>4 DEF Next, Works
  <1>3. faults' = faults /\ faults = 0
    BY <1>1, <1>2
  <1>4. ~overlapped
    <2>1. overlapped => overlapped'
      BY Zenon DEF Next, Works, Log, Happen, Crash, Start, Cancel, Return, Load, Query,
               QueryFails, Save, Seed, Poll, Take, Tick, Emit, Emitted, vars
    <2> QED BY <1>1, <2>1, Zenon
  <1>5. OnceInv
    BY <1>3, <1>4 DEF QuietInv, Quiet
  <1>6. CASE UNCHANGED vars
    BY <1>5, <1>6 DEF vars, OnceInv, Live
  <1>7. CASE Log
    BY <1>5, <1>7 DEF Log, OnceInv, Live
  <1>8. CASE Crash
    BY <1>1, <1>3, <1>8 DEF Crash, Fault
  <1>9. ASSUME NEW g \in Generation, Works(g) PROVE OnceInv'
    <2>1. ~QueryFails(g)
      BY <1>3 DEF QueryFails, Fault
    <2> QED BY <1>3, <1>5, <1>9, <2>1, LoadOnce, QueryOnce, SaveOnce, SeedOnce, PollOnce, TakeOnce, TickOnce,
       EmitOnce, EmittedOnce DEF Works
  <1>10. ASSUME NEW g \in Generation, Start(g) \/ Cancel(g) \/ Return(g) PROVE OnceInv'
    BY <1>1, <1>5, <1>10, StartOnce, CancelOnce, ReturnOnce
  <1> QED BY <1>5, <1>6, <1>7, <1>8, <1>9, <1>10, HappenOnce DEF Next

(* Without a fault and without an overlap no collector reports an item      *)
(* twice, whatever the times, the limit and the moments it is cancelled.    *)
THEOREM ReportedOnce == Spec => []RepeatsNeedAReason
  <1>1. Init => QuietInv
    BY DEF Init, QuietInv, OnceInv, Live
  <1>2. QuietInv => RepeatsNeedAReason
    BY DEF QuietInv, Quiet, OnceInv, RepeatsNeedAReason
  <1> QED BY <1>1, <1>2, QuietNext, Always, PTL DEF Spec

=============================================================================
