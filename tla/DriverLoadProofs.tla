--------------------------- MODULE DriverLoadProofs ---------------------------
(***************************************************************************)
(* Proofs about DriverLoad for every table of drivers: type correctness;   *)
(* that whatever runs while a driver is loaded and removed, it does no     *)
(* worse than a reading of its row shows; and from that the properties of  *)
(* DriverLoad, for every table whose known defects include the reading.    *)
(***************************************************************************)
EXTENDS DriverLoad, TLAPS

(* The row of the driver at hand is well formed.                           *)
LEMMA RowFacts ==
    ASSUME d \in Drivers
    PROVE  /\ row.load \in Seq(STRING \X STRING)
           /\ row.undo \in Seq(STRING \X STRING)
           /\ row.unload \in Seq(STRING)
           /\ Len(row.load) \in Nat /\ Len(row.undo) \in Nat /\ Len(row.unload) \in Nat
BY TableAssumption DEF row

(* A label stands at a step of undo or just behind the last one.           *)
LEMMA LabelRange ==
    ASSUME NEW r, Len(r.undo) \in Nat, NEW l
    PROVE  /\ LabelAt(r, l) \in Nat \ {0}
           /\ LabelAt(r, l) <= Len(r.undo) + 1
<1>2. CASE \E i \in 1..Len(r.undo) : r.undo[i][1] = l
  <2>1. LabelAt(r, l) \in 1..Len(r.undo)
    BY <1>2 DEF LabelAt
  <2> QED
    BY <2>1
<1>3. CASE ~ \E i \in 1..Len(r.undo) : r.undo[i][1] = l
  <2>1. LabelAt(r, l) = Len(r.undo) + 1
    BY <1>3 DEF LabelAt
  <2> QED
    BY <2>1
<1> QED
  BY <1>2, <1>3

(* The step of init that is due is a resource of the driver, or nothing.   *)
LEMMA StepIsResource ==
    ASSUME d \in Drivers, pos \in Nat \ {0}, pos <= Len(row.load)
    PROVE  {LoadStep[1]} \ {Nothing} \subseteq Resources(row)
<1>1. pos \in 1..(LoadEnd(row) - 1)
  BY RowFacts DEF LoadEnd
<1> QED
  BY <1>1 DEF LoadStep, Resources, Taken

-------------------------------------------------------------------------------
LEMMA TypeInit == Init => TypeOK
<1> SUFFICES ASSUME Init PROVE TypeOK
  OBVIOUS
<1>1. d \in Drivers
  BY DEF Init
<1>2. Len(row.load) \in Nat
  BY <1>1, RowFacts
<1>3. failed \in BOOLEAN
  BY DEF Init
<1>4. /\ phase = "loading" /\ pos = 1
      /\ held \subseteq Resources(row) \cup Timers /\ running \subseteq Contexts
  BY DEF Init
<1> QED
  BY <1>1, <1>2, <1>3, <1>4 DEF TypeOK

LEMMA TypeStep == TypeOK /\ [Next]_vars => TypeOK'
<1> SUFFICES ASSUME TypeOK, [Next]_vars PROVE TypeOK'
  OBVIOUS
<1>1. /\ Len(row.load) \in Nat
      /\ Len(row.undo) \in Nat
      /\ Len(row.unload) \in Nat
  BY RowFacts DEF TypeOK
<1>2. ASSUME d' = d
      PROVE  row' = row /\ Resources(row)' = Resources(row) /\ Contexts' = Contexts
  BY <1>2 DEF row, Contexts
<1>3. CASE Acquire
  <2>1. {LoadStep[1]} \ {Nothing} \subseteq Resources(row)
    BY <1>3, StepIsResource DEF Acquire, TypeOK
  <2> QED
    BY <1>1, <1>2, <1>3, <2>1 DEF Acquire, TypeOK
<1>4. CASE FailUnnoticed
  BY <1>1, <1>2, <1>4 DEF FailUnnoticed, TypeOK
<1>5. CASE FailNoticed
  <2>1. LabelAt(row, LoadStep[2]) \in Nat \ {0} /\ LabelAt(row, LoadStep[2]) <= Len(row.undo) + 1
    BY RowFacts, LabelRange DEF TypeOK
  <2> QED
    BY <1>1, <1>2, <1>5, <2>1 DEF FailNoticed, TypeOK
<1>6. CASE Loaded
  BY <1>1, <1>2, <1>6 DEF Loaded, TypeOK
<1>7. CASE Undo
  BY <1>1, <1>2, <1>7 DEF Undo, Release, TypeOK
<1>8. CASE Remove
  BY <1>1, <1>2, <1>8 DEF Remove, TypeOK
<1>9. CASE Unload
  BY <1>1, <1>2, <1>9 DEF Unload, Release, TypeOK
<1>10. CASE Out
  BY <1>1, <1>2, <1>10 DEF Out, TypeOK
<1>11. CASE \E c \in Contexts : Enter(c) \/ Leave(c)
  BY <1>1, <1>2, <1>11 DEF Enter, Leave, TypeOK
<1>12. CASE UNCHANGED vars
  BY <1>1, <1>2, <1>12 DEF vars, TypeOK
<1> QED
  BY <1>3, <1>4, <1>5, <1>6, <1>7, <1>8, <1>9, <1>10, <1>11, <1>12 DEF Next

(* Type correctness of loading and unloading, for every table: no phase    *)
(* runs past its last step, and only resources of the table are ever held. *)
THEOREM DriverLoadType == Spec => []TypeOK
BY TypeInit, TypeStep, PTL DEF Spec

-------------------------------------------------------------------------------
(* How what a driver holds and who is in it compare with a reading: of T   *)
(* at most, S at least, D given back.                                      *)
Fits(r, h, in, T, S, D) ==
    /\ h \subseteq T
    /\ h \cap D \subseteq Timers
    /\ S \ (D \cup Timers) \subseteq h
    /\ in \subseteq MayRun(r, T, D)

(* A step of init takes X, of which Y for certain; or it takes nothing.    *)
LEMMA FitsTaking ==
    ASSUME NEW r, NEW h, NEW in, NEW T, NEW S, NEW X, NEW Y, Y \subseteq X,
           Fits(r, h, in, T, S, {})
    PROVE  /\ Fits(r, h \cup X, in, T \cup X, S \cup Y, {})
           /\ Fits(r, h, in, T \cup X, S, {})
BY DEF Fits, MayRun

(* A release: of something the code behind which has returned, if it       *)
(* waits.                                                                  *)
LEMMA FitsReleasing ==
    ASSUME NEW r, NEW h, NEW in, NEW T, NEW S, NEW D, NEW x,
           Fits(r, h, in, T, S, D), x \in Waiting => \A c \in in : r.entry[c] # x
    PROVE  Fits(r, h \ {x}, in, T, S, D \cup {x})
BY DEF Fits, MayRun

(* Somebody comes in by something held, a timer being held no more; or     *)
(* leaves, arming the timer again.                                         *)
LEMMA FitsTraffic ==
    ASSUME NEW r, NEW h, NEW in, NEW T, NEW S, NEW D, Fits(r, h, in, T, S, D),
           NEW c \in DOMAIN r.entry
    PROVE  /\ r.entry[c] \in h
                => Fits(r, h \ ({r.entry[c]} \cap Timers), in \cup {c}, T, S, D)
           /\ c \in in
                => Fits(r, h \cup ({r.entry[c]} \cap Timers), in \ {c}, T, S, D)
<1>1. Waiting \cap Timers = {}
  BY DEF Waiting, Timers
<1> QED
  BY <1>1 DEF Fits, MayRun

(* Whoever is in without its data is one the reading shows.                *)
LEMMA FitsStarved ==
    ASSUME NEW r, NEW h, NEW in, NEW T, NEW S, NEW D, Fits(r, h, in, T, S, D),
           NEW c \in in
    PROVE  r.needs[c] \subseteq h \/ c \in Starved(r, T, S, D)
BY DEF Fits, Starved

-------------------------------------------------------------------------------
(* The inductive invariant: at each place of each phase, what is held, who *)
(* is in and what was freed amiss fit the reading of that place.  Behind a *)
(* label they fit the reading for some step of init that may have failed.  *)
FitsNow(T, S, D) == Fits(row, held, running, T, S, D)
FitsExit(j) ==
    /\ FitsNow(Resources(row), Sure(row, LoadEnd(row)), Unloaded(row, j))
    /\ running \cap ShutOut(row) = {}
    /\ misfreed \subseteq MisfreedByExit(row)
FitsUndo(i, j) == FitsNow(Taken(row, i), Sure(row, i), Undone(row, i, j))

AsRead ==
    /\ phase = "loading" =>
          ~failed /\ misfreed = {} /\ FitsNow(Taken(row, pos), Sure(row, pos), {})
    /\ phase = "in" =>
          ~failed /\ misfreed = {} /\ FitsNow(Resources(row), Sure(row, LoadEnd(row)), {})
    /\ phase = "unloading" => ~failed /\ FitsExit(pos)
    /\ phase = "undoing" =>
          /\ failed /\ misfreed \subseteq MisfreedByUndo(row)
          /\ \E i \in Fallible(row) : Label(row, i) <= pos /\ FitsUndo(i, pos)
    /\ phase = "out" /\ ~failed => FitsExit(UnloadEnd(row))
    /\ phase = "out" /\ failed =>
          /\ misfreed \subseteq MisfreedByUndo(row)
          /\ \E i \in Fallible(row) : FitsUndo(i, UndoEnd(row))

LEMMA ReadInit == Init => AsRead
BY DEF Init, AsRead, FitsNow, Fits, Taken, Sure

(* One more step of init, one more release.                                *)
LEMMA TakenNext ==
    ASSUME NEW r, NEW i \in Nat \ {0}
    PROVE  /\ Taken(r, i + 1) = Taken(r, i) \cup ({r.load[i][1]} \ {Nothing})
           /\ r.load[i][2] = Unchecked => Sure(r, i + 1) = Sure(r, i)
           /\ r.load[i][2] # Unchecked =>
                 Sure(r, i + 1) = Sure(r, i) \cup ({r.load[i][1]} \ {Nothing})
<1>1. 1..((i + 1) - 1) = 1..(i - 1) \cup {i}
  OBVIOUS
<1> QED
  BY <1>1, Zenon DEF Taken, Sure

LEMMA UnloadedNext ==
    ASSUME NEW r, NEW j \in Nat \ {0}
    PROVE  Unloaded(r, j + 1) = Unloaded(r, j) \cup {r.unload[j]}
<1>1. 1..((j + 1) - 1) = 1..(j - 1) \cup {j}
  OBVIOUS
<1> QED
  BY <1>1, Zenon DEF Unloaded

LEMMA UndoneNext ==
    ASSUME NEW r, NEW i, NEW j \in Nat \ {0}, Label(r, i) \in Nat, Label(r, i) <= j
    PROVE  Undone(r, i, j + 1) = Undone(r, i, j) \cup {r.undo[j][2]}
<1>1. Label(r, i)..((j + 1) - 1) = Label(r, i)..(j - 1) \cup {j}
  OBVIOUS
<1> QED
  BY <1>1, Zenon DEF Undone

LEMMA ReadStep == TypeOK /\ AsRead /\ [Next]_vars => AsRead'
<1> SUFFICES ASSUME TypeOK, AsRead, [Next]_vars PROVE AsRead'
  OBVIOUS
<1>1. /\ Len(row.load) \in Nat /\ Len(row.undo) \in Nat /\ Len(row.unload) \in Nat
      /\ pos \in Nat \ {0}
  BY RowFacts DEF TypeOK
<1>2. \A i : Label(row, i) \in Nat \ {0} /\ Label(row, i) <= UndoEnd(row)
  BY <1>1, LabelRange DEF Label, UndoEnd
<1>3. d' = d => row' = row
  BY DEF row
<1>4. CASE Acquire
  <2> DEFINE X == {LoadStep[1]} \ {Nothing}
             Y == IF LoadStep[2] = Unchecked THEN {} ELSE X
  <2>1. /\ FitsNow(Taken(row, pos), Sure(row, pos), {}) /\ ~failed /\ misfreed = {}
        /\ phase' = "loading" /\ failed' = failed /\ misfreed' = misfreed
        /\ pos' = pos + 1 /\ held' = held \cup X /\ running' = running /\ row' = row
    BY <1>3, <1>4, Zenon DEF Acquire, AsRead
  <2>2. Taken(row, pos + 1) = Taken(row, pos) \cup X
    BY <1>1, TakenNext DEF LoadStep
  <2>3. Sure(row, pos + 1) = Sure(row, pos) \cup Y
    BY <1>1, TakenNext DEF LoadStep
  <2>4. Y \subseteq X
    OBVIOUS
  <2> HIDE DEF X, Y
  <2>5. Fits(row, held \cup X, running, Taken(row, pos) \cup X, Sure(row, pos) \cup Y, {})
    BY <2>1, <2>4, FitsTaking DEF FitsNow
  <2>6. FitsNow(Taken(row, pos), Sure(row, pos), {})'
    BY <2>1, <2>2, <2>3, <2>5 DEF FitsNow
  <2> QED
    BY <2>1, <2>6, Zenon DEF AsRead
<1>5. CASE FailUnnoticed
  <2> DEFINE X == {LoadStep[1]} \ {Nothing}
  <2>1. /\ FitsNow(Taken(row, pos), Sure(row, pos), {}) /\ ~failed /\ misfreed = {}
        /\ phase' = "loading" /\ failed' = failed /\ misfreed' = misfreed
        /\ pos' = pos + 1 /\ held' = held /\ running' = running /\ row' = row
        /\ LoadStep[2] = Unchecked
    BY <1>3, <1>5, Zenon DEF FailUnnoticed, AsRead
  <2>2. /\ Taken(row, pos + 1) = Taken(row, pos) \cup X
        /\ Sure(row, pos + 1) = Sure(row, pos)
    BY <1>1, <2>1, TakenNext DEF LoadStep
  <2> HIDE DEF X
  <2>3. Fits(row, held, running, Taken(row, pos) \cup X, Sure(row, pos), {})
    BY <2>1, FitsTaking DEF FitsNow
  <2>4. FitsNow(Taken(row, pos), Sure(row, pos), {})'
    BY <2>1, <2>2, <2>3 DEF FitsNow
  <2> QED
    BY <2>1, <2>4, Zenon DEF AsRead
<1>6. CASE FailNoticed
  <2>1. /\ FitsNow(Taken(row, pos), Sure(row, pos), {}) /\ misfreed = {}
        /\ phase' = "undoing" /\ failed' /\ misfreed' = misfreed
        /\ pos' = Label(row, pos) /\ held' = held /\ running' = running /\ row' = row
    BY <1>3, <1>6, Zenon DEF FailNoticed, AsRead, Label, LoadStep
  <2>2. pos \in Fallible(row)
    BY <1>1, <1>6 DEF FailNoticed, Fallible, LoadStep
  <2>3. Undone(row, pos, Label(row, pos)) = {}
    BY <1>2 DEF Undone
  <2>4. FitsUndo(pos, Label(row, pos))
    BY <2>1, <2>3 DEF FitsUndo
  <2> DEFINE n == pos
  <2>5. /\ n \in Fallible(row') /\ Label(row', n) <= pos'
        /\ Fits(row', held', running', Taken(row', n), Sure(row', n), Undone(row', n, pos'))
    BY <1>2, <2>1, <2>2, <2>4 DEF FitsUndo, FitsNow
  <2> HIDE DEF n
  <2> QED
    BY <2>1, <2>5 DEF AsRead, FitsUndo, FitsNow
<1>7. CASE Loaded
  <2>1. /\ FitsNow(Taken(row, pos), Sure(row, pos), {}) /\ ~failed /\ misfreed = {}
        /\ phase' = "in" /\ failed' = failed /\ misfreed' = misfreed
        /\ held' = held /\ running' = running /\ row' = row
    BY <1>3, <1>7, Zenon DEF Loaded, AsRead
  <2>2. pos = LoadEnd(row)
    BY <1>1, <1>7 DEF Loaded, TypeOK, LoadEnd
  <2>3. FitsNow(Resources(row), Sure(row, LoadEnd(row)), {})'
    BY <2>1, <2>2 DEF FitsNow, Resources
  <2> QED
    BY <2>1, <2>3, Zenon DEF AsRead
<1>8. CASE Undo
  <2> DEFINE x == row.undo[pos][2]
  <2>1. /\ phase = "undoing" /\ phase' = phase /\ failed' = failed /\ failed
        /\ misfreed \subseteq MisfreedByUndo(row)
        /\ pos' = pos + 1 /\ held' = held \ {x} /\ running' = running /\ row' = row
        /\ misfreed' = IF x \in held \cup Timers THEN misfreed ELSE misfreed \cup {x}
        /\ x \in Waiting => \A c \in running : row.entry[c] # x
    BY <1>3, <1>8, Zenon DEF Undo, Release, AsRead
  <2>2. PICK i \in Fallible(row) : Label(row, i) <= pos /\ FitsUndo(i, pos)
    BY <2>1 DEF AsRead
  <2>3. Undone(row, i, pos + 1) = Undone(row, i, pos) \cup {x}
    BY <1>1, <1>2, <2>2, UndoneNext
  <2>4. x \in held \cup Timers \/ x \in MisfreedByUndo(row)
    <3>1. pos \in Label(row, i)..Len(row.undo)
      BY <1>1, <1>2, <1>8, <2>2 DEF Undo
    <3>2. Sure(row, i) \ Undone(row, i, pos) \subseteq held \cup Timers
      BY <2>2 DEF FitsUndo, FitsNow, Fits
    <3> QED
      BY <2>2, <3>1, <3>2 DEF MisfreedByUndo
  <2> HIDE DEF x
  <2>5. Fits(row, held \ {x}, running, Taken(row, i), Sure(row, i), Undone(row, i, pos) \cup {x})
    BY <2>1, <2>2, FitsReleasing DEF FitsUndo, FitsNow
  <2>6. /\ i \in Fallible(row') /\ Label(row', i) <= pos'
        /\ Fits(row', held', running', Taken(row', i), Sure(row', i), Undone(row', i, pos'))
    <3>1. Label(row, i) <= pos + 1
      BY <1>1, <1>2, <2>2
    <3> QED
      BY <2>1, <2>2, <2>3, <2>5, <3>1, Zenon
  <2>7. misfreed' \subseteq MisfreedByUndo(row')
    BY <2>1, <2>4
  <2> QED
    BY <2>1, <2>6, <2>7 DEF AsRead, FitsUndo, FitsNow
<1>9. CASE Remove
  <2>1. /\ FitsNow(Resources(row), Sure(row, LoadEnd(row)), {}) /\ ~failed /\ misfreed = {}
        /\ phase' = "unloading" /\ failed' = failed /\ misfreed' = misfreed
        /\ pos' = 1 /\ held' = held /\ running' = running /\ row' = row
        /\ row.owner => "ops" \notin running
    BY <1>3, <1>9, Zenon DEF Remove, AsRead
  <2>2. Unloaded(row, 1) = {} /\ running \cap ShutOut(row) = {}
    BY <2>1 DEF Unloaded, ShutOut
  <2>3. FitsExit(pos)'
    BY <2>1, <2>2 DEF FitsExit, FitsNow
  <2> QED
    BY <2>1, <2>3, Zenon DEF AsRead
<1>10. CASE Unload
  <2> DEFINE x == row.unload[pos]
             S == Sure(row, LoadEnd(row))
  <2>1. /\ phase = "unloading" /\ phase' = phase /\ failed' = failed /\ ~failed
        /\ FitsExit(pos)
        /\ pos' = pos + 1 /\ held' = held \ {x} /\ running' = running /\ row' = row
        /\ misfreed' = IF x \in held \cup Timers THEN misfreed ELSE misfreed \cup {x}
        /\ x \in Waiting => \A c \in running : row.entry[c] # x
    BY <1>3, <1>10, Zenon DEF Unload, Release, AsRead
  <2>2. Unloaded(row, pos + 1) = Unloaded(row, pos) \cup {x}
    BY <1>1, UnloadedNext
  <2>3. x \in held \cup Timers \/ x \in MisfreedByExit(row)
    <3>1. pos \in 1..Len(row.unload)
      BY <1>1, <1>10 DEF Unload
    <3>2. S \ Unloaded(row, pos) \subseteq held \cup Timers
      BY <2>1 DEF FitsExit, FitsNow, Fits
    <3> QED
      BY <3>1, <3>2 DEF MisfreedByExit
  <2> HIDE DEF x, S
  <2>4. Fits(row, held \ {x}, running, Resources(row), S, Unloaded(row, pos) \cup {x})
    BY <2>1, FitsReleasing DEF FitsExit, FitsNow, S
  <2>5. FitsNow(Resources(row), Sure(row, LoadEnd(row)), Unloaded(row, pos))'
    BY <2>1, <2>2, <2>4 DEF FitsNow, S
  <2>6. running' \cap ShutOut(row') = {} /\ misfreed' \subseteq MisfreedByExit(row')
    BY <2>1, <2>3 DEF FitsExit
  <2>7. FitsExit(pos)'
    BY <2>5, <2>6 DEF FitsExit
  <2> QED
    BY <2>1, <2>7, Zenon DEF AsRead
<1>11. CASE Out
  <2>1. /\ phase' = "out" /\ failed' = failed /\ misfreed' = misfreed
        /\ held' = held /\ running' = running /\ row' = row
    BY <1>3, <1>11, Zenon DEF Out
  <2>2. CASE phase = "undoing"
    <3>1. pos = UndoEnd(row)
      BY <1>1, <1>11, <2>2 DEF Out, TypeOK, UndoEnd
    <3>2. PICK i \in Fallible(row) : FitsUndo(i, UndoEnd(row))
      BY <2>2, <3>1 DEF AsRead
    <3>3. failed /\ misfreed \subseteq MisfreedByUndo(row)
      BY <2>2 DEF AsRead
    <3>4. i \in Fallible(row') /\ misfreed' \subseteq MisfreedByUndo(row')
          /\ Fits(row', held', running', Taken(row', i), Sure(row', i),
                  Undone(row', i, UndoEnd(row')))
      BY <2>1, <3>2, <3>3 DEF FitsUndo, FitsNow
    <3> QED
      BY <2>1, <3>3, <3>4 DEF AsRead, FitsUndo, FitsNow
  <2>3. CASE phase = "unloading"
    <3>1. pos = UnloadEnd(row)
      BY <1>1, <1>11, <2>3 DEF Out, TypeOK, UnloadEnd
    <3>2. ~failed /\ FitsExit(UnloadEnd(row))
      BY <2>3, <3>1 DEF AsRead
    <3>3. FitsExit(UnloadEnd(row))'
      BY <2>1, <3>2 DEF FitsExit, FitsNow
    <3> QED
      BY <2>1, <3>2, <3>3, Zenon DEF AsRead
  <2> QED
    BY <1>11, <2>2, <2>3 DEF Out
<1>12. CASE \E c \in Contexts : Enter(c) \/ Leave(c)
  <2>1. PICK c \in Contexts : Enter(c) \/ Leave(c)
    BY <1>12
  <2>2. /\ phase' = phase /\ failed' = failed /\ misfreed' = misfreed /\ pos' = pos
        /\ row' = row
    BY <1>3, <2>1, Zenon DEF Enter, Leave
  <2>3. ASSUME NEW T, NEW S, NEW D, Fits(row, held, running, T, S, D)
        PROVE  Fits(row, held', running', T, S, D)
    <3>1. CASE Enter(c)
      <4>1. /\ row.entry[c] \in held /\ running' = running \cup {c}
            /\ held' = held \ ({row.entry[c]} \cap Timers)
        BY <3>1, Zenon DEF Enter
      <4> QED
        BY <2>3, <4>1, FitsTraffic, Zenon DEF Contexts
    <3>2. CASE Leave(c)
      <4>1. /\ c \in running /\ running' = running \ {c}
            /\ held' = held \cup ({row.entry[c]} \cap Timers)
        BY <3>2, Zenon DEF Leave
      <4> QED
        BY <2>3, <4>1, FitsTraffic, Zenon DEF Contexts
    <3> QED
      BY <2>1, <3>1, <3>2
  <2>4. ASSUME NEW j, FitsExit(j), phase \in {"unloading", "out"}
        PROVE  /\ Fits(row, held', running', Resources(row), Sure(row, LoadEnd(row)),
                       Unloaded(row, j))
               /\ running' \cap ShutOut(row) = {}
               /\ misfreed \subseteq MisfreedByExit(row)
    <3>1. running' \cap ShutOut(row) = {}
      BY <2>1, <2>4 DEF FitsExit, Enter, Leave, ShutOut
    <3> QED
      BY <2>3, <2>4, <3>1 DEF FitsExit, FitsNow
  <2>5. CASE phase \in {"loading", "in"}
    BY <2>2, <2>3, <2>5 DEF AsRead, FitsNow
  <2>6. CASE phase = "unloading"
    <3>1. ~failed /\ FitsExit(pos)
      BY <2>6 DEF AsRead
    <3>2. FitsExit(pos)'
      BY <2>2, <2>4, <2>6, <3>1 DEF FitsExit, FitsNow
    <3> QED
      BY <2>2, <2>6, <3>1, <3>2, Zenon DEF AsRead
  <2>7. CASE phase = "out" /\ ~failed
    <3>1. FitsExit(UnloadEnd(row))
      BY <2>7 DEF AsRead
    <3>2. FitsExit(UnloadEnd(row))'
      BY <2>2, <2>4, <2>7, <3>1 DEF FitsExit, FitsNow
    <3> QED
      BY <2>2, <2>7, <3>2, Zenon DEF AsRead
  <2>8. CASE phase = "undoing" \/ (phase = "out" /\ failed)
    <3> DEFINE j == IF phase = "undoing" THEN pos ELSE UndoEnd(row)
    <3>1. PICK i \in Fallible(row) :
             (phase = "undoing" => Label(row, i) <= pos) /\ FitsUndo(i, j)
      BY <2>8 DEF AsRead
    <3>2. misfreed \subseteq MisfreedByUndo(row) /\ failed
      BY <2>8 DEF AsRead
    <3>3. Fits(row, held', running', Taken(row, i), Sure(row, i), Undone(row, i, j))
      BY <2>3, <3>1 DEF FitsUndo, FitsNow
    <3> QED
      BY <2>2, <2>8, <3>1, <3>2, <3>3 DEF AsRead, FitsUndo, FitsNow
  <2>9. phase \in {"loading", "undoing", "in", "unloading", "out"}
    BY DEF TypeOK
  <2> QED
    BY <2>5, <2>6, <2>7, <2>8, <2>9
<1>13. CASE UNCHANGED vars
  <2>1. row' = row
    BY <1>3, <1>13 DEF vars
  <2> QED
    BY <1>13, <2>1 DEF vars, AsRead, FitsExit, FitsUndo, FitsNow
<1> QED
  BY <1>4, <1>5, <1>6, <1>7, <1>8, <1>9, <1>10, <1>11, <1>12, <1>13 DEF Next

LEMMA ReadAlways == Spec => []AsRead
BY ReadInit, ReadStep, DriverLoadType, PTL DEF Spec

-------------------------------------------------------------------------------
(* What the invariant says of a driver that is out, of who runs without    *)
(* its data, and of what was freed amiss.                                  *)
LEMMA ReadOut ==
    ASSUME AsRead, phase = "out"
    PROVE  /\ ~failed => held \ Static \subseteq KeptByExit(row) /\ running \subseteq InAfterExit(row)
           /\ failed => held \ Static \subseteq KeptByLabels(row) /\ running \subseteq InAfterLabels(row)
<1>1. ASSUME NEW T, NEW S, NEW D, FitsNow(T, S, D)
      PROVE  held \ Static \subseteq Left(T, D) /\ running \subseteq MayRun(row, T, D)
  <2>1. held \subseteq T /\ held \cap D \subseteq Timers /\ running \subseteq MayRun(row, T, D)
    BY <1>1 DEF FitsNow, Fits
  <2> QED
    BY <2>1, Zenon DEF Left
<1>2. ASSUME ~failed
      PROVE  held \ Static \subseteq KeptByExit(row) /\ running \subseteq InAfterExit(row)
  <2>1. FitsExit(UnloadEnd(row))
    BY <1>2 DEF AsRead
  <2>2. /\ held \ Static \subseteq Left(Resources(row), Unloaded(row, UnloadEnd(row)))
        /\ running \subseteq MayRun(row, Resources(row), Unloaded(row, UnloadEnd(row)))
        /\ running \cap ShutOut(row) = {}
    BY <1>1, <2>1 DEF FitsExit
  <2> QED
    BY <2>2, Zenon DEF KeptByExit, InAfterExit
<1>3. ASSUME failed
      PROVE  held \ Static \subseteq KeptByLabels(row) /\ running \subseteq InAfterLabels(row)
  <2>1. PICK i \in Fallible(row) : FitsUndo(i, UndoEnd(row))
    BY <1>3 DEF AsRead
  <2>2. /\ held \ Static \subseteq Left(Taken(row, i), Undone(row, i, UndoEnd(row)))
        /\ running \subseteq MayRun(row, Taken(row, i), Undone(row, i, UndoEnd(row)))
    BY <1>1, <2>1 DEF FitsUndo
  <2> QED
    BY <2>2, Zenon DEF KeptByLabels, InAfterLabels
<1> QED
  BY <1>2, <1>3

LEMMA ReadStarved ==
    ASSUME TypeOK, AsRead, NEW c \in running
    PROVE  \/ row.needs[c] \subseteq held
           \/ c \in StarvedInLoad(row) \cup StarvedInUndo(row) \cup StarvedInExit(row)
<1>1. /\ Len(row.load) \in Nat /\ Len(row.undo) \in Nat /\ Len(row.unload) \in Nat
      /\ pos \in Nat \ {0}
  BY RowFacts DEF TypeOK
<1>2. \A i : Label(row, i) \in Nat \ {0} /\ Label(row, i) <= UndoEnd(row)
  BY <1>1, LabelRange DEF Label, UndoEnd
<1>3. ASSUME NEW T, NEW S, NEW D, FitsNow(T, S, D)
      PROVE  row.needs[c] \subseteq held \/ c \in Starved(row, T, S, D)
  BY <1>3, FitsStarved DEF FitsNow
<1>4. ASSUME NEW i \in 1..LoadEnd(row), FitsNow(Taken(row, i), Sure(row, i), {})
      PROVE  row.needs[c] \subseteq held \/ c \in StarvedInLoad(row)
  <2>1. Starved(row, Taken(row, i), Sure(row, i), {}) \subseteq StarvedInLoad(row)
    BY SMT DEF StarvedInLoad
  <2> QED
    BY <1>3, <1>4, <2>1
<1>5. ASSUME NEW j \in 1..UnloadEnd(row), FitsExit(j)
      PROVE  row.needs[c] \subseteq held \/ c \in StarvedInExit(row)
  <2>1. c \notin ShutOut(row)
    BY <1>5 DEF FitsExit
  <2>2. \/ row.needs[c] \subseteq held
        \/ c \in Starved(row, Resources(row), Sure(row, LoadEnd(row)), Unloaded(row, j))
    BY <1>3, <1>5 DEF FitsExit
  <2> DEFINE U == UNION {Starved(row, Resources(row), Sure(row, LoadEnd(row)), Unloaded(row, n)) :
                            n \in 1..UnloadEnd(row)}
  <2>3. StarvedInExit(row) = U \ ShutOut(row)
    BY Zenon DEF StarvedInExit
  <2>4. row.needs[c] \subseteq held \/ c \in U
    <3>1. Starved(row, Resources(row), Sure(row, LoadEnd(row)), Unloaded(row, j)) \subseteq U
      BY SMT
    <3> QED
      BY <2>2, <3>1
  <2> HIDE DEF U
  <2> QED
    BY <2>1, <2>3, <2>4
<1>6. ASSUME NEW i \in Fallible(row), NEW j \in Label(row, i)..UndoEnd(row), FitsUndo(i, j)
      PROVE  row.needs[c] \subseteq held \/ c \in StarvedInUndo(row)
  <2>1. \/ row.needs[c] \subseteq held
        \/ c \in Starved(row, Taken(row, i), Sure(row, i), Undone(row, i, j))
    BY <1>3, <1>6 DEF FitsUndo
  <2> DEFINE U(k) == UNION {Starved(row, Taken(row, k), Sure(row, k), Undone(row, k, n)) :
                               n \in Label(row, k)..UndoEnd(row)}
  <2>3. StarvedInUndo(row) = UNION {U(k) : k \in Fallible(row)}
    BY Zenon DEF StarvedInUndo
  <2>4. Starved(row, Taken(row, i), Sure(row, i), Undone(row, i, j)) \subseteq U(i)
    BY SMT
  <2> HIDE DEF U
  <2>2. Starved(row, Taken(row, i), Sure(row, i), Undone(row, i, j)) \subseteq StarvedInUndo(row)
    BY <2>3, <2>4, SMT
  <2> QED
    BY <2>1, <2>2
<1>7. CASE phase = "loading"
  <2>1. pos \in 1..LoadEnd(row)
    BY <1>1, <1>7 DEF TypeOK, LoadEnd
  <2> QED
    BY <1>4, <1>7, <2>1 DEF AsRead
<1>8. CASE phase = "in"
  <2>1. LoadEnd(row) \in 1..LoadEnd(row)
    BY <1>1 DEF LoadEnd
  <2> QED
    BY <1>4, <1>8, <2>1 DEF AsRead, Resources
<1>9. CASE phase = "unloading"
  <2>1. pos \in 1..UnloadEnd(row)
    BY <1>1, <1>9 DEF TypeOK, UnloadEnd
  <2> QED
    BY <1>5, <1>9, <2>1 DEF AsRead
<1>10. CASE phase = "undoing"
  <2>1. PICK i \in Fallible(row) : Label(row, i) <= pos /\ FitsUndo(i, pos)
    BY <1>10 DEF AsRead
  <2>2. pos \in Label(row, i)..UndoEnd(row)
    BY <1>1, <1>2, <1>10, <2>1 DEF TypeOK, UndoEnd
  <2> QED
    BY <1>6, <2>1, <2>2
<1>11. CASE phase = "out" /\ ~failed
  <2>1. UnloadEnd(row) \in 1..UnloadEnd(row)
    BY <1>1 DEF UnloadEnd
  <2> QED
    BY <1>5, <1>11, <2>1 DEF AsRead
<1>12. CASE phase = "out" /\ failed
  <2>1. PICK i \in Fallible(row) : FitsUndo(i, UndoEnd(row))
    BY <1>12 DEF AsRead
  <2>2. UndoEnd(row) \in Label(row, i)..UndoEnd(row)
    BY <1>1, <1>2 DEF UndoEnd
  <2> QED
    BY <1>6, <2>1, <2>2
<1> QED
  BY <1>7, <1>8, <1>9, <1>10, <1>11, <1>12 DEF TypeOK

LEMMA ReadMisfreed ==
    ASSUME TypeOK, AsRead
    PROVE  misfreed \subseteq MisfreedByUndo(row) \cup MisfreedByExit(row)
BY DEF TypeOK, AsRead, FitsExit

(* A reading of a driver's row foretells the worst: whatever comes in and  *)
(* goes out while init, its labels and exit run, nothing is left over,     *)
(* nobody is in, nobody lacks its data and nothing is freed amiss but what *)
(* the row shows, timers caught running included.                          *)
AsTableShows ==
    /\ phase = "out" /\ ~failed =>
          held \ Static \subseteq KeptByExit(row) /\ running \subseteq InAfterExit(row)
    /\ phase = "out" /\ failed =>
          held \ Static \subseteq KeptByLabels(row) /\ running \subseteq InAfterLabels(row)
    /\ \A c \in running :
          \/ row.needs[c] \subseteq held
          \/ c \in StarvedInLoad(row) \cup StarvedInUndo(row) \cup StarvedInExit(row)
    /\ misfreed \subseteq MisfreedByUndo(row) \cup MisfreedByExit(row)

(* Whatever runs while a driver is loaded and removed, and wherever init   *)
(* fails, nothing is left over, strays in, runs ahead of its data or is    *)
(* freed amiss but what a reading of its row shows.                        *)
THEOREM ReadingIsSound == Spec => []AsTableShows
<1>1. TypeOK /\ AsRead => AsTableShows
  BY ReadOut, ReadStarved, ReadMisfreed DEF AsTableShows
<1> QED
  BY <1>1, ReadAlways, DriverLoadType, PTL

-------------------------------------------------------------------------------
(* The properties of DriverLoad, for every table whose known defects       *)
(* include what the reading of its rows shows.                             *)

LEMMA KnownOfRow ==
    ASSUME ReadingIsKnown, TypeOK
    PROVE  /\ KeptByExit(row) \subseteq Known[d].unloaded
           /\ KeptByLabels(row) \subseteq Known[d].undone
           /\ InAfterExit(row) \subseteq Known[d].orphans
           /\ InAfterLabels(row) \subseteq Known[d].orphans \cup {"ops"}
           /\ StarvedInLoad(row) \cup StarvedInUndo(row) \cup StarvedInExit(row) \subseteq Known[d].early
           /\ MisfreedByUndo(row) \cup MisfreedByExit(row) \subseteq Known[d].foreign \cup Tolerant
BY Zenon DEF ReadingIsKnown, TypeOK, row

(* An exit leaves behind only what is known of the driver.                 *)
THEOREM UnloadIsClean == ASSUME ReadingIsKnown PROVE Spec => []CleanUnload
<1>1. TypeOK /\ AsTableShows => CleanUnload
  BY KnownOfRow DEF AsTableShows, CleanUnload
<1> QED
  BY <1>1, ReadingIsSound, DriverLoadType, PTL

(* A failed init leaves behind only what is known of the driver.           *)
THEOREM FailureIsClean == ASSUME ReadingIsKnown PROVE Spec => []CleanFailure
<1>1. TypeOK /\ AsTableShows => CleanFailure
  BY KnownOfRow DEF AsTableShows, CleanFailure
<1> QED
  BY <1>1, ReadingIsSound, DriverLoadType, PTL

(* Only the known callers of a driver outlive its code.                    *)
THEOREM NobodyIsOrphaned == ASSUME ReadingIsKnown PROVE Spec => []NoOrphanCall
<1>1. TypeOK /\ AsTableShows => NoOrphanCall
  BY KnownOfRow DEF AsTableShows, NoOrphanCall
<1> QED
  BY <1>1, ReadingIsSound, DriverLoadType, PTL

(* Only the known callers of a driver run without their data.              *)
THEOREM DataComesFirst == ASSUME ReadingIsKnown PROVE Spec => []NoHandlerBeforeItsData
<1>1. TypeOK /\ AsTableShows => NoHandlerBeforeItsData
  BY KnownOfRow DEF AsTableShows, NoHandlerBeforeItsData
<1> QED
  BY <1>1, ReadingIsSound, DriverLoadType, PTL

(* Only what is known to be freed amiss is.                                *)
THEOREM FreesItsOwn == ASSUME ReadingIsKnown PROVE Spec => []FreesOnlyItsOwn
<1>1. TypeOK /\ AsTableShows => FreesOnlyItsOwn
  BY KnownOfRow DEF AsTableShows, FreesOnlyItsOwn
<1> QED
  BY <1>1, ReadingIsSound, DriverLoadType, PTL

-------------------------------------------------------------------------------
(* What the labels of a row must cover for an init function to fail well,  *)
(* and its exit to end well.                                               *)
LabelsCover ==
    \A i \in Fallible(row) : Taken(row, i) \ Static \subseteq Undone(row, i, UndoEnd(row))
ExitCovers == Resources(row) \ Static \subseteq Unloaded(row, UnloadEnd(row))
TableSuffices ==
    phase = "out" =>
        /\ failed /\ LabelsCover => held \subseteq Timers \cup Static
        /\ ~failed /\ ExitCovers => held \subseteq Timers \cup Static

(* If each label stands before the release of everything taken so far, and *)
(* exit releases everything, nothing but a timer caught running survives,  *)
(* in any interleaving.                                                    *)
THEOREM TableIsEnough == Spec => []TableSuffices
<1>1. LabelsCover => KeptByLabels(row) \subseteq Timers
  BY DEF LabelsCover, KeptByLabels, Left
<1>2. ExitCovers => KeptByExit(row) \subseteq Timers
  BY DEF ExitCovers, KeptByExit, Left
<1>3. AsTableShows => TableSuffices
  BY <1>1, <1>2 DEF AsTableShows, TableSuffices
<1> QED
  BY <1>3, ReadingIsSound, PTL

(* Every way in but the files is one whose release waits, and is released. *)
WaysInAreWaitedFor ==
    /\ row.owner
    /\ \A c \in Contexts \ {"ops"} :
           row.entry[c] \in Waiting \cap Unloaded(row, UnloadEnd(row))

(* With nothing but such ways in, exit returns to a driver nobody runs.    *)
WaitingSuffices == phase = "out" /\ ~failed /\ WaysInAreWaitedFor => running = {}

(* For every driver whose ways in are all released by calls that wait, and *)
(* whose files hold the module, rmmod returns to code that nobody is in.   *)
THEOREM WaitingIsEnough == Spec => []WaitingSuffices
<1>1. WaysInAreWaitedFor => InAfterExit(row) = {}
  BY DEF WaysInAreWaitedFor, InAfterExit, MayRun, ShutOut, Contexts
<1>2. AsTableShows => WaitingSuffices
  BY <1>1 DEF AsTableShows, WaitingSuffices
<1> QED
  BY <1>2, ReadingIsSound, PTL
===============================================================================
