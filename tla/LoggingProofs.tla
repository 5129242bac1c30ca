----------------------------- MODULE LoggingProofs -----------------------------
(***************************************************************************)
(* What holds of a logger's stream for any number of threads, messages and *)
(* pieces, and any changes of the settings.                                *)
(***************************************************************************)
EXTENDS Logging, SequenceTheorems, TLAPS

-----------------------------------------------------------------------------
(* Types *)

\* Initially each variable has its type.
LEMMA TypeInit == Init => TypeOK
  <1> SUFFICES ASSUME Init PROVE TypeOK
    OBVIOUS
  <1>1. /\ pc \in [Threads -> Places] /\ said \in [Threads -> Nat] /\ written \in [Threads -> 0..Pieces]
        /\ \A t \in Threads : said[t] <= MaxMessages[t]
    BY LoggingAssumption DEF Init, Places
  <1>2. buf \in Seq(Piece) /\ text \in [Threads -> Seq(Piece) \cup {Forgotten}]
    BY DEF Init
  <1>3. sinks \in [Threads -> SUBSET Facilities] /\ stable \in [Threads -> BOOLEAN]
    BY DEF Init
  <1>4. facility \in Facilities /\ rootLevel \in LogLevels /\ changes \in 0..MaxChanges
    BY LoggingAssumption DEF Init, Facilities, LogLevels, INFO
  <1> QED
    BY <1>1, <1>2, <1>3, <1>4 DEF Init, TypeOK

\* No step breaks the types.
LEMMA TypeStep == TypeOK /\ [Next]_vars => TypeOK'
  <1> SUFFICES ASSUME TypeOK, [Next]_vars PROVE TypeOK'
    OBVIOUS
  <1> USE LoggingAssumption DEF TypeOK, bufVars, logVars, settings
  <1>1. ASSUME NEW t \in Threads, Begin(t) PROVE TypeOK'
    BY <1>1 DEF Begin, Go, Places
  <1>2. ASSUME NEW t \in Threads, Enter(t) PROVE TypeOK'
    BY <1>2 DEF Enter, Free, Places
  <1>3. ASSUME NEW t \in Threads, FindBusy(t) PROVE TypeOK'
    BY <1>3 DEF FindBusy, Places
  <1>4. ASSUME NEW t \in Threads, FallAsleep(t) PROVE TypeOK'
    BY <1>4 DEF FallAsleep, Go, Places
  <1>5. ASSUME NEW t \in Threads, TimeOutFree(t) PROVE TypeOK'
    BY <1>5 DEF TimeOutFree, Go, Places
  <1>6. ASSUME NEW t \in Threads, TimeOutBusy(t) PROVE TypeOK'
    BY <1>6 DEF TimeOutBusy, Go, Places
  <1>7. ASSUME NEW t \in Threads, Seize(t) PROVE TypeOK'
    BY <1>7 DEF Seize, Go, Places
  <1>8. ASSUME NEW t \in Threads, Put(t) PROVE TypeOK'
    <2>1. <<t, said[t], written[t] + 1>> \in Piece /\ written[t] + 1 \in 0..Pieces
      <3>1. written[t] \in 0..Pieces /\ written[t] < Pieces /\ said[t] \in Nat
        BY <1>8 DEF Put
      <3> HIDE DEF TypeOK
      <3>2. written[t] + 1 \in Nat /\ written[t] + 1 <= Pieces
        BY <3>1
      <3>3. <<t, said[t], written[t] + 1>> \in Piece
        BY <3>1, <3>2 DEF Piece
      <3> QED
        BY <3>2, <3>3
    <2>2. buf' \in Seq(Piece)
      BY <1>8, <2>1 DEF Put
    <2>3. written' \in [Threads -> 0..Pieces]
      BY <1>8, <2>1 DEF Put
    <2> QED
      BY <1>8, <2>2, <2>3 DEF Put, Go, Places
  <1>9. ASSUME NEW t \in Threads, Flush(t) PROVE TypeOK'
    BY <1>9 DEF Flush, Go, BusyInLog, Places
  <1>10. ASSUME NEW t \in Threads, Clear(t) PROVE TypeOK'
    <2>1. pc' \in [Threads -> Places]
      BY <1>10 DEF Clear, Go, Places
    <2> QED
      BY <1>10, <2>1 DEF Clear, Go
  <1>11. ASSUME NEW t \in Threads, Release(t) PROVE TypeOK'
    BY <1>11 DEF Release, Go, Places
  <1>12. ASSUME NEW t \in Threads, Signal(t) PROVE TypeOK'
    <2>1. pc' \in [Threads -> Places]
      <3>1. {"idle", "woken"} \subseteq Places
        BY DEF Places
      <3> QED
        BY <1>12, <3>1 DEF Signal
    <2> QED
      BY <1>12, <2>1 DEF Signal
  <1>13. ASSUME NEW t \in Threads, Skip(t) PROVE TypeOK'
    BY <1>13 DEF Skip, Go, Places
  <1>14. ASSUME NEW t \in Threads, FilterOut(t) PROVE TypeOK'
    <2>1. pc' \in [Threads -> Places]
      BY <1>14 DEF FilterOut, Return, Places
    <2>2. logged' \subseteq Seq(Piece) \cup {Forgotten} /\ misplaced' \in BOOLEAN
      BY <1>14 DEF FilterOut, Return
    <2>3. text' \in [Threads -> Seq(Piece) \cup {Forgotten}]
      BY <1>14 DEF FilterOut, Return
    <2>4. sinks' \in [Threads -> SUBSET Facilities] /\ stable' \in [Threads -> BOOLEAN]
      BY <1>14 DEF FilterOut, Return
    <2> QED
      BY <1>14, <2>1, <2>2, <2>3, <2>4 DEF FilterOut, Return
  <1>15. ASSUME NEW t \in Threads, PassFilter(t) PROVE TypeOK'
    BY <1>15 DEF PassFilter, Go, Places
  <1>16. ASSUME NEW t \in Threads, OnlySyslog(t) PROVE TypeOK'
    <2>1. pc' \in [Threads -> Places]
      BY <1>16 DEF OnlySyslog, Return, Places
    <2>2. logged' \subseteq Seq(Piece) \cup {Forgotten} /\ misplaced' \in BOOLEAN
      BY <1>16 DEF OnlySyslog, Return
    <2>3. text' \in [Threads -> Seq(Piece) \cup {Forgotten}]
      BY <1>16 DEF OnlySyslog, Return
    <2>4. sinks' \in [Threads -> SUBSET Facilities] /\ stable' \in [Threads -> BOOLEAN]
      BY <1>16 DEF OnlySyslog, Return
    <2> QED
      BY <1>16, <2>1, <2>2, <2>3, <2>4 DEF OnlySyslog, Return
  <1>17. ASSUME NEW t \in Threads, LockLogger(t) PROVE TypeOK'
    BY <1>17 DEF LockLogger, Go, Places
  <1>18. ASSUME NEW t \in Threads, ToFile(t) PROVE TypeOK'
    <2>1. pc' \in [Threads -> Places]
      BY <1>18 DEF ToFile, Go, Places
    <2>2. sinks' \in [Threads -> SUBSET Facilities]
      BY <1>18 DEF ToFile, Facilities
    <2> QED
      BY <1>18, <2>1, <2>2 DEF ToFile, Go
  <1>19. ASSUME NEW t \in Threads, ToConsole(t) PROVE TypeOK'
    <2>1. pc' \in [Threads -> Places]
      BY <1>19 DEF ToConsole, Go, Places
    <2>2. sinks' \in [Threads -> SUBSET Facilities]
      BY <1>19 DEF ToConsole, Facilities
    <2> QED
      BY <1>19, <2>1, <2>2 DEF ToConsole, Go
  <1>20. ASSUME NEW t \in Threads, ToCallback(t) PROVE TypeOK'
    <2>1. pc' \in [Threads -> Places]
      BY <1>20 DEF ToCallback, Return, Places
    <2>2. logged' \subseteq Seq(Piece) \cup {Forgotten} /\ misplaced' \in BOOLEAN
      BY <1>20 DEF ToCallback, Return
    <2>3. text' \in [Threads -> Seq(Piece) \cup {Forgotten}]
      BY <1>20 DEF ToCallback, Return
    <2>4. sinks' \in [Threads -> SUBSET Facilities] /\ stable' \in [Threads -> BOOLEAN]
      BY <1>20 DEF ToCallback, Return
    <2> QED
      BY <1>20, <2>1, <2>2, <2>3, <2>4 DEF ToCallback, Return
  <1>21. ASSUME NEW t \in Threads, Throw(t) PROVE TypeOK'
    <2>1. text' \in [Threads -> Seq(Piece) \cup {Forgotten}]
      BY <1>21 DEF Throw
    <2>2. sinks' \in [Threads -> SUBSET Facilities] /\ stable' \in [Threads -> BOOLEAN]
      BY <1>21 DEF Throw
    <2>3. bufferMutex' \in Threads \cup {Nobody} /\ loggerMutex' = Nobody /\ good' = FALSE
      BY <1>21 DEF Throw, MutexAfterThrow
    <2> QED
      BY <1>21, <2>1, <2>2, <2>3 DEF Throw, Go, Places
  <1>22. ASSUME NEW f \in Facilities, BeginChange(f) PROVE TypeOK'
    <2>1. changing' \in Facilities /\ fileOpen' \in BOOLEAN
      BY <1>22 DEF BeginChange, Facilities
    <2>2. stable' \in [Threads -> BOOLEAN] /\ changes' \in 0..MaxChanges
      BY <1>22 DEF BeginChange
    <2> QED
      BY <1>22, <2>1, <2>2 DEF BeginChange
  <1>23. ASSUME EndChange PROVE TypeOK'
    BY <1>23 DEF EndChange
  <1>24. ASSUME NEW l \in NewLevels, SetRootLevel(l) PROVE TypeOK'
    <2>1. rootLevel' \in LogLevels
      BY <1>24 DEF SetRootLevel, LogLevels
    <2>2. stable' \in [Threads -> BOOLEAN] /\ changes' \in 0..MaxChanges
      BY <1>24 DEF SetRootLevel
    <2> QED
      BY <1>24, <2>1, <2>2 DEF SetRootLevel
  <1>25. ASSUME UNCHANGED vars PROVE TypeOK'
    BY <1>25 DEF vars
  <1> HIDE DEF TypeOK, bufVars, logVars, settings
  <1> QED
    BY <1>1, <1>2, <1>3, <1>4, <1>5, <1>6, <1>7, <1>8, <1>9,
       <1>10, <1>11, <1>12, <1>13, <1>14, <1>15, <1>16, <1>17, <1>18,
       <1>19, <1>20, <1>21, <1>22, <1>23, <1>24, <1>25 DEF Next, Proceed

\* Every variable has its type in every state.
THEOREM TypeCorrect == Spec => []TypeOK
  BY TypeInit, TypeStep, PTL DEF Spec

-----------------------------------------------------------------------------
(* Where texts are written *)

\* Where a text must have gone already when Log is at a place.
SoFar(place, x) ==
  Due(x) \cap {f \in Facilities : \/ f = "SYSLOG"
                                  \/ f = "FILE" /\ place \in {"console", "notify"}
                                  \/ f = "CONSOLE" /\ place = "notify"}

\* While the settings are stable a thread's text has gone where it must have.
Placed(t) ==
  stable[t] =>
    /\ changing = Unchanged
    /\ pc[t] \in {"gate", "file", "console", "notify"}
    /\ ~Filtered(text[t])
    /\ sinks[t] = SoFar(pc[t], text[t])

\* The facility of the file has its file.
HasFile ==
  /\ facility = "FILE" /\ changing = Unchanged => fileOpen
  /\ changing = "FILE" => fileOpen

WhereInv ==
  /\ ~misplaced
  /\ HasFile
  /\ \A t \in Threads : Placed(t)

\* It stays so for a thread that does not move, as long as the settings stay.
LEMMA PlacedKept ==
  ASSUME NEW t \in Threads, Placed(t), UNCHANGED <<facility, changing, rootLevel>>,
         stable'[t] => /\ stable[t]
                       /\ pc'[t] = pc[t] /\ text'[t] = text[t] /\ sinks'[t] = sinks[t]
  PROVE  Placed(t)'
  <1> SUFFICES ASSUME stable'[t] PROVE Placed(t)'
    BY DEF Placed
  <1>1. pc'[t] = pc[t] /\ text'[t] = text[t] /\ sinks'[t] = sinks[t] /\ stable[t]
    OBVIOUS
  <1>2. Filtered(text[t])' <=> Filtered(text[t])
    BY <1>1 DEF Filtered
  <1>3. Due(text[t])' = Due(text[t])
    BY <1>1, <1>2 DEF Due
  <1>4. SoFar(pc[t], text[t])' = SoFar(pc[t], text[t])
    BY <1>1, <1>3 DEF SoFar
  <1> QED
    BY <1>1, <1>2, <1>4 DEF Placed

\* A step of one thread in Log leaves the others' texts where they are.
LEMMA WhereOthers ==
  ASSUME TypeOK, WhereInv, NEW t \in Threads, UNCHANGED settings,
         \A s \in Threads \ {t} :
           stable'[s] => /\ stable[s]
                         /\ pc'[s] = pc[s] /\ text'[s] = text[s] /\ sinks'[s] = sinks[s],
         ~misplaced', Placed(t)'
  PROVE  WhereInv'
  <1>1. \A s \in Threads \ {t} : Placed(s)'
    BY PlacedKept DEF WhereInv, settings
  <1>2. HasFile'
    BY DEF HasFile, WhereInv, settings
  <1> QED
    BY <1>1, <1>2 DEF WhereInv

\* Outside of Log nothing is placed.
LEMMA WhereQuiet ==
  ASSUME TypeOK, WhereInv, UNCHANGED <<settings, misplaced, sinks, stable>>,
         \A s \in Threads :
           pc[s] \in {"gate", "file", "console", "notify"} => pc'[s] = pc[s] /\ text'[s] = text[s]
  PROVE  WhereInv'
  <1>1. \A s \in Threads : Placed(s)'
    BY PlacedKept DEF WhereInv, Placed, settings
  <1>2. HasFile'
    BY DEF HasFile, WhereInv, settings
  <1> QED
    BY <1>1, <1>2 DEF WhereInv

\* What Log does with a text.
LEMMA WhereLog ==
  ASSUME TypeOK, WhereInv, NEW t \in Threads,
         \/ FilterOut(t) \/ PassFilter(t) \/ OnlySyslog(t) \/ LockLogger(t)
         \/ ToFile(t) \/ ToConsole(t) \/ ToCallback(t) \/ Throw(t)
  PROVE  WhereInv'
  <1> USE DEF TypeOK
  <1> DEFINE x == text[t]
  <1>1. UNCHANGED settings
    BY DEF FilterOut, PassFilter, OnlySyslog, LockLogger, ToFile, ToConsole, ToCallback, Throw
  <1>2. \A s \in Threads \ {t} :
          stable'[s] => /\ stable[s]
                        /\ pc'[s] = pc[s] /\ text'[s] = text[s] /\ sinks'[s] = sinks[s]
    BY DEF FilterOut, PassFilter, OnlySyslog, LockLogger, ToFile, ToConsole, ToCallback, Throw,
           Go, Return
  <1>3. ~misplaced /\ HasFile /\ Placed(t)
    BY DEF WhereInv
  <1>4. facility \in Facilities
    OBVIOUS
  <1>5. Filtered(x)' <=> \/ facility = "NONE" \/ LevelOf(x') > ChildLevel \/ LevelOf(x') > rootLevel
    BY <1>1 DEF Filtered, settings
  <1>6. ASSUME text'[t] = x
        PROVE  /\ Filtered(x)' <=> Filtered(x)
               /\ \A p : SoFar(p, x)' = SoFar(p, x)
    BY <1>1, <1>6 DEF Filtered, Due, SoFar, settings
  <1>7. ~Filtered(x) => facility # "NONE"
    BY DEF Filtered
  <1>8. CASE FilterOut(t)
    <2>1. Due(x) = {}
      BY <1>8 DEF FilterOut, Due
    <2>2. ~misplaced' /\ ~stable'[t]
      BY <1>3, <1>8, <2>1 DEF FilterOut, Return
    <2> QED
      BY <1>1, <1>2, <2>2, WhereOthers DEF Placed
  <1>9. CASE PassFilter(t)
    <2>1. /\ ~Filtered(x) /\ pc'[t] = "gate" /\ text'[t] = x /\ ~misplaced'
          /\ sinks'[t] = {"SYSLOG"} \cap {facility}
          /\ stable'[t] <=> changing = Unchanged
      BY <1>3, <1>9 DEF PassFilter, Go
    <2>2. SoFar("gate", x) = {"SYSLOG"} \cap {facility}
      BY <2>1, <1>4 DEF SoFar, Due, Facilities
    <2>3. Placed(t)'
      BY <1>1, <1>6, <2>1, <2>2 DEF Placed, settings
    <2> QED
      BY <1>1, <1>2, <2>1, <2>3, WhereOthers
  <1>10. CASE OnlySyslog(t)
    <2>1. stable[t] => sinks[t] = Due(x)
      BY <1>3, <1>4, <1>10 DEF OnlySyslog, Placed, SoFar, Due, Facilities
    <2>2. ~misplaced' /\ ~stable'[t]
      BY <1>3, <1>10, <2>1 DEF OnlySyslog, Return
    <2> QED
      BY <1>1, <1>2, <2>2, WhereOthers DEF Placed
  <1>11. CASE LockLogger(t)
    <2>1. /\ pc[t] = "gate" /\ pc'[t] = "file" /\ text'[t] = x /\ ~misplaced'
          /\ sinks'[t] = sinks[t] /\ stable'[t] = stable[t]
      BY <1>3, <1>11 DEF LockLogger, Go
    <2>2. SoFar("file", x) = SoFar("gate", x)
      BY DEF SoFar
    <2>3. Placed(t)'
      BY <1>1, <1>3, <1>6, <2>1, <2>2 DEF Placed, settings
    <2> QED
      BY <1>1, <1>2, <2>1, <2>3, WhereOthers
  <1>12. CASE ToFile(t)
    <2>1. /\ pc[t] = "file" /\ pc'[t] = "console" /\ text'[t] = x /\ ~misplaced'
          /\ sinks'[t] = sinks[t] \cup (IF facility = "FILE" /\ fileOpen THEN {"FILE"} ELSE {})
          /\ stable'[t] = stable[t]
      BY <1>3, <1>12 DEF ToFile, Go
    <2>2. ASSUME stable[t] PROVE sinks'[t] = SoFar("console", x)
      <3>1. sinks[t] = SoFar("file", x) /\ ~Filtered(x) /\ (facility = "FILE" => fileOpen)
        BY <1>3, <2>1, <2>2 DEF Placed, HasFile
      <3> QED
        BY <1>4, <2>1, <3>1 DEF SoFar, Due, Facilities
    <2>3. Placed(t)'
      BY <1>1, <1>3, <1>6, <2>1, <2>2 DEF Placed, settings
    <2> QED
      BY <1>1, <1>2, <2>1, <2>3, WhereOthers
  <1>13. CASE ToConsole(t)
    <2>1. /\ pc[t] = "console" /\ pc'[t] = "notify" /\ text'[t] = x /\ ~misplaced'
          /\ sinks'[t] = sinks[t] \cup (IF ConsoleDue THEN {"CONSOLE"} ELSE {})
          /\ stable'[t] = stable[t]
      BY <1>3, <1>13 DEF ToConsole, Go
    <2>2. ASSUME stable[t] PROVE sinks'[t] = SoFar("notify", x)
      <3>1. sinks[t] = SoFar("console", x) /\ ~Filtered(x)
        BY <1>3, <2>1, <2>2 DEF Placed
      <3> QED
        BY <1>4, <2>1, <3>1 DEF SoFar, Due, Facilities, ConsoleDue
    <2>3. Placed(t)'
      BY <1>1, <1>3, <1>6, <2>1, <2>2 DEF Placed, settings
    <2> QED
      BY <1>1, <1>2, <2>1, <2>3, WhereOthers
  <1>14. CASE ToCallback(t)
    <2>1. stable[t] => sinks[t] \cup ({"NOTIFY"} \cap {facility}) = Due(x)
      <3>1. pc[t] = "notify"
        BY <1>14 DEF ToCallback
      <3>2. ASSUME stable[t]
            PROVE  sinks[t] = SoFar("notify", x) /\ ~Filtered(x) /\ facility # "NONE"
        BY <1>3, <1>7, <3>1, <3>2 DEF Placed
      <3> QED
        BY <1>4, <3>2 DEF SoFar, Due, Facilities
    <2>2. ~misplaced' /\ ~stable'[t]
      BY <1>3, <1>14, <2>1 DEF ToCallback, Return
    <2> QED
      BY <1>1, <1>2, <2>2, WhereOthers DEF Placed
  <1>15. CASE Throw(t)
    <2>1. ~misplaced' /\ ~stable'[t]
      BY <1>3, <1>15 DEF Throw
    <2> QED
      BY <1>1, <1>2, <2>1, WhereOthers DEF Placed
  <1> QED
    BY <1>8, <1>9, <1>10, <1>11, <1>12, <1>13, <1>14, <1>15

\* No step breaks it.
LEMMA WhereStep == TypeOK /\ WhereInv /\ [Next]_vars => WhereInv'
  <1> SUFFICES ASSUME TypeOK, WhereInv, [Next]_vars PROVE WhereInv'
    OBVIOUS
  <1> DEFINE Quiet ==
        /\ UNCHANGED <<settings, misplaced, sinks, stable>>
        /\ \A s \in Threads :
             pc[s] \in {"gate", "file", "console", "notify"} => pc'[s] = pc[s] /\ text'[s] = text[s]
  <1> USE DEF logVars, bufVars, TypeOK
  <1>1. ASSUME NEW t \in Threads, Begin(t) PROVE Quiet
    BY <1>1 DEF Begin, Go
  <1>2. ASSUME NEW t \in Threads, Enter(t) PROVE Quiet
    BY <1>2 DEF Enter, Free
  <1>3. ASSUME NEW t \in Threads, FindBusy(t) PROVE Quiet
    BY <1>3 DEF FindBusy
  <1>4. ASSUME NEW t \in Threads, FallAsleep(t) PROVE Quiet
    BY <1>4 DEF FallAsleep, Go
  <1>5. ASSUME NEW t \in Threads, TimeOutFree(t) PROVE Quiet
    BY <1>5 DEF TimeOutFree, Go
  <1>6. ASSUME NEW t \in Threads, TimeOutBusy(t) PROVE Quiet
    BY <1>6 DEF TimeOutBusy, Go
  <1>7. ASSUME NEW t \in Threads, Seize(t) PROVE Quiet
    BY <1>7 DEF Seize, Go
  <1>8. ASSUME NEW t \in Threads, Put(t) PROVE Quiet
    BY <1>8 DEF Put, Go
  <1>9. ASSUME NEW t \in Threads, Flush(t) PROVE Quiet
    BY <1>9 DEF Flush, Go, BusyInLog
  <1>10. ASSUME NEW t \in Threads, Clear(t) PROVE Quiet
    BY <1>10 DEF Clear, Go
  <1>11. ASSUME NEW t \in Threads, Release(t) PROVE Quiet
    BY <1>11 DEF Release, Go
  <1>12. ASSUME NEW t \in Threads, Signal(t) PROVE Quiet
    BY <1>12 DEF Signal
  <1>13. ASSUME NEW t \in Threads, Skip(t) PROVE Quiet
    BY <1>13 DEF Skip, Go
  <1> HIDE DEF logVars, bufVars, TypeOK
  <1>14. ASSUME NEW f \in Facilities, BeginChange(f) PROVE WhereInv'
    <2>1. HasFile' /\ ~misplaced'
      BY <1>14 DEF BeginChange, WhereInv, HasFile, TypeOK, Facilities, Unchanged
    <2>2. \A t \in Threads : ~stable'[t]
      BY <1>14 DEF BeginChange
    <2> QED
      BY <2>1, <2>2 DEF WhereInv, Placed
  <1>15. ASSUME EndChange PROVE WhereInv'
    <2>1. HasFile' /\ ~misplaced'
      BY <1>15 DEF EndChange, WhereInv, HasFile, logVars, Unchanged
    <2>2. \A t \in Threads : ~stable'[t]
      BY <1>15 DEF EndChange, WhereInv, Placed, logVars
    <2> QED
      BY <2>1, <2>2 DEF WhereInv, Placed
  <1>16. ASSUME NEW l \in NewLevels, SetRootLevel(l) PROVE WhereInv'
    <2>1. HasFile' /\ ~misplaced'
      BY <1>16 DEF SetRootLevel, WhereInv, HasFile
    <2>2. \A t \in Threads : ~stable'[t]
      BY <1>16 DEF SetRootLevel
    <2> QED
      BY <2>1, <2>2 DEF WhereInv, Placed
  <1>17. ASSUME UNCHANGED vars PROVE WhereInv'
    BY <1>17, WhereQuiet DEF vars, logVars
  <1>18. ASSUME Quiet PROVE WhereInv'
    BY <1>18, WhereQuiet
  <1> HIDE DEF Quiet
  <1> QED
    BY <1>1, <1>2, <1>3, <1>4, <1>5, <1>6, <1>7, <1>8, <1>9, <1>10, <1>11, <1>12, <1>13,
       <1>14, <1>15, <1>16, <1>17, <1>18, WhereLog DEF Next, Proceed

\* A text is written where it is due, to each place once and to no other, unless
\* the settings change while it is on its way.
THEOREM AlwaysWrittenWhereDue == Spec => []WrittenWhereDue
  <1>1. Init => WhereInv
    BY DEF Init, WhereInv, HasFile, Placed, Unchanged
  <1>2. WhereInv => WrittenWhereDue
    BY DEF WhereInv, WrittenWhereDue
  <1> QED
    BY <1>1, <1>2, WhereStep, TypeInit, TypeStep, PTL DEF Spec

-----------------------------------------------------------------------------
(* The stream when nobody writes *)

\* Only a thread that complains or is about to sleep holds the buffer's mutex,
\* and only one that writes to the sinks holds the logger's.
MutexInv ==
  /\ bufferMutex \in Threads =>
       \/ pc[bufferMutex] \in {"tested", "seize"}
       \/ pc[bufferMutex] \in {"filter", "gate", "file", "console", "notify"}
            /\ text[bufferMutex] = Forgotten
  /\ loggerMutex \in Threads => pc[loggerMutex] \in {"file", "console", "notify"}

\* No step breaks it.
LEMMA MutexStep == TypeOK /\ MutexInv /\ [Next]_vars => MutexInv'
  <1> SUFFICES ASSUME TypeOK /\ MutexInv, [Next]_vars PROVE MutexInv'
    OBVIOUS
  <1> USE LoggingAssumption DEF TypeOK, MutexInv, bufVars, logVars, settings
  <1>1. ASSUME NEW t \in Threads, Begin(t) PROVE MutexInv'
    BY <1>1 DEF Begin, Go
  <1>2. ASSUME NEW t \in Threads, Enter(t) PROVE MutexInv'
    BY <1>2 DEF Enter, Free
  <1>3. ASSUME NEW t \in Threads, FindBusy(t) PROVE MutexInv'
    BY <1>3 DEF FindBusy
  <1>4. ASSUME NEW t \in Threads, FallAsleep(t) PROVE MutexInv'
    BY <1>4 DEF FallAsleep, Go
  <1>5. ASSUME NEW t \in Threads, TimeOutFree(t) PROVE MutexInv'
    BY <1>5 DEF TimeOutFree, Go
  <1>6. ASSUME NEW t \in Threads, TimeOutBusy(t) PROVE MutexInv'
    BY <1>6 DEF TimeOutBusy, Go
  <1>7. ASSUME NEW t \in Threads, Seize(t) PROVE MutexInv'
    BY <1>7 DEF Seize, Go
  <1>8. ASSUME NEW t \in Threads, Put(t) PROVE MutexInv'
    BY <1>8 DEF Put, Go
  <1>9. ASSUME NEW t \in Threads, Flush(t) PROVE MutexInv'
    BY <1>9 DEF Flush, Go, BusyInLog
  <1>10. ASSUME NEW t \in Threads, Clear(t) PROVE MutexInv'
    BY <1>10 DEF Clear, Go
  <1>11. ASSUME NEW t \in Threads, Release(t) PROVE MutexInv'
    BY <1>11 DEF Release, Go
  <1>12. ASSUME NEW t \in Threads, Signal(t) PROVE MutexInv'
    BY <1>12 DEF Signal
  <1>13. ASSUME NEW t \in Threads, Skip(t) PROVE MutexInv'
    BY <1>13 DEF Skip, Go
  <1>14. ASSUME NEW t \in Threads, FilterOut(t) PROVE MutexInv'
    BY <1>14 DEF FilterOut, Return
  <1>15. ASSUME NEW t \in Threads, PassFilter(t) PROVE MutexInv'
    BY <1>15 DEF PassFilter, Go
  <1>16. ASSUME NEW t \in Threads, OnlySyslog(t) PROVE MutexInv'
    BY <1>16 DEF OnlySyslog, Return
  <1>17. ASSUME NEW t \in Threads, LockLogger(t) PROVE MutexInv'
    BY <1>17 DEF LockLogger, Go
  <1>18. ASSUME NEW t \in Threads, ToFile(t) PROVE MutexInv'
    BY <1>18 DEF ToFile, Go
  <1>19. ASSUME NEW t \in Threads, ToConsole(t) PROVE MutexInv'
    BY <1>19 DEF ToConsole, Go
  <1>20. ASSUME NEW t \in Threads, ToCallback(t) PROVE MutexInv'
    BY <1>20 DEF ToCallback, Return
  <1>21. ASSUME NEW t \in Threads, Throw(t) PROVE MutexInv'
    BY <1>21 DEF Throw, Go, MutexAfterThrow
  <1>22. ASSUME NEW f \in Facilities, BeginChange(f) PROVE MutexInv'
    BY <1>22 DEF BeginChange
  <1>23. ASSUME EndChange PROVE MutexInv'
    BY <1>23 DEF EndChange
  <1>24. ASSUME NEW l \in NewLevels, SetRootLevel(l) PROVE MutexInv'
    BY <1>24 DEF SetRootLevel
  <1>25. ASSUME UNCHANGED vars PROVE MutexInv'
    BY <1>25 DEF vars
  <1> HIDE DEF TypeOK, MutexInv, bufVars, logVars, settings
  <1> QED
    BY <1>1, <1>2, <1>3, <1>4, <1>5, <1>6, <1>7, <1>8, <1>9,
       <1>10, <1>11, <1>12, <1>13, <1>14, <1>15, <1>16, <1>17, <1>18,
       <1>19, <1>20, <1>21, <1>22, <1>23, <1>24, <1>25 DEF Next, Proceed

\* A thread that has put pieces in the buffer, or was lent it, and will still
\* clear it, or give it back.
WillClear(t) == written[t] > 0 /\ pc[t] \notin {"idle", "release", "signal"}
WillRelease(t) ==
  \/ pc[t] \in {"granted", "release"}
  \/ written[t] > 0 /\ pc[t] \notin {"idle", "signal"}

\* Whoever has taken the buffer from whom: as long as the stream is good, there
\* is a thread that will clear what is in it and one that will give it back.
LentInv ==
  good => /\ buf # <<>> => \E t \in Threads : WillClear(t)
          /\ busy => \E t \in Threads : WillRelease(t)

\* No step breaks it.
LEMMA LentStep == TypeOK /\ LentInv /\ [Next]_vars => LentInv'
  <1> SUFFICES ASSUME TypeOK /\ LentInv, [Next]_vars PROVE LentInv'
    OBVIOUS
  <1> USE LoggingAssumption DEF TypeOK, LentInv, WillClear, WillRelease, bufVars, logVars, settings
  <1>1. ASSUME NEW t \in Threads, Begin(t) PROVE LentInv'
    BY <1>1 DEF Begin, Go
  <1>2. ASSUME NEW t \in Threads, Enter(t) PROVE LentInv'
    BY <1>2 DEF Enter, Free
  <1>3. ASSUME NEW t \in Threads, FindBusy(t) PROVE LentInv'
    BY <1>3 DEF FindBusy
  <1>4. ASSUME NEW t \in Threads, FallAsleep(t) PROVE LentInv'
    BY <1>4 DEF FallAsleep, Go
  <1>5. ASSUME NEW t \in Threads, TimeOutFree(t) PROVE LentInv'
    BY <1>5 DEF TimeOutFree, Go
  <1>6. ASSUME NEW t \in Threads, TimeOutBusy(t) PROVE LentInv'
    BY <1>6 DEF TimeOutBusy, Go
  <1>7. ASSUME NEW t \in Threads, Seize(t) PROVE LentInv'
    BY <1>7 DEF Seize, Go
  <1>8. ASSUME NEW t \in Threads, Put(t) PROVE LentInv'
    <2>1. written[t] \in Nat /\ written'[t] = written[t] + 1 /\ pc'[t] = "enter"
      BY <1>8 DEF Put, Go
    <2>2. WillClear(t)' /\ WillRelease(t)'
      BY <2>1
    <2> QED
      BY <2>2
  <1>9. ASSUME NEW t \in Threads, Flush(t) PROVE LentInv'
    BY <1>9 DEF Flush, Go, BusyInLog
  <1>10. ASSUME NEW t \in Threads, Clear(t) PROVE LentInv'
    BY <1>10 DEF Clear, Go
  <1>11. ASSUME NEW t \in Threads, Release(t) PROVE LentInv'
    BY <1>11 DEF Release, Go
  <1>12. ASSUME NEW t \in Threads, Signal(t) PROVE LentInv'
    BY <1>12 DEF Signal
  <1>13. ASSUME NEW t \in Threads, Skip(t) PROVE LentInv'
    BY <1>13 DEF Skip, Go
  <1>14. ASSUME NEW t \in Threads, FilterOut(t) PROVE LentInv'
    BY <1>14 DEF FilterOut, Return
  <1>15. ASSUME NEW t \in Threads, PassFilter(t) PROVE LentInv'
    BY <1>15 DEF PassFilter, Go
  <1>16. ASSUME NEW t \in Threads, OnlySyslog(t) PROVE LentInv'
    BY <1>16 DEF OnlySyslog, Return
  <1>17. ASSUME NEW t \in Threads, LockLogger(t) PROVE LentInv'
    BY <1>17 DEF LockLogger, Go
  <1>18. ASSUME NEW t \in Threads, ToFile(t) PROVE LentInv'
    BY <1>18 DEF ToFile, Go
  <1>19. ASSUME NEW t \in Threads, ToConsole(t) PROVE LentInv'
    BY <1>19 DEF ToConsole, Go
  <1>20. ASSUME NEW t \in Threads, ToCallback(t) PROVE LentInv'
    BY <1>20 DEF ToCallback, Return
  <1>21. ASSUME NEW t \in Threads, Throw(t) PROVE LentInv'
    BY <1>21 DEF Throw, Go, MutexAfterThrow
  <1>22. ASSUME NEW f \in Facilities, BeginChange(f) PROVE LentInv'
    BY <1>22 DEF BeginChange
  <1>23. ASSUME EndChange PROVE LentInv'
    BY <1>23 DEF EndChange
  <1>24. ASSUME NEW l \in NewLevels, SetRootLevel(l) PROVE LentInv'
    BY <1>24 DEF SetRootLevel
  <1>25. ASSUME UNCHANGED vars PROVE LentInv'
    BY <1>25 DEF vars
  <1> HIDE DEF TypeOK, LentInv, WillClear, WillRelease, bufVars, logVars, settings
  <1> QED
    BY <1>1, <1>2, <1>3, <1>4, <1>5, <1>6, <1>7, <1>8, <1>9,
       <1>10, <1>11, <1>12, <1>13, <1>14, <1>15, <1>16, <1>17, <1>18,
       <1>19, <1>20, <1>21, <1>22, <1>23, <1>24, <1>25 DEF Next, Proceed

\* Once no thread is in the middle of a statement the buffer is empty, free and
\* unlocked, unless the stream has gone bad, and neither mutex is locked.
THEOREM QuietIsAlwaysClean == Spec => []QuietIsClean
  <1>1. Init => MutexInv /\ LentInv
    BY LoggingAssumption DEF Init, MutexInv, LentInv
  <1>2. TypeOK /\ MutexInv /\ LentInv => QuietIsClean
    <2> SUFFICES ASSUME TypeOK, MutexInv, LentInv, \A t \in Threads : pc[t] = "idle"
                 PROVE  /\ bufferMutex = Nobody /\ loggerMutex = Nobody
                        /\ good => ~busy /\ buf = <<>>
      BY DEF QuietIsClean
    <2>1. bufferMutex = Nobody /\ loggerMutex = Nobody
      BY DEF TypeOK, MutexInv
    <2>2. \A t \in Threads : ~WillClear(t) /\ ~WillRelease(t)
      BY DEF WillClear, WillRelease
    <2> QED
      BY <2>1, <2>2 DEF LentInv
  <1> QED
    BY <1>1, <1>2, MutexStep, LentStep, TypeInit, TypeStep, PTL DEF Spec

-----------------------------------------------------------------------------
(* Messages stay whole *)

\* A thread the buffer is lent to, for as long as nobody takes it over.
Holds(t) ==
  \/ pc[t] \in {"granted", "clear", "release"}
  \/ pc[t] \in {"filter", "gate", "file", "console", "notify"} /\ text[t] # Forgotten
  \/ pc[t] = "enter" /\ written[t] > 0

\* The first k pieces of a thread's n-th message.
Part(t, n, k) == [i \in 1..k |-> <<t, n, i>>]

\* One thread holds it, and what is in it, or in what that thread logs, is of
\* its message; a thread that waits has put nothing in.
HolderInv ==
  /\ \A t \in Threads : Holds(t) => busy /\ owner = t
  /\ busy => owner \in Threads /\ (Holds(owner) \/ (~good /\ pc[owner] = "idle"))
  /\ ~busy => buf = <<>>
  /\ \A t \in Threads :
       /\ pc[t] \in {"enter", "granted"} /\ Holds(t) => buf = Part(t, said[t], written[t])
       /\ pc[t] = "release" => buf = <<>>
       /\ pc[t] \in {"tested", "asleep", "woken"} => written[t] = 0
       /\ pc[t] \in {"filter", "gate", "file", "console", "notify"} /\ text[t] # Forgotten =>
            text[t] = Message(t, said[t])

\* The texts logged are messages that were begun.
LoggedInv ==
  \A x \in logged \ {Forgotten} : \E t \in Threads : \E n \in 1..said[t] : x = Message(t, n)

MixInv ==
  /\ \A t \in Threads : pc[t] # "idle" => said[t] > 0
  /\ ~tookOver => HolderInv /\ LoggedInv

\* A piece more of a message in the buffer.
LEMMA PartGrows ==
  ASSUME NEW t \in Threads, NEW n \in Nat, NEW k \in Nat
  PROVE  Append(Part(t, n, k), <<t, n, k + 1>>) = Part(t, n, k + 1)
  <1> DEFINE p == Part(t, n, k)
  <1> DEFINE q == Append(p, <<t, n, k + 1>>)
  <1>1. p \in Seq(Piece) /\ Len(p) = k /\ \A i \in 1..k : p[i] = <<t, n, i>>
    BY DEF Part, Piece
  <1>2. <<t, n, k + 1>> \in Piece
    BY DEF Piece
  <1> HIDE DEF p
  <1>3. q \in Seq(Piece) /\ Len(q) = k + 1 /\ \A i \in 1..k + 1 : q[i] = <<t, n, i>>
    BY <1>1, <1>2
  <1> HIDE DEF q
  <1>4. q = [i \in 1..k + 1 |-> <<t, n, i>>]
    <2>1. q = [i \in 1..Len(q) |-> q[i]]
      BY <1>3
    <2> QED
      BY <1>3, <2>1
  <1> QED
    BY <1>4 DEF q, p, Part

\* Nothing of it, and all of it.
LEMMA PartEnds ==
  ASSUME NEW t, NEW n
  PROVE  Part(t, n, 0) = << >> /\ Part(t, n, Pieces) = Message(t, n)
  BY DEF Part, Message

\* A thread that is lent the buffer finds in it what it has put there.
LEMMA GrantStep ==
  ASSUME TypeOK, HolderInv, NEW t \in Threads, pc[t] \in {"enter", "woken", "asleep"}, Free(t),
         pc' = [pc EXCEPT ![t] = "granted"], busy' = TRUE, owner' = t,
         UNCHANGED <<text, said, written, buf, good>>
  PROVE  HolderInv'
  <1> USE DEF TypeOK
  <1>1. \A s \in Threads \ {t} : ~Holds(s)
    BY DEF HolderInv, Free
  <1>2. buf = Part(t, said[t], written[t])
    <2>1. CASE busy
      <3>1. owner = t
        BY <2>1 DEF Free
      <3>2. Holds(t) /\ pc[t] = "enter"
        BY <2>1, <3>1 DEF HolderInv, Holds
      <3> QED
        BY <3>2 DEF HolderInv
    <2>2. CASE ~busy
      <3>1. buf = << >> /\ ~Holds(t)
        BY <2>2 DEF HolderInv
      <3>2. written[t] = 0
        BY <3>1 DEF HolderInv, Holds
      <3> QED
        BY <3>1, <3>2, PartEnds
    <2> QED
      BY <2>1, <2>2
  <1>3. \A s \in Threads \ {t} : pc'[s] = pc[s] /\ ~Holds(s)'
    BY <1>1 DEF Holds
  <1>4. pc'[t] = "granted" /\ Holds(t)'
    BY DEF Holds
  <1>5. ASSUME NEW s \in Threads
        PROVE  /\ pc'[s] \in {"enter", "granted"} /\ Holds(s)' => buf' = Part(s, said'[s], written'[s])
               /\ pc'[s] = "release" => buf' = <<>>
               /\ pc'[s] \in {"tested", "asleep", "woken"} => written'[s] = 0
               /\ pc'[s] \in {"filter", "gate", "file", "console", "notify"} /\ text'[s] # Forgotten =>
                    text'[s] = Message(s, said'[s])
    BY <1>2, <1>3, <1>4 DEF HolderInv
  <1> QED
    BY <1>3, <1>4, <1>5 DEF HolderInv

\* No step of theirs breaks it, but taking the buffer over.
LEMMA HolderStep == TypeOK /\ HolderInv /\ ~tookOver' /\ [Next]_vars => HolderInv'
  <1> SUFFICES ASSUME TypeOK /\ HolderInv /\ ~tookOver', [Next]_vars PROVE HolderInv'
    OBVIOUS
  <1> USE LoggingAssumption DEF TypeOK, HolderInv, Holds, bufVars, logVars, settings
  <1>1. ASSUME NEW t \in Threads, Begin(t) PROVE HolderInv'
    <2>1. /\ pc[t] = "idle" /\ pc'[t] = "enter" /\ written'[t] = 0 /\ good
          /\ UNCHANGED <<text, buf, busy, owner, good>>
          /\ \A s \in Threads \ {t} : pc'[s] = pc[s] /\ written'[s] = written[s] /\ said'[s] = said[s]
      BY <1>1 DEF Begin, Go
    <2>2. busy => owner # t
      BY <2>1
    <2>3. ~Holds(t)' /\ \A s \in Threads \ {t} : Holds(s)' <=> Holds(s)
      <3> HIDE DEF TypeOK, HolderInv
      <3> QED
        BY <2>1 DEF Holds
    <2> HIDE DEF Holds
    <2> QED
      BY <2>1, <2>2, <2>3
  <1>2. ASSUME NEW t \in Threads, Enter(t) PROVE HolderInv'
    BY <1>2, GrantStep DEF Enter
  <1>3. ASSUME NEW t \in Threads, FindBusy(t) PROVE HolderInv'
    <2>1. written[t] = 0
      <3>1. CASE pc[t] = "enter"
        BY <1>3, <3>1 DEF FindBusy, Free
      <3>2. CASE pc[t] = "woken"
        BY <3>2
      <3> QED
        BY <1>3, <3>1, <3>2 DEF FindBusy
    <2> QED
      BY <1>3, <2>1 DEF FindBusy
  <1>4. ASSUME NEW t \in Threads, FallAsleep(t) PROVE HolderInv'
    BY <1>4 DEF FallAsleep, Go
  <1>5. ASSUME NEW t \in Threads, TimeOutFree(t) PROVE HolderInv'
    BY <1>5, GrantStep DEF TimeOutFree, Go
  <1>6. ASSUME NEW t \in Threads, TimeOutBusy(t) PROVE HolderInv'
    BY <1>6 DEF TimeOutBusy, Go
  <1>7. ASSUME NEW t \in Threads, Seize(t) PROVE HolderInv'
    BY <1>7 DEF Seize, Go
  <1>8. ASSUME NEW t \in Threads, Put(t) PROVE HolderInv'
    <2>1. pc[t] = "granted" /\ buf = Part(t, said[t], written[t])
      BY <1>8 DEF Put, Go
    <2>2. said[t] \in Nat /\ written[t] \in Nat
      OBVIOUS
    <2>3. buf' = Part(t, said'[t], written'[t]) /\ written'[t] > 0
      <3>1. /\ buf' = Append(buf, <<t, said[t], written[t] + 1>>)
            /\ written'[t] = written[t] + 1 /\ said'[t] = said[t]
        BY <1>8 DEF Put
      <3>2. Append(Part(t, said[t], written[t]), <<t, said[t], written[t] + 1>>)
              = Part(t, said[t], written[t] + 1)
        BY <2>2, PartGrows
      <3>3. written[t] + 1 > 0
        BY <2>2
      <3> HIDE DEF TypeOK, HolderInv
      <3> QED
        BY <2>1, <3>1, <3>2, <3>3
    <2>4. \A s \in Threads \ {t} : ~Holds(s)
      BY <2>1
    <2> QED
      BY <1>8, <2>1, <2>3, <2>4 DEF Put, Go
  <1>9. ASSUME NEW t \in Threads, Flush(t) PROVE HolderInv'
    <2>1. pc[t] = "granted" /\ buf = Message(t, said[t])
      BY <1>9, PartEnds DEF Flush, Go
    <2>2. buf # Forgotten
      OBVIOUS
    <2> QED
      BY <1>9, <2>1, <2>2 DEF Flush, Go, BusyInLog
  <1>10. ASSUME NEW t \in Threads, Clear(t) PROVE HolderInv'
    BY <1>10 DEF Clear, Go
  <1>11. ASSUME NEW t \in Threads, Release(t) PROVE HolderInv'
    BY <1>11 DEF Release, Go
  <1>12. ASSUME NEW t \in Threads, Signal(t) PROVE HolderInv'
    <2>1. CASE pc' = [pc EXCEPT ![t] = "idle"]
      BY <1>12, <2>1 DEF Signal
    <2>2. ASSUME NEW s \in Threads, pc[s] = "asleep", pc' = [pc EXCEPT ![t] = "idle", ![s] = "woken"]
          PROVE  HolderInv'
      <3>1. UNCHANGED <<text, said, written, buf, busy, owner, good>> /\ pc[t] = "signal"
        BY <1>12 DEF Signal
      <3>2. \A u \in Threads : pc'[u] = IF u = s THEN "woken" ELSE IF u = t THEN "idle" ELSE pc[u]
        BY <2>2, <3>1
      <3>3. \A u \in Threads : Holds(u)' <=> Holds(u)
        BY <2>2, <3>1, <3>2
      <3> HIDE DEF Holds
      <3>4. busy => owner # s /\ owner # t
        BY <2>2, <3>1 DEF Holds
      <3> QED
        BY <2>2, <3>1, <3>2, <3>3, <3>4
    <2> QED
      BY <1>12, <2>1, <2>2 DEF Signal
  <1>13. ASSUME NEW t \in Threads, Skip(t) PROVE HolderInv'
    BY <1>13 DEF Skip, Go
  <1>14. ASSUME NEW t \in Threads, FilterOut(t) PROVE HolderInv'
    BY <1>14 DEF FilterOut, Return
  <1>15. ASSUME NEW t \in Threads, PassFilter(t) PROVE HolderInv'
    BY <1>15 DEF PassFilter, Go
  <1>16. ASSUME NEW t \in Threads, OnlySyslog(t) PROVE HolderInv'
    BY <1>16 DEF OnlySyslog, Return
  <1>17. ASSUME NEW t \in Threads, LockLogger(t) PROVE HolderInv'
    BY <1>17 DEF LockLogger, Go
  <1>18. ASSUME NEW t \in Threads, ToFile(t) PROVE HolderInv'
    BY <1>18 DEF ToFile, Go
  <1>19. ASSUME NEW t \in Threads, ToConsole(t) PROVE HolderInv'
    BY <1>19 DEF ToConsole, Go
  <1>20. ASSUME NEW t \in Threads, ToCallback(t) PROVE HolderInv'
    BY <1>20 DEF ToCallback, Return
  <1>21. ASSUME NEW t \in Threads, Throw(t) PROVE HolderInv'
    BY <1>21 DEF Throw, Go, MutexAfterThrow
  <1>22. ASSUME NEW f \in Facilities, BeginChange(f) PROVE HolderInv'
    BY <1>22 DEF BeginChange
  <1>23. ASSUME EndChange PROVE HolderInv'
    BY <1>23 DEF EndChange
  <1>24. ASSUME NEW l \in NewLevels, SetRootLevel(l) PROVE HolderInv'
    BY <1>24 DEF SetRootLevel
  <1>25. ASSUME UNCHANGED vars PROVE HolderInv'
    BY <1>25 DEF vars
  <1> HIDE DEF TypeOK, HolderInv, Holds, bufVars, logVars, settings
  <1> QED
    BY <1>1, <1>2, <1>3, <1>4, <1>5, <1>6, <1>7, <1>8, <1>9,
       <1>10, <1>11, <1>12, <1>13, <1>14, <1>15, <1>16, <1>17, <1>18,
       <1>19, <1>20, <1>21, <1>22, <1>23, <1>24, <1>25 DEF Next, Proceed

\* Every step logs at most the text of one thread, and messages only come.
LEMMA LoggedStep ==
  ASSUME TypeOK, MixInv, [Next]_vars
  PROVE  /\ tookOver => tookOver'
         /\ \A t \in Threads : said'[t] >= said[t] /\ (pc'[t] # "idle" => said'[t] > 0)
         /\ \/ logged' = logged
            \/ \E t \in Threads :
                 /\ pc[t] \in {"filter", "gate", "file", "console", "notify"}
                 /\ logged' = logged \cup {text[t]}
  <1> DEFINE Grows == \A t \in Threads : said'[t] >= said[t] /\ (pc'[t] # "idle" => said'[t] > 0)
  <1> DEFINE Logs ==
        \E t \in Threads :
          /\ pc[t] \in {"filter", "gate", "file", "console", "notify"}
          /\ logged' = logged \cup {text[t]}
  <1> DEFINE Goal == (tookOver => tookOver') /\ Grows /\ (logged' = logged \/ Logs)
  <1> USE DEF bufVars, logVars, settings, TypeOK, MixInv
  <1>1. ASSUME NEW t \in Threads, Begin(t) PROVE Goal
    BY <1>1 DEF Begin, Go
  <1>2. ASSUME NEW t \in Threads, Enter(t) PROVE Goal
    BY <1>2 DEF Enter, Free
  <1>3. ASSUME NEW t \in Threads, FindBusy(t) PROVE Goal
    BY <1>3 DEF FindBusy
  <1>4. ASSUME NEW t \in Threads, FallAsleep(t) PROVE Goal
    BY <1>4 DEF FallAsleep, Go
  <1>5. ASSUME NEW t \in Threads, TimeOutFree(t) PROVE Goal
    BY <1>5 DEF TimeOutFree, Go
  <1>6. ASSUME NEW t \in Threads, TimeOutBusy(t) PROVE Goal
    BY <1>6 DEF TimeOutBusy, Go
  <1>7. ASSUME NEW t \in Threads, Seize(t) PROVE Goal
    BY <1>7 DEF Seize, Go
  <1>8. ASSUME NEW t \in Threads, Put(t) PROVE Goal
    <2>1. UNCHANGED <<said, logged, tookOver>>
      BY <1>8 DEF Put, Go
    <2>2. \A u \in Threads : pc'[u] # "idle" => pc[u] # "idle"
      BY <1>8 DEF Put, Go
    <2> QED
      BY <2>1, <2>2
  <1>9. ASSUME NEW t \in Threads, Flush(t) PROVE Goal
    BY <1>9 DEF Flush, Go, BusyInLog
  <1>10. ASSUME NEW t \in Threads, Clear(t) PROVE Goal
    BY <1>10 DEF Clear, Go
  <1>11. ASSUME NEW t \in Threads, Release(t) PROVE Goal
    BY <1>11 DEF Release, Go
  <1>12. ASSUME NEW t \in Threads, Signal(t) PROVE Goal
    <2>1. UNCHANGED <<said, logged, tookOver>>
      BY <1>12 DEF Signal
    <2>2. \A u \in Threads : pc'[u] # "idle" => pc[u] # "idle"
      BY <1>12 DEF Signal
    <2> QED
      BY <2>1, <2>2
  <1>13. ASSUME NEW t \in Threads, Skip(t) PROVE Goal
    BY <1>13 DEF Skip, Go
  <1>14. ASSUME NEW t \in Threads, FilterOut(t) PROVE Goal
    <2>1. UNCHANGED <<said, tookOver>> /\ \A u \in Threads : pc'[u] # "idle" => pc[u] # "idle"
      BY <1>14 DEF FilterOut, Return
    <2>2. Logs
      BY <1>14 DEF FilterOut, Return
    <2> HIDE DEF Logs
    <2> QED
      BY <2>1, <2>2
  <1>15. ASSUME NEW t \in Threads, PassFilter(t) PROVE Goal
    BY <1>15 DEF PassFilter, Go
  <1>16. ASSUME NEW t \in Threads, OnlySyslog(t) PROVE Goal
    BY <1>16 DEF OnlySyslog, Return
  <1>17. ASSUME NEW t \in Threads, LockLogger(t) PROVE Goal
    BY <1>17 DEF LockLogger, Go
  <1>18. ASSUME NEW t \in Threads, ToFile(t) PROVE Goal
    BY <1>18 DEF ToFile, Go
  <1>19. ASSUME NEW t \in Threads, ToConsole(t) PROVE Goal
    BY <1>19 DEF ToConsole, Go
  <1>20. ASSUME NEW t \in Threads, ToCallback(t) PROVE Goal
    <2>1. UNCHANGED <<said, tookOver>> /\ \A u \in Threads : pc'[u] # "idle" => pc[u] # "idle"
      BY <1>20 DEF ToCallback, Return
    <2>2. Logs
      BY <1>20 DEF ToCallback, Return
    <2> HIDE DEF Logs
    <2> QED
      BY <2>1, <2>2
  <1>21. ASSUME NEW t \in Threads, Throw(t) PROVE Goal
    BY <1>21 DEF Throw, Go, MutexAfterThrow
  <1>22. ASSUME NEW f \in Facilities, BeginChange(f) PROVE Goal
    BY <1>22 DEF BeginChange
  <1>23. ASSUME EndChange PROVE Goal
    BY <1>23 DEF EndChange
  <1>24. ASSUME NEW l \in NewLevels, SetRootLevel(l) PROVE Goal
    BY <1>24 DEF SetRootLevel
  <1>25. ASSUME UNCHANGED vars PROVE Goal
    BY <1>25 DEF vars
  <1> HIDE DEF bufVars, logVars, settings, TypeOK, MixInv, Goal
  <1>26. ASSUME NEW t \in Threads, Proceed(t) PROVE Goal
    BY <1>26, <1>2, <1>3, <1>4, <1>5, <1>6, <1>7, <1>8, <1>9, <1>10,
       <1>11, <1>12, <1>13, <1>14, <1>15, <1>16, <1>17, <1>18, <1>19, <1>20 DEF Proceed
  <1>27. Goal
    BY <1>1, <1>21, <1>22, <1>23, <1>24, <1>25, <1>26 DEF Next
  <1> QED
    BY <1>27 DEF Goal

\* No step breaks the invariant of whole messages.
LEMMA MixStep == TypeOK /\ MixInv /\ [Next]_vars => MixInv'
  <1> SUFFICES ASSUME TypeOK, MixInv, [Next]_vars PROVE MixInv'
    OBVIOUS
  <1>1. \A t \in Threads : pc'[t] # "idle" => said'[t] > 0
    BY LoggedStep
  <1>2. TypeOK'
    BY TypeStep
  <1>3. ASSUME ~tookOver' PROVE HolderInv' /\ LoggedInv'
    <2>1. HolderInv /\ LoggedInv
      BY <1>3, LoggedStep DEF MixInv
    <2>2. HolderInv'
      BY <1>3, <2>1, HolderStep
    <2>3. ASSUME NEW x \in logged \ {Forgotten}
          PROVE  \E t \in Threads : \E n \in 1..said'[t] : x = Message(t, n)
      <3>0. PICK t \in Threads : \E n \in 1..said[t] : x = Message(t, n)
        BY <2>1, <2>3 DEF LoggedInv
      <3>1. PICK n \in 1..said[t] : x = Message(t, n)
        BY <3>0
      <3>2. n \in 1..said'[t]
        <4>1. said'[t] >= said[t] /\ said[t] \in Nat /\ said'[t] \in Int
          BY <1>2, LoggedStep DEF TypeOK
        <4> QED
          BY <4>1
      <3> QED
        BY <3>1, <3>2
    <2>4. ASSUME NEW t \in Threads,
                 pc[t] \in {"filter", "gate", "file", "console", "notify"}, text[t] # Forgotten
          PROVE  \E n \in 1..said'[t] : text[t] = Message(t, n)
      <3>1. text[t] = Message(t, said[t])
        BY <2>1, <2>4 DEF HolderInv
      <3>2. said[t] > 0 /\ said'[t] >= said[t] /\ said[t] \in Nat /\ said'[t] \in Int
        <4>1. pc[t] # "idle"
          BY <2>4
        <4> QED
          BY <1>2, <4>1, LoggedStep DEF MixInv, TypeOK
      <3> QED
        BY <3>1, <3>2
    <2>5. LoggedInv'
      <3>1. CASE logged' = logged
        BY <2>3, <3>1 DEF LoggedInv
      <3>2. ASSUME NEW t \in Threads, pc[t] \in {"filter", "gate", "file", "console", "notify"},
                   logged' = logged \cup {text[t]}
            PROVE  LoggedInv'
        BY <2>3, <2>4, <3>2 DEF LoggedInv
      <3> QED
        BY <3>1, <3>2, LoggedStep
    <2> QED
      BY <2>2, <2>5
  <1> QED
    BY <1>1, <1>3 DEF MixInv

\* What threads log never mixes as long as nobody has taken the buffer from a
\* slow owner (LoggingBuf::thread_sync).
THEOREM AlwaysUnmixed == Spec => []Unmixed
  <1>1. Init => MixInv
    <2> SUFFICES ASSUME Init PROVE MixInv
      OBVIOUS
    <2>1. \A t \in Threads : pc[t] = "idle" /\ written[t] = 0 /\ ~Holds(t)
      BY DEF Init, Holds
    <2>2. HolderInv
      BY <2>1 DEF Init, HolderInv
    <2>3. LoggedInv
      BY DEF Init, LoggedInv
    <2> QED
      BY <2>1, <2>2, <2>3 DEF MixInv
  <1>2. MixInv => Unmixed
    BY DEF MixInv, LoggedInv, Unmixed
  <1> QED
    BY <1>1, <1>2, MixStep, TypeInit, TypeStep, PTL DEF Spec
================================================================================
