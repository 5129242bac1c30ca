------------------------------- MODULE Logging --------------------------------
(***************************************************************************)
(* Threads that write on one stream of a logger (logger.hh, logger.cc).    *)
(*                                                                         *)
(* Every part of a statement  logger->info << a << b << std::flush  is a   *)
(* call of its own on a stringbuf that all threads share (LoggingBuf).     *)
(* thread_sync lends the buffer to one thread until it flushes, and to     *)
(* another when that takes more than a second.  A flush passes the text to *)
(* Log: from the child logger to the root, which asks several times where  *)
(* to write, while the application may change that (SetLogFacility,        *)
(* SetLogLevel).                                                           *)
(***************************************************************************)
EXTENDS Integers, Sequences

CONSTANTS
  Threads,     \* the threads that log
  Nobody,      \* the holder of a free mutex
  Forgotten,   \* the text "Somebody forgot to call std::flush!?"
  Pieces,      \* how many calls of << a message takes
  MaxMessages, \* bound: how many messages each thread logs
  OutputToConsole, \* output_to_console: write to the console as well
  NewLevels,   \* the levels the application may set
  MaxChanges   \* bound: calls of SetLogFacility and SetLogLevel

\* A piece of a message: its thread, its message and its place in it.
Piece == Threads \X Nat \X Nat

ASSUME LoggingAssumption ==
  /\ Nobody \notin Threads
  /\ Forgotten \notin Seq(Piece)
  /\ Pieces \in Nat \ {0}
  /\ MaxMessages \in [Threads -> Nat]
  /\ OutputToConsole \in BOOLEAN
  /\ NewLevels \subseteq 0..4
  /\ MaxChanges \in Nat

VARIABLES
  pc,          \* where each thread is
  said,        \* the number of messages it began
  written,     \* the pieces of the last one it has put in the buffer
  buf,         \* the stringbuf: a sequence of pieces
  busy,        \* busy
  owner,       \* owning_thread
  bufferMutex, \* who holds buffer_mutex
  good,        \* the ostream's state: no call on the buffer has thrown
  text,        \* what the thread's Log writes
  sinks,       \* where its Log has written
  stable,      \* history: nothing was changed since its Log began
  loggerMutex, \* who holds logger_mutex of the root
  facility,    \* log_facility of the root
  rootLevel,   \* log_level of the root
  fileOpen,    \* log_file is open
  changing,    \* the facility SetLogFacility is about to store
  changes,     \* history: the number of changes
  logged,      \* history: the texts Log was asked to write
  misplaced,   \* history: one of them was not written where it was due
  tookOver     \* history: a thread has taken the buffer from another

bufVars == <<said, written, buf, busy, owner, bufferMutex, good, tookOver>>
logVars == <<sinks, stable, loggerMutex, logged, misplaced>>
settings == <<facility, rootLevel, fileOpen, changing, changes>>
vars == <<pc, text, bufVars, logVars, settings>>

-----------------------------------------------------------------------------
(* Levels, facilities and texts *)

ERROR == 1
INFO == 3
LogLevels == 0..4

Facilities == {"NONE", "CONSOLE", "SYSLOG", "FILE", "NOTIFY"}
Unchanged == "unchanged"

\* The child takes the level of its parent when it is made.
ChildLevel == INFO

\* The n-th message of a thread, piece by piece.
Message(t, n) == [k \in 1..Pieces |-> <<t, n, k>>]

LevelOf(x) == IF x = Forgotten THEN ERROR ELSE INFO

\* Log returns at once: nothing is logged, or nothing of this level.
Filtered(x) ==
  \/ facility = "NONE"
  \/ LevelOf(x) > ChildLevel
  \/ LevelOf(x) > rootLevel

\* Where a text belongs as long as the settings stay as they are.
Due(x) ==
  IF Filtered(x) THEN {}
  ELSE {facility} \cup (IF OutputToConsole THEN {"CONSOLE"} ELSE {})

-----------------------------------------------------------------------------
(* The buffer *)

Go(t, from, to) ==
  /\ pc[t] = from
  /\ pc' = [pc EXCEPT ![t] = to]

\* The predicate of thread_sync: the buffer is free, or already the thread's.
Free(t) == ~busy \/ owner = t

\* A statement starts.
Begin(t) ==
  /\ good
  /\ said[t] < MaxMessages[t]
  /\ Go(t, "idle", "enter")
  /\ said' = [said EXCEPT ![t] = @ + 1]
  /\ written' = [written EXCEPT ![t] = 0]
  /\ UNCHANGED <<text, buf, busy, owner, bufferMutex, good, tookOver, logVars, settings>>

\* thread_sync: the thread locks the mutex and finds the buffer free.
Enter(t) ==
  /\ \/ pc[t] = "enter" /\ good
     \/ pc[t] = "woken"
  /\ bufferMutex = Nobody
  /\ Free(t)
  /\ pc' = [pc EXCEPT ![t] = "granted"]
  /\ busy' = TRUE
  /\ owner' = t
  /\ UNCHANGED <<text, said, written, buf, bufferMutex, good, tookOver, logVars, settings>>

\* thread_sync: it finds the buffer lent to another.  It lets go of the
\* mutex only when it falls asleep; busy may be reset before it does.
FindBusy(t) ==
  /\ \/ pc[t] = "enter" /\ good
     \/ pc[t] = "woken"
  /\ bufferMutex = Nobody
  /\ ~Free(t)
  /\ pc' = [pc EXCEPT ![t] = "tested"]
  /\ bufferMutex' = t
  /\ UNCHANGED <<text, said, written, buf, busy, owner, good, tookOver, logVars, settings>>

FallAsleep(t) ==
  /\ Go(t, "tested", "asleep")
  /\ bufferMutex' = Nobody
  /\ UNCHANGED <<text, said, written, buf, busy, owner, good, tookOver, logVars, settings>>

\* The faulty variant waits without a limit: it goes on sleeping.
TimeOutFreeSleeps(t) == FALSE

\* A second has passed and the buffer has become free unnoticed.
TimeOutFree(t) ==
  /\ bufferMutex = Nobody
  /\ Free(t)
  /\ Go(t, "asleep", "granted")
  /\ busy' = TRUE
  /\ owner' = t
  /\ UNCHANGED <<text, said, written, buf, bufferMutex, good, tookOver, logVars, settings>>

\* A second has passed and it is still lent: complain, with the mutex.
TimeOutBusy(t) ==
  /\ bufferMutex = Nobody
  /\ ~Free(t)
  /\ Go(t, "asleep", "filter")
  /\ bufferMutex' = t
  /\ text' = [text EXCEPT ![t] = Forgotten]
  /\ UNCHANGED <<said, written, buf, busy, owner, good, tookOver, logVars, settings>>

\* ... and take the buffer, with what is in it.
Seize(t) ==
  /\ Go(t, "seize", "granted")
  /\ busy' = TRUE
  /\ owner' = t
  /\ bufferMutex' = Nobody
  /\ tookOver' = TRUE
  /\ UNCHANGED <<text, said, written, buf, good, logVars, settings>>

\* xsputn after thread_sync: the mutex is free again.
Put(t) ==
  /\ written[t] < Pieces
  /\ Go(t, "granted", "enter")
  /\ buf' = Append(buf, <<t, said[t], written[t] + 1>>)
  /\ written' = [written EXCEPT ![t] = @ + 1]
  /\ UNCHANGED <<text, said, busy, owner, bufferMutex, good, tookOver, logVars, settings>>

\* What a flush does to busy before Log: it stays lent until the text is
\* cleared.  The faulty variant gives the buffer back too early.
BusyInLogFree == FALSE
BusyInLog == busy

\* sync after thread_sync: str() is passed to Log.
Flush(t) ==
  /\ written[t] = Pieces
  /\ Go(t, "granted", "filter")
  /\ text' = [text EXCEPT ![t] = buf]
  /\ busy' = BusyInLog
  /\ UNCHANGED <<said, written, buf, owner, bufferMutex, good, tookOver, logVars, settings>>

\* str(""), after Log.
Clear(t) ==
  /\ Go(t, "clear", "release")
  /\ buf' = <<>>
  /\ UNCHANGED <<text, said, written, busy, owner, bufferMutex, good, tookOver, logVars, settings>>

\* busy = false, without the mutex.
Release(t) ==
  /\ Go(t, "release", "signal")
  /\ busy' = FALSE
  /\ UNCHANGED <<text, said, written, buf, owner, bufferMutex, good, tookOver, logVars, settings>>

\* notify_one, without the mutex: a thread that is not asleep yet misses it.
Signal(t) ==
  /\ pc[t] = "signal"
  /\ \/ /\ \A s \in Threads : pc[s] # "asleep"
        /\ pc' = [pc EXCEPT ![t] = "idle"]
     \/ \E s \in Threads :
          /\ pc[s] = "asleep"
          /\ pc' = [pc EXCEPT ![t] = "idle", ![s] = "woken"]
  /\ UNCHANGED <<text, bufVars, logVars, settings>>

\* On a stream that has gone bad << and flush do nothing.
Skip(t) ==
  /\ ~good
  /\ Go(t, "enter", "idle")
  /\ UNCHANGED <<text, bufVars, logVars, settings>>

-----------------------------------------------------------------------------
(* Log, in the child and in the root *)

\* Log returns to the take-over or to the flush.
Return(t, to, unchanged) ==
  /\ logged' = logged \cup {text[t]}
  /\ misplaced' = (misplaced \/ (unchanged /\ to # Due(text[t])))
  /\ pc' = [pc EXCEPT ![t] = IF text[t] = Forgotten THEN "seize" ELSE "clear"]
  /\ text' = [text EXCEPT ![t] = <<>>]
  /\ sinks' = [sinks EXCEPT ![t] = {}]
  /\ stable' = [stable EXCEPT ![t] = FALSE]

\* Both loggers ask for the facility and compare levels; syslog is first.
FilterOut(t) ==
  /\ pc[t] = "filter"
  /\ Filtered(text[t])
  /\ Return(t, {}, changing = Unchanged)
  /\ UNCHANGED <<bufVars, loggerMutex, settings>>

PassFilter(t) ==
  /\ ~Filtered(text[t])
  /\ Go(t, "filter", "gate")
  /\ sinks' = [sinks EXCEPT ![t] = {"SYSLOG"} \cap {facility}]
  /\ stable' = [stable EXCEPT ![t] = changing = Unchanged]
  /\ UNCHANGED <<text, bufVars, loggerMutex, logged, misplaced, settings>>

\* Nothing but syslog was wanted.
OnlySyslog(t) ==
  /\ pc[t] = "gate"
  /\ facility = "SYSLOG"
  /\ ~OutputToConsole
  /\ Return(t, sinks[t], stable[t])
  /\ UNCHANGED <<bufVars, loggerMutex, settings>>

LockLogger(t) ==
  /\ facility # "SYSLOG" \/ OutputToConsole
  /\ loggerMutex = Nobody
  /\ Go(t, "gate", "file")
  /\ loggerMutex' = t
  /\ UNCHANGED <<text, bufVars, sinks, stable, logged, misplaced, settings>>

\* What is written to a closed file is lost.
ToFile(t) ==
  /\ Go(t, "file", "console")
  /\ sinks' = [sinks EXCEPT ![t] =
                 @ \cup (IF facility = "FILE" /\ fileOpen THEN {"FILE"} ELSE {})]
  /\ UNCHANGED <<text, bufVars, stable, loggerMutex, logged, misplaced, settings>>

\* The faulty variant falls through to the console after a file.
ConsoleDueFile == facility \in {"CONSOLE", "FILE"} \/ OutputToConsole
ConsoleDue == facility = "CONSOLE" \/ OutputToConsole

ToConsole(t) ==
  /\ Go(t, "console", "notify")
  /\ sinks' = [sinks EXCEPT ![t] = @ \cup (IF ConsoleDue THEN {"CONSOLE"} ELSE {})]
  /\ UNCHANGED <<text, bufVars, stable, loggerMutex, logged, misplaced, settings>>

ToCallback(t) ==
  /\ pc[t] = "notify"
  /\ Return(t, sinks[t] \cup ({"NOTIFY"} \cap {facility}), stable[t])
  /\ loggerMutex' = Nobody
  /\ UNCHANGED <<bufVars, settings>>

\* logger_mutex when the callback throws: Log unlocks it.  The faulty variant
\* does not.
MutexAfterThrowKept == loggerMutex
MutexAfterThrow == Nobody

\* The callback throws, or none is set.  Log unlocks and throws on, the lock
\* of thread_sync is undone, and the ostream takes the exception as its end.
\* The buffer stays as it is, lent and full.
Throw(t) ==
  /\ facility = "NOTIFY"
  /\ Go(t, "notify", "idle")
  /\ loggerMutex' = MutexAfterThrow
  /\ bufferMutex' = IF bufferMutex = t THEN Nobody ELSE bufferMutex
  /\ good' = FALSE
  /\ text' = [text EXCEPT ![t] = <<>>]
  /\ sinks' = [sinks EXCEPT ![t] = {}]
  /\ stable' = [stable EXCEPT ![t] = FALSE]
  /\ UNCHANGED <<said, written, buf, busy, owner, tookOver, logged, misplaced, settings>>

-----------------------------------------------------------------------------
(* The application changes the root logger, without any mutex *)

\* SetLogFacility up to the assignment: the old file is closed and the new
\* one opened, or, when that fails, nothing will be logged any more.
BeginChange(f) ==
  /\ changing = Unchanged
  /\ changes < MaxChanges
  /\ f # facility
  /\ \E opened \in BOOLEAN :
       /\ changing' = IF f = "FILE" /\ ~opened THEN "NONE" ELSE f
       /\ fileOpen' = (f = "FILE" /\ opened)
  /\ stable' = [t \in Threads |-> FALSE]
  /\ changes' = changes + 1
  /\ UNCHANGED <<pc, text, bufVars, sinks, loggerMutex, logged, misplaced,
                 facility, rootLevel>>

EndChange ==
  /\ changing # Unchanged
  /\ facility' = changing
  /\ changing' = Unchanged
  /\ UNCHANGED <<pc, text, bufVars, logVars, rootLevel, fileOpen, changes>>

\* SetLogLevel of the root: the child keeps the level it was made with.
SetRootLevel(l) ==
  /\ changing = Unchanged
  /\ changes < MaxChanges
  /\ l # rootLevel
  /\ rootLevel' = l
  /\ stable' = [t \in Threads |-> FALSE]
  /\ changes' = changes + 1
  /\ UNCHANGED <<pc, text, bufVars, sinks, loggerMutex, logged, misplaced,
                 facility, fileOpen, changing>>

-----------------------------------------------------------------------------
Init ==
  /\ pc = [t \in Threads |-> "idle"]
  /\ said = [t \in Threads |-> 0]
  /\ written = [t \in Threads |-> 0]
  /\ buf = <<>>
  /\ busy = FALSE
  /\ owner = Nobody
  /\ bufferMutex = Nobody
  /\ good = TRUE
  /\ text = [t \in Threads |-> <<>>]
  /\ sinks = [t \in Threads |-> {}]
  /\ stable = [t \in Threads |-> FALSE]
  /\ loggerMutex = Nobody
  /\ facility = "CONSOLE"
  /\ rootLevel = INFO
  /\ fileOpen = FALSE
  /\ changing = Unchanged
  /\ changes = 0
  /\ logged = {}
  /\ misplaced = FALSE
  /\ tookOver = FALSE

\* A thread in the middle of a statement.
Proceed(t) ==
  \/ Enter(t) \/ FindBusy(t) \/ FallAsleep(t) \/ TimeOutFree(t) \/ TimeOutBusy(t)
  \/ Seize(t) \/ Put(t) \/ Flush(t) \/ Clear(t) \/ Release(t) \/ Signal(t) \/ Skip(t)
  \/ FilterOut(t) \/ PassFilter(t) \/ OnlySyslog(t) \/ LockLogger(t)
  \/ ToFile(t) \/ ToConsole(t) \/ ToCallback(t)

Next ==
  \/ \E t \in Threads : Begin(t) \/ Proceed(t) \/ Throw(t)
  \/ \E f \in Facilities : BeginChange(f)
  \/ EndChange
  \/ \E l \in NewLevels : SetRootLevel(l)

Spec == Init /\ [][Next]_vars

\* Threads in the middle of a statement keep running, and seconds pass.
FairSpec == Spec /\ \A t \in Threads : WF_vars(Proceed(t))

-----------------------------------------------------------------------------
(* Properties *)

Places ==
  {"idle", "enter", "woken", "tested", "asleep", "granted", "seize", "clear",
   "release", "signal", "filter", "gate", "file", "console", "notify"}

\* Each variable has its type.
TypeOK ==
  /\ pc \in [Threads -> Places]
  /\ said \in [Threads -> Nat]
  /\ \A t \in Threads : said[t] <= MaxMessages[t]
  /\ written \in [Threads -> 0..Pieces]
  /\ buf \in Seq(Piece)
  /\ busy \in BOOLEAN
  /\ owner \in Threads \cup {Nobody}
  /\ bufferMutex \in Threads \cup {Nobody}
  /\ good \in BOOLEAN
  /\ text \in [Threads -> Seq(Piece) \cup {Forgotten}]
  /\ sinks \in [Threads -> SUBSET Facilities]
  /\ stable \in [Threads -> BOOLEAN]
  /\ loggerMutex \in Threads \cup {Nobody}
  /\ facility \in Facilities
  /\ rootLevel \in LogLevels
  /\ fileOpen \in BOOLEAN
  /\ changing \in Facilities \cup {Unchanged}
  /\ changes \in 0..MaxChanges
  /\ logged \subseteq Seq(Piece) \cup {Forgotten}
  /\ misplaced \in BOOLEAN
  /\ tookOver \in BOOLEAN

\* What threads log never mixes as long as nobody has taken the buffer from a
\* slow owner: each text is one message, whole and alone (thread_sync).
Unmixed ==
  ~tookOver =>
    \A x \in logged \ {Forgotten} : \E t \in Threads : \E n \in 1..said[t] : x = Message(t, n)

\* A text is written where it is due, to each place once and to no other,
\* unless the settings change while it is on its way (Log reads the facility
\* up to six times and takes its mutex between them).
WrittenWhereDue == ~misplaced

\* Whatever was taken over and mixed before, once no thread is in the middle
\* of a statement the buffer is empty, free and unlocked, unless the stream
\* has gone bad; and neither mutex stays locked even then.
QuietIsClean ==
  (\A t \in Threads : pc[t] = "idle") =>
     /\ bufferMutex = Nobody
     /\ loggerMutex = Nobody
     /\ good => ~busy /\ buf = <<>>

\* No thread hangs in a log statement: lost wakeups and owners that never
\* flush cost it a second.
StatementsEnd == \A t \in Threads : pc[t] # "idle" ~> pc[t] = "idle"
=============================================================================
