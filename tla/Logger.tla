------------------------------- MODULE Logger -------------------------------
(***************************************************************************)
(* The Logger of one process.  Its threads register and then log, while    *)
(* they and others advance the communicator's clock.  A line begins with   *)
(* the clock and a counter, both padded with zeros, so that `sort' can put *)
(* the lines in order as texts.                                            *)
(***************************************************************************)
EXTENDS Naturals, Sequences, FiniteSets

CONSTANTS
  Thread, NoThread,
  BASE, LOGGER_NUMBER_DIGITS,
  MAX_LINES,   \* bound: how many lines a thread logs
  MAX_TIME     \* bound: how far the clock gets

ASSUME LoggerAssumption ==
  /\ NoThread \notin Thread
  /\ BASE \in Nat /\ BASE >= 2 /\ LOGGER_NUMBER_DIGITS \in Nat \ {0}
  /\ MAX_LINES \in Nat /\ MAX_TIME \in Nat

VARIABLES
  currentLamportTime,   \* the communicator's
  mutex,                \* the thread that holds Logger::mutex
  threads,              \* those whose name the Logger knows
  logMessageCounter,
  pc,                   \* pc[t]: where t is in log()
  formattedLamportTime, \* formattedLamportTime[t]: the number that t has formatted
  lines                 \* what is written to the standard output, in order

vars == <<currentLamportTime, mutex, threads, logMessageCounter, pc, formattedLamportTime, lines>>

Init ==
  /\ currentLamportTime = 0
  /\ mutex = NoThread
  /\ threads = {}
  /\ logMessageCounter = 0
  /\ pc = [t \in Thread |-> "out"]
  /\ formattedLamportTime = [t \in Thread |-> 0]
  /\ lines = <<>>

\* A send or a receive, of any thread.
Advance ==
  /\ currentLamportTime < MAX_TIME
  /\ currentLamportTime' = currentLamportTime + 1
  /\ UNCHANGED <<mutex, threads, logMessageCounter, pc, formattedLamportTime, lines>>

\* Every thread registers before it logs.
registerThread(t) ==
  /\ t \notin threads
  /\ mutex = NoThread
  /\ threads' = threads \cup {t}
  /\ UNCHANGED <<currentLamportTime, mutex, logMessageCounter, pc, formattedLamportTime, lines>>

LinesOf(t) == {i \in DOMAIN lines : lines[i].thread = t}

\* Mutant: no guard.
LockFreely(t) ==
  /\ t \in threads /\ pc[t] = "out"
  /\ Cardinality(LinesOf(t)) < MAX_LINES
  /\ mutex' = t
  /\ pc' = [pc EXCEPT ![t] = "locked"]
  /\ UNCHANGED <<currentLamportTime, threads, logMessageCounter, formattedLamportTime, lines>>

\* log(): the guard.
Lock(t) ==
  /\ t \in threads /\ pc[t] = "out"
  /\ Cardinality(LinesOf(t)) < MAX_LINES
  /\ mutex = NoThread
  /\ mutex' = t
  /\ pc' = [pc EXCEPT ![t] = "locked"]
  /\ UNCHANGED <<currentLamportTime, threads, logMessageCounter, formattedLamportTime, lines>>

\* Mutant: the guard's scope ends here.
ReadClockUnlocks(t) ==
  /\ pc[t] = "locked"
  /\ formattedLamportTime' = [formattedLamportTime EXCEPT ![t] = currentLamportTime]
  /\ pc' = [pc EXCEPT ![t] = "read"]
  /\ mutex' = NoThread
  /\ UNCHANGED <<currentLamportTime, threads, logMessageCounter, lines>>

\* communicator->getCurrentLamportTime(), formatted.
ReadClock(t) ==
  /\ pc[t] = "locked"
  /\ formattedLamportTime' = [formattedLamportTime EXCEPT ![t] = currentLamportTime]
  /\ pc' = [pc EXCEPT ![t] = "read"]
  /\ UNCHANGED <<currentLamportTime, mutex, threads, logMessageCounter, lines>>

\* The line is written, and the guard's scope ends.
Write(t) ==
  /\ pc[t] = "read"
  /\ lines' = Append(lines, [thread |-> t, at |-> formattedLamportTime[t],
                             number |-> logMessageCounter])
  /\ logMessageCounter' = logMessageCounter + 1
  /\ formattedLamportTime' = [formattedLamportTime EXCEPT ![t] = 0]
  /\ pc' = [pc EXCEPT ![t] = "out"]
  /\ mutex' = NoThread
  /\ UNCHANGED <<currentLamportTime, threads>>

\* Every thread has logged what it may.
Done ==
  /\ currentLamportTime = MAX_TIME
  /\ threads = Thread /\ \A t \in Thread : Cardinality(LinesOf(t)) = MAX_LINES
  /\ UNCHANGED vars

Next ==
  \/ Advance
  \/ \E t \in Thread : registerThread(t) \/ Lock(t) \/ ReadClock(t) \/ Write(t)
  \/ Done

Spec == Init /\ [][Next]_vars

-----------------------------------------------------------------------------
(***************************************************************************)
(* The text of a line.  A character is a number, in the order of ASCII: a  *)
(* space, the digits, a colon.                                             *)
(***************************************************************************)

Space == 0
Digit(d) == d + 1
Colon == BASE + 1

\* std::to_string
toString[number \in Nat] ==
  IF number < BASE THEN <<Digit(number)>>
  ELSE Append(toString[number \div BASE], Digit(number % BASE))

\* Zeros before the digits of a number, until there are so many characters.
Padded(digits, number) ==
  LET numberAsString == toString[number]
      zerosToInsert == digits - Len(numberAsString)
  IN IF Len(numberAsString) < digits
     THEN [i \in 1 .. zerosToInsert |-> Digit(0)] \o numberAsString
     ELSE numberAsString

\* Mutant: no padding.
Unpadded(number) == toString[number]

getFormattedNumber(number) == Padded(LOGGER_NUMBER_DIGITS, number)

\* "[TS ", which all lines share, is left out, and so is what follows the numbers.
Text(line) ==
  getFormattedNumber(line.at) \o <<Colon>> \o getFormattedNumber(line.number) \o <<Space>>

\* The order of `sort'.
SortsBefore(a, b) ==
  \E i \in DOMAIN a \cap DOMAIN b : a[i] < b[i] /\ \A j \in 1 .. i - 1 : a[j] = b[j]

-----------------------------------------------------------------------------
(***************************************************************************)
(* Properties.                                                             *)
(***************************************************************************)

\* The variables have their types; who is inside log() holds the mutex.
TypeOK ==
  /\ currentLamportTime \in 0 .. MAX_TIME
  /\ mutex \in Thread \cup {NoThread}
  /\ threads \subseteq Thread
  /\ logMessageCounter = Len(lines)
  /\ pc \in [Thread -> {"out", "locked", "read"}]
  /\ \A t \in Thread : pc[t] # "out" => mutex = t
  /\ formattedLamportTime \in [Thread -> Nat]
  /\ lines \in Seq([thread : Thread, at : Nat, number : Nat])

\* What the threads do to the log under its mutex: the lines are numbered in
\* the order in which they are written, none has a later time than the next one,
\* and who has read the clock has a time that may follow those of the lines.
LinesAreNumbered == \A i \in DOMAIN lines : lines[i].number = i - 1
TimesAreSorted == \A i, j \in DOMAIN lines : i < j => lines[i].at <= lines[j].at
TimesHavePassed == \A i \in DOMAIN lines : lines[i].at <= currentLamportTime
ReadIsCurrent ==
  \A t \in Thread : pc[t] = "read" =>
    /\ formattedLamportTime[t] <= currentLamportTime
    /\ \A i \in DOMAIN lines : lines[i].at <= formattedLamportTime[t]

\* The inductive invariant behind SortedLinesKeepOrder: log() reads the clock,
\* counts and writes in steps that only the mutex keeps together.
IndInv == TypeOK /\ LinesAreNumbered /\ TimesAreSorted /\ TimesHavePassed /\ ReadIsCurrent

\* The number has a place of its own for each of its digits.
Fits(number) == Len(toString[number]) <= LOGGER_NUMBER_DIGITS

\* README: the log is read `sorted by the messages lamport timestamp'.  Sorting
\* leaves the lines of one process in the order they were written, although its
\* threads read the clock, count and write in several steps, and although the
\* lines are compared as texts.  It holds as long as both numbers have no more
\* than LOGGER_NUMBER_DIGITS digits.
SortedLinesKeepOrder ==
  (\A i \in DOMAIN lines : Fits(lines[i].at) /\ Fits(lines[i].number))
    => \A i, j \in DOMAIN lines : i < j => SortsBefore(Text(lines[i]), Text(lines[j]))

=============================================================================
