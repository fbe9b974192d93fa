---------------------------- MODULE FleetReports ----------------------------
(***************************************************************************)
(* The collector's field reports to a manufacturer (internal/fleetreport). *)
(* One goroutine samples the boards the collector holds, keeps the latest  *)
(* receipt of each, builds a report per interval and sends it until it is  *)
(* answered or the next one replaces it.  A send blocks the goroutine;     *)
(* the manufacturer may take a request whose answer is never read.         *)
(*                                                                         *)
(* Time passes only while the goroutine waits for a timer or an answer.  A *)
(* board is its latest receipt; those of Odd cannot be represented in a    *)
(* report (convert).  The hour of a receipt and the encoding are left out. *)
(***************************************************************************)
EXTENDS Integers, FiniteSets, SequencesExt

CONSTANTS
  ReportBoards,   \* boards enrolled under the authority
  Odd,            \* those whose status a report cannot carry
  MaxBoards,      \* MaxBoards
  StartDelay,     \* startDelay
  Jitter,         \* its jitter, at most
  SampleEvery,    \* sampleEvery
  Interval,       \* Config.Interval
  FirstRetry,     \* firstRetry
  MaxRetry,       \* maxRetry
  RequestTimeout, \* requestTimeout
  MaxReceipts,    \* bound: receipts from boards
  MaxReportRuns,  \* bound: starts of the collector
  LastMinute      \* bound: time

ASSUME ReportBounds ==
  /\ {StartDelay, Jitter, MaxReceipts, LastMinute} \subseteq Nat
  /\ {MaxBoards, SampleEvery, Interval, FirstRetry, MaxRetry, RequestTimeout, MaxReportRuns} \subseteq Nat \ {0}
  /\ FirstRetry <= MaxRetry /\ MaxRetry <= Interval /\ RequestTimeout < SampleEvery
  /\ Odd \subseteq ReportBoards /\ IsFiniteSet(ReportBoards)

VARIABLES
  minute,     \* r.now()
  held,       \* FleetBoards: the latest receipt of each board the collector holds
  seen,       \* r.seen
  reporter,   \* where Run is, its pending report, backoff and due; when a send began
  timers,     \* the sampling ticker, next and retry
  wire,       \* requests the manufacturer has not taken yet, and the answer to the one awaited
  stored,     \* the reports the manufacturer has
  reported    \* history: receipts, starts, reports built, receipts sampled

reportVars == <<minute, held, seen, reporter, timers, wire, stored, reported>>

Off == 0 - 1
Never == 0 - 1
NoReport == [id |-> 0, boards |-> <<>>]
NoAnswer == "none"
NothingSampled == [b \in ReportBoards |-> Never]

\* New and the first lines of Run, with an empty store to sample.
Started ==
  /\ seen' = <<>>
  /\ reporter' = [at |-> "select", pending |-> NoReport, backoff |-> 0, due |-> 0, began |-> Never]
  /\ \E j \in 0..Jitter :
       timers' = [sample |-> minute + SampleEvery, next |-> minute + StartDelay + j, retry |-> Off]

ReportInit ==
  /\ minute = 0
  /\ held = [b \in ReportBoards |-> Never]
  /\ seen = <<>>
  /\ reporter = [at |-> "select", pending |-> NoReport, backoff |-> 0, due |-> 0, began |-> Never]
  /\ \E j \in 0..Jitter :
       timers = [sample |-> SampleEvery, next |-> StartDelay + j, retry |-> Off]
  /\ wire = [requests |-> {}, answer |-> NoAnswer]
  /\ stored = {}
  /\ reported = [receipts |-> 0, runs |-> 1, built |-> 0, unbuilt |-> FALSE,
                 sampled |-> NothingSampled]
-----------------------------------------------------------------------------
\* sample: one board at a time, in the order FleetBoards lists them.
Full(s) == Cardinality(DOMAIN s) >= MaxBoards
Longest(s) == {b \in DOMAIN s : \A c \in DOMAIN s : s[b] <= s[c]}
Put(s, b) == [c \in DOMAIN s \cup {b} |-> IF c = b THEN held[b] ELSE s[c]]
Without(s, b) == [c \in DOMAIN s \ {b} |-> s[c]]

\* Mutant: the board to make room is looked for although the board is known.
MergedBoardAlways(s, b) ==
  IF Full(s) THEN {Put(Without(s, o), b) : o \in Longest(s)} ELSE {Put(s, b)}
MergedBoard(s, b) ==
  IF b \in DOMAIN s
    THEN {IF held[b] > s[b] THEN Put(s, b) ELSE s}
    ELSE IF Full(s) THEN {Put(Without(s, o), b) : o \in Longest(s)} ELSE {Put(s, b)}

HeldBoards == {b \in ReportBoards : held[b] # Never}
Sampled ==
  UNION {FoldLeft(LAMBDA ss, b : UNION {MergedBoard(s, b) : s \in ss}, {seen}, order) :
           order \in SetToSeqs(HeldBoards)}
Latest(a, b) == IF a > b THEN a ELSE b
SampledNow == [b \in ReportBoards |-> Latest(reported.sampled[b], held[b])]

Waiting == reporter.at = "select"
Due(t) == t # Off /\ t <= minute

SamplingFires ==
  /\ Waiting /\ Due(timers.sample)
  /\ seen' \in Sampled
  /\ timers' = [timers EXCEPT !.sample = @ + SampleEvery]
  /\ reported' = [reported EXCEPT !.sampled = SampledNow]
  /\ UNCHANGED <<minute, held, reporter, wire, stored>>

\* build and Build: the boards that can be represented.
Built(s, id) == [id |-> id, boards |-> [b \in DOMAIN s \ Odd |-> s[b]]]

\* next.C: sample, set the timers, build and send.
NextFires ==
  /\ Waiting /\ Due(timers.next)
  /\ seen' \in Sampled
  /\ timers' = [timers EXCEPT !.next = minute + Interval, !.retry = Off]
  /\ \/ /\ reporter' = [at |-> "attempt", pending |-> Built(seen', reported.built + 1),
                        backoff |-> FirstRetry, due |-> minute + Interval, began |-> minute]
        /\ reported' = [reported EXCEPT !.built = @ + 1, !.unbuilt = FALSE, !.sampled = SampledNow]
     \/ /\ reporter' = [reporter EXCEPT !.due = minute + Interval]
        /\ reported' = [reported EXCEPT !.unbuilt = TRUE, !.sampled = SampledNow]
  /\ UNCHANGED <<minute, held, wire, stored>>

\* Mutant: what is sent again is built again.
ResentRebuilt == Built(seen, reporter.pending.id)
Resent == reporter.pending

RetryFires ==
  /\ Waiting /\ Due(timers.retry)
  /\ timers' = [timers EXCEPT !.retry = Off]
  /\ reporter' = IF reporter.pending = NoReport THEN reporter
                 ELSE [reporter EXCEPT !.at = "attempt", !.pending = Resent, !.began = minute]
  /\ UNCHANGED <<minute, held, seen, wire, stored, reported>>

\* attempt: the token is read and the request goes out.
Send ==
  /\ reporter.at = "attempt"
  /\ wire' = [requests |-> wire.requests \cup {reporter.pending}, answer |-> NoAnswer]
  /\ reporter' = [reporter EXCEPT !.at = "sent"]
  /\ UNCHANGED <<minute, held, seen, timers, stored, reported>>

\* The manufacturer's side, as the collector is told to take its answers: it
\* stores a report once, or is busy, or refuses.
AnswerTo(r, a) == IF reporter.at = "sent" /\ r.id = reporter.pending.id THEN a ELSE wire.answer
Stores(r) ==
  /\ r \in wire.requests
  /\ stored' = IF \E q \in stored : q.id = r.id THEN stored ELSE stored \cup {r}
  /\ wire' = [requests |-> wire.requests \ {r},
              answer |-> AnswerTo(r, IF \E q \in stored : q.id = r.id THEN "duplicate" ELSE "accepted")]
  /\ UNCHANGED <<minute, held, seen, reporter, timers, reported>>
Declines(r, a) ==
  /\ r \in wire.requests
  /\ wire' = [requests |-> wire.requests \ {r}, answer |-> AnswerTo(r, a)]
  /\ UNCHANGED <<minute, held, seen, reporter, timers, stored, reported>>

\* Mutant: a retry is armed although the next report comes first.
TooLateNever == FALSE
TooLate == minute + reporter.backoff > reporter.due

Done == [reporter EXCEPT !.at = "select", !.pending = NoReport, !.began = Never]

\* deliver, on what attempt returned.
Delivered(result) ==
  IF result # "failed" \/ TooLate
    THEN reporter' = Done /\ UNCHANGED timers
    ELSE /\ timers' = [timers EXCEPT !.retry = minute + reporter.backoff]
         /\ reporter' = [reporter EXCEPT !.at = "select", !.began = Never,
                                         !.backoff = IF 2 * @ < MaxRetry THEN 2 * @ ELSE MaxRetry]

NoToken ==
  /\ reporter.at = "attempt"
  /\ Delivered("refused")
  /\ UNCHANGED <<minute, held, seen, wire, stored, reported>>

AnswerRead ==
  /\ reporter.at = "sent" /\ wire.answer # NoAnswer
  /\ Delivered(wire.answer)
  /\ wire' = [wire EXCEPT !.answer = NoAnswer]
  /\ UNCHANGED <<minute, held, seen, stored, reported>>

\* The connection fails or the client gives up; the request may still arrive.
NoAnswerRead ==
  /\ reporter.at = "sent"
  /\ Delivered("failed")
  /\ wire' = [wire EXCEPT !.answer = NoAnswer]
  /\ UNCHANGED <<minute, held, seen, stored, reported>>
-----------------------------------------------------------------------------
\* What the collector holds of its boards (FleetBoards), which only a sample
\* looks at: it changes while the goroutine waits for a timer.
Receipt(b) ==
  /\ Waiting /\ reported.receipts < MaxReceipts /\ held[b] # minute
  /\ held' = [held EXCEPT ![b] = minute]
  /\ reported' = [reported EXCEPT !.receipts = @ + 1]
  /\ UNCHANGED <<minute, seen, reporter, timers, wire, stored>>
Forgets(b) ==
  /\ Waiting /\ held[b] # Never /\ minute - held[b] >= SampleEvery
  /\ held' = [held EXCEPT ![b] = Never]
  /\ UNCHANGED <<minute, seen, reporter, timers, wire, stored, reported>>

\* ctx ends, or the collector crashes, and it starts again.
ReporterRestarts ==
  /\ reported.runs < MaxReportRuns
  /\ Started
  /\ held' = [b \in ReportBoards |-> Never]
  /\ wire' = [wire EXCEPT !.answer = NoAnswer]
  /\ reported' = [reported EXCEPT !.runs = @ + 1, !.unbuilt = FALSE,
                                  !.sampled = NothingSampled]
  /\ UNCHANGED <<minute, stored>>

MinutePasses ==
  /\ minute < LastMinute
  /\ Waiting => \A t \in {timers.sample, timers.next, timers.retry} : ~Due(t)
  /\ reporter.at # "attempt"
  /\ reporter.at = "sent" => minute - reporter.began < RequestTimeout
  /\ minute' = minute + 1
  /\ UNCHANGED <<held, seen, reporter, timers, wire, stored, reported>>

ReportNext ==
  \/ SamplingFires \/ NextFires \/ RetryFires
  \/ Send \/ NoToken \/ AnswerRead \/ NoAnswerRead
  \/ \E r \in wire.requests : Stores(r) \/ \E a \in {"failed", "refused"} : Declines(r, a)
  \/ \E b \in ReportBoards : Receipt(b) \/ Forgets(b)
  \/ ReporterRestarts
  \/ MinutePasses

ReportSpec == ReportInit /\ [][ReportNext]_reportVars
-----------------------------------------------------------------------------
\* A report's number stands for one content, through every retry and however
\* late a request is taken, while the sampling goes on (deliver).
OneContentPerReport ==
  \A p, q \in stored \cup wire.requests : p.id = q.id => p = q

\* Only the newest report is sent, and no send begins once its interval is
\* over: a retry is never armed past the report that replaces it (deliver,
\* the retry.Stop of next.C).
RetriesEndWithTheInterval ==
  /\ reporter.at \in {"attempt", "sent"} => reporter.pending.id = reported.built
  /\ reporter.at \in {"attempt", "sent"} => reporter.began <= reporter.due
  /\ timers.retry # Off => timers.retry <= timers.next

\* A report that was not answered is under way or has its retry armed, until
\* the next one is due; only an interval whose report could not be built
\* leaves one behind (Run).
UnansweredIsRetried ==
  Waiting /\ reporter.pending # NoReport => timers.retry # Off \/ reported.unbuilt

\* The record holds each board's latest sampled receipt, at most MaxBoards of
\* them; every board while there are no more, and the one heard last always,
\* whatever order the boards are listed in (sample).
RecordIsTheLatest ==
  LET ever == {b \in ReportBoards : reported.sampled[b] # Never}
  IN  /\ Cardinality(DOMAIN seen) <= MaxBoards
      /\ \A b \in DOMAIN seen : seen[b] = reported.sampled[b]
      /\ Cardinality(ever) <= MaxBoards => DOMAIN seen = ever
      /\ MaxBoards > 1 =>
           \A b \in ever : (\A c \in ever \ {b} : reported.sampled[c] < reported.sampled[b]) => b \in DOMAIN seen

\* Reports are numbered, unchanging, sent while they are the newest and
\* retried until then, from a record of the boards' latest receipts that is
\* whole while it is not full (Reporter).
ReportsAreSound ==
    /\ OneContentPerReport
    /\ RetriesEndWithTheInterval
    /\ UnansweredIsRetried
    /\ RecordIsTheLatest

=============================================================================
