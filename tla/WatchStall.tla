----------------------------- MODULE WatchStall -----------------------------
(***************************************************************************)
(* run_with_watch of src/scripts/watch_start_env_with_rln.py.              *)
(*                                                                         *)
(* The script starts `make start-env-with-rln` with its output on a pipe.  *)
(* Two threads share the timestamps last_line_time and                     *)
(* saw_stall_marker_time:                                                  *)
(*  - the reader thread forwards every line and starts the stall timer at  *)
(*    the first line containing "[dotenv@";                                *)
(*  - the main thread polls the child every 2 s, prints diagnostics once   *)
(*    the timer is older than STALL_WINDOW_SEC and restarts it, joins the  *)
(*    reader for at most 2 s once the child has exited, and on Ctrl-C      *)
(*    terminates the child, waits 5 s for it and kills it.                 *)
(*                                                                         *)
(* Time is a Tick action.  A timestamp t is kept as the age now - t,       *)
(* saturated at Window + 1, since the code only compares ages with the     *)
(* window; the remaining time of each sleep and timeout is a countdown.    *)
(* The write end of the pipe is held by make and by the processes it       *)
(* started, so it may stay open after make exits.                          *)
(***************************************************************************)
EXTENDS Naturals, Sequences

CONSTANTS
  Window,       \* STALL_WINDOW_SEC, in ticks
  Poll,         \* time.sleep(2), in ticks
  JoinTimeout,  \* t.join(timeout=2), in ticks
  WaitTimeout,  \* proc.wait(timeout=5), in ticks
  MaxLines,     \* bound on the lines the child writes
  ExitCodes,    \* the return codes make can exit with
  Killed,       \* proc.returncode after proc.kill()
  Interrupted,  \* the return code 130 of the KeyboardInterrupt handler
  None          \* Python's None

ASSUME WatchAssumption ==
  /\ Window \in Nat /\ Poll \in Nat \ {0}
  /\ JoinTimeout \in Nat /\ WaitTimeout \in Nat
  /\ MaxLines \in Nat
  /\ Killed \notin ExitCodes /\ Interrupted \notin ExitCodes
  /\ None \notin ExitCodes \cup {Killed, Interrupted} \cup Nat
  /\ "running" \notin ExitCodes \cup {Killed}

VARIABLES
  child,        \* "running" or the child's returncode
  pipe,         \* lines written and not yet read (TRUE: has "[dotenv@")
  pipeOpen,     \* some process still holds the write end of the pipe
  emitted,      \* lines written so far
  reader,       \* the reader thread: "reading" or "done" (for-loop over)
  lineAge,      \* now - last_line_time
  markerAge,    \* now - saw_stall_marker_time, or None
  pc,           \* the main thread
  left,         \* ticks left of the current sleep, join or wait
  rc            \* the value run_with_watch returns, None before

vars == <<child, pipe, pipeOpen, emitted, reader, lineAge, markerAge,
          pc, left, rc>>

-----------------------------------------------------------------------------
(* Time.                                                                   *)

\* Ages saturate one past the window: the code only asks whether they are
\* larger than the window.
Cap == Window + 1

\* An age that keeps growing past the window.
AgedUnsaturated(a) == IF a = None THEN None ELSE a + 1

\* An age one tick later.
Aged(a) == IF a = None THEN None ELSE IF a < Cap THEN a + 1 ELSE Cap

\* A countdown one tick later.
Down(k) == IF k > 0 THEN k - 1 ELSE 0

-----------------------------------------------------------------------------
(* Mutants: plausible bugs of the watcher, each replacing one action below. *)

\* The stall timer is cleared after diagnostics instead of restarted.
DiagnoseClears ==
  /\ pc = "diag"
  /\ markerAge' = None
  /\ pc' = "poll"
  /\ UNCHANGED <<child, pipe, pipeOpen, emitted, reader, lineAge, left, rc>>

\* The reader is joined without a timeout.
JoinExpiresNever ==
  /\ pc = "join"
  /\ left = 0
  /\ reader = "done"
  /\ rc' = child
  /\ pc' = "returned"
  /\ UNCHANGED <<child, pipe, pipeOpen, emitted, reader, lineAge,
                 markerAge, left>>

\* After the 5 s wait the handler returns without killing the child.
WaitExpiresNoKill ==
  /\ pc = "waitTerm"
  /\ child = "running"
  /\ left = 0
  /\ rc' = Interrupted
  /\ pc' = "returned"
  /\ UNCHANGED <<child, pipe, pipeOpen, emitted, reader, lineAge,
                 markerAge, left>>

-----------------------------------------------------------------------------
(* The child process and the processes it starts.                          *)

Init ==
  /\ child = "running"
  /\ pipe = <<>>
  /\ pipeOpen = TRUE
  /\ emitted = 0
  /\ reader = "reading"
  /\ lineAge = 0
  /\ markerAge = None
  /\ pc = "poll"
  /\ left = 0
  /\ rc = None

\* A writer of the pipe prints one line, with or without the marker.
Emit ==
  /\ pipeOpen
  /\ emitted < MaxLines
  /\ \E marker \in BOOLEAN : pipe' = Append(pipe, marker)
  /\ emitted' = emitted + 1
  /\ UNCHANGED <<child, pipeOpen, reader, lineAge, markerAge, pc, left, rc>>

\* make exits; the processes it started may keep the pipe open.
ChildExit ==
  /\ child = "running"
  /\ \E code \in ExitCodes : child' = code
  /\ \E open \in BOOLEAN : pipeOpen' = (open /\ pipeOpen)
  /\ UNCHANGED <<pipe, emitted, reader, lineAge, markerAge, pc, left, rc>>

\* The last process holding the write end of the pipe exits.
WritersExit ==
  /\ child # "running"
  /\ pipeOpen
  /\ pipeOpen' = FALSE
  /\ UNCHANGED <<child, pipe, emitted, reader, lineAge, markerAge, pc, left, rc>>

-----------------------------------------------------------------------------
(* The reader thread, lines 29-38.  It dies with the process once          *)
(* run_with_watch has returned (daemon=True, then sys.exit).               *)

\* Lines 31-38: forward one line, stamp it, start the timer at the first
\* marker.
ReadLine ==
  /\ pc # "returned"
  /\ reader = "reading"
  /\ pipe # <<>>
  /\ pipe' = Tail(pipe)
  /\ lineAge' = 0
  /\ markerAge' = IF Head(pipe) /\ markerAge = None THEN 0 ELSE markerAge
  /\ UNCHANGED <<child, pipeOpen, emitted, reader, pc, left, rc>>

\* Line 31: end of file once every writer has closed the pipe.
ReadEOF ==
  /\ pc # "returned"
  /\ reader = "reading"
  /\ pipe = <<>>
  /\ ~pipeOpen
  /\ reader' = "done"
  /\ UNCHANGED <<child, pipe, pipeOpen, emitted, lineAge, markerAge, pc, left, rc>>

-----------------------------------------------------------------------------
(* The main thread, lines 43-61.                                           *)

\* Line 44: while proc.poll() is None, sleep 2 s; then join the reader.
MainPoll ==
  /\ pc = "poll"
  /\ IF child = "running"
       THEN pc' = "sleep" /\ left' = Poll
       ELSE pc' = "join" /\ left' = JoinTimeout
  /\ UNCHANGED <<child, pipe, pipeOpen, emitted, reader, lineAge, markerAge, rc>>

\* Lines 45-48: after the sleep, a timer older than the window starts the
\* diagnostics.
MainWake ==
  /\ pc = "sleep"
  /\ left = 0
  /\ pc' = IF markerAge # None /\ markerAge > Window THEN "diag" ELSE "poll"
  /\ UNCHANGED <<child, pipe, pipeOpen, emitted, reader, lineAge, markerAge,
                 left, rc>>

\* Lines 49-51: diagnostics(), then the timer restarts now.
Diagnose ==
  /\ pc = "diag"
  /\ markerAge' = 0
  /\ pc' = "poll"
  /\ UNCHANGED <<child, pipe, pipeOpen, emitted, reader, lineAge, left, rc>>

\* Lines 53-54: the reader has finished; return proc.returncode.
JoinReturns ==
  /\ pc = "join"
  /\ reader = "done"
  /\ rc' = child
  /\ pc' = "returned"
  /\ UNCHANGED <<child, pipe, pipeOpen, emitted, reader, lineAge,
                 markerAge, left>>

\* Lines 53-54: join gives up after its timeout; return proc.returncode.
JoinExpires ==
  /\ pc = "join"
  /\ left = 0
  /\ rc' = child
  /\ pc' = "returned"
  /\ UNCHANGED <<child, pipe, pipeOpen, emitted, reader, lineAge,
                 markerAge, left>>

\* Lines 55-56: Ctrl-C inside the try block; proc.terminate() and wait.
Interrupt ==
  /\ pc \in {"poll", "sleep", "diag", "join"}
  /\ pc' = "waitTerm"
  /\ left' = WaitTimeout
  /\ UNCHANGED <<child, pipe, pipeOpen, emitted, reader, lineAge, markerAge, rc>>

\* Lines 58 and 61: the child has exited within the wait; return 130.
WaitReturns ==
  /\ pc = "waitTerm"
  /\ child # "running"
  /\ rc' = Interrupted
  /\ pc' = "returned"
  /\ UNCHANGED <<child, pipe, pipeOpen, emitted, reader, lineAge,
                 markerAge, left>>

\* Lines 59-61: the wait timed out; proc.kill() and return 130.
WaitExpires ==
  /\ pc = "waitTerm"
  /\ child = "running"
  /\ left = 0
  /\ child' = Killed
  /\ rc' = Interrupted
  /\ pc' = "returned"
  /\ UNCHANGED <<pipe, pipeOpen, emitted, reader, lineAge, markerAge, left>>

Reader == ReadLine \/ ReadEOF

\* One tick of the clock.  The threads' own steps take no time: the clock
\* moves only while the main thread sleeps, joins or waits, and the reader
\* has nothing it could do.
Tick ==
  /\ pc \in {"sleep", "join", "waitTerm"}
  /\ left > 0
  /\ ~ENABLED Reader
  /\ lineAge' = Aged(lineAge)
  /\ markerAge' = Aged(markerAge)
  /\ left' = Down(left)
  /\ UNCHANGED <<child, pipe, pipeOpen, emitted, reader, pc, rc>>

Environment == Emit \/ ChildExit \/ WritersExit \/ Interrupt

Main ==
  \/ MainPoll \/ MainWake \/ Diagnose \/ JoinReturns \/ JoinExpires
  \/ WaitReturns \/ WaitExpires

Next == Environment \/ Reader \/ Main \/ Tick

\* The threads run whenever they can and time passes; make, the processes
\* it starts and the user act when they like.
Spec ==
  /\ Init /\ [][Next]_vars
  /\ WF_vars(Reader) /\ WF_vars(Main) /\ WF_vars(Tick)

-----------------------------------------------------------------------------
(* Properties.                                                             *)

\* Every variable has its type.
TypeOK ==
  /\ child \in {"running", Killed} \cup ExitCodes
  /\ pipe \in Seq(BOOLEAN) /\ Len(pipe) <= emitted
  /\ pipeOpen \in BOOLEAN
  /\ emitted \in 0 .. MaxLines
  /\ reader \in {"reading", "done"}
  /\ lineAge \in 0 .. Cap
  /\ markerAge \in 0 .. Cap \cup {None}
  /\ pc \in {"poll", "sleep", "diag", "join", "waitTerm", "returned"}
  /\ left \in 0 .. (Poll + JoinTimeout + WaitTimeout)
  /\ rc \in ExitCodes \cup {Killed, Interrupted, None}

\* run_with_watch never returns while make is still running: the normal
\* path returns only after proc.poll() saw it exit (line 44), and the
\* KeyboardInterrupt handler (lines 55-61) waits for it or kills it.
ChildStoppedOnReturn == pc = "returned" => child # "running"

\* Once make has exited, run_with_watch returns, even when the processes
\* make started keep the pipe open and the reader never sees end of file
\* (the 2 s join of line 53).
ReturnsAfterExit == (child # "running") ~> (pc = "returned")

\* If make keeps running after the "[dotenv@" marker and nobody presses
\* Ctrl-C, the diagnostics of lines 47-51 are printed again and again: the
\* timer restarts rather than stops.
StallDiagnosed ==
  <>(markerAge # None) /\ <>[](child = "running" /\ pc # "waitTerm")
    => []<>(pc = "diag")

\* "Ensure reader finishes" (line 52): when run_with_watch returns
\* normally, every line make and its children printed has been forwarded.
ReaderFinishedBeforeReturn ==
  pc = "returned" /\ rc # Interrupted => reader = "done"

=============================================================================
