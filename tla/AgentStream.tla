----------------------------- MODULE AgentStream -----------------------------
(***************************************************************************)
(* The agent: StreamMetrics, one goroutine for each stream that a server   *)
(* has open, the collectors they all share, and the graceful stop.         *)
(*                                                                         *)
(* At every tick of its own ticker a stream collects and sends.  What the  *)
(* collectors read has no memory, except the power of an Intel card that   *)
(* has only an energy counter: the last reading and its time are in two    *)
(* maps, and the power is the difference over the difference in time.      *)
(*                                                                         *)
(* Time is counted in intervals of the tickers.  The microseconds between  *)
(* time.Now and the reading of the counter's file are left out.  The       *)
(* counter may wrap, and time goes on for less than a turn of it.          *)
(***************************************************************************)
EXTENDS Naturals, Sequences

CONSTANTS
  Streams,   \* the streams that may be open at one time
  Draws,     \* the energy the card may use in one interval
  MaxWatts,  \* the limit of the sanity check
  Wrap,      \* the counter's readings are below this
  Starts,    \* its readings when the agent's node starts
  Passes,    \* how many patterns of readHwmonPower find its file
  MaxTime    \* bound: how long time goes on

ASSUME AgentStreamAssumption ==
  /\ Draws \subseteq Nat
  /\ MaxWatts \in Nat
  /\ Wrap \in Nat
  /\ MaxTime \in Nat
  /\ Starts \subseteq 0 .. Wrap - 1
  /\ Passes \in Nat \ {0}

VARIABLES
  energy,  \* history: energy[t] is what the card has used by time t
  proc,    \* where main is
  closed,  \* the collectors are closed
  lastEnergyUJ,  \* the card's entry in the map, {} if none
  lastEnergyTs,  \* likewise; a missing entry reads as 0, Go's zero time
  spc,     \* spc[s]: where StreamMetrics is for stream s
  gone,    \* the streams whose context is done
  ticked,  \* the streams whose ticker has a tick in its channel
  at,      \* at[s]: when readHwmonPower read the counter
  pass,    \* pass[s]: how many patterns it has tried
  prev,    \* prev[s]: the reading it found in lastEnergyUJ
  from,    \* from[s]: the time it found in lastEnergyTs
  power,   \* power[s]: the power in the snapshot, {} if none
  alone    \* history: no two streams were reading the counter at one time

maps == <<lastEnergyUJ, lastEnergyTs>>
meterVars == <<at, pass, prev, from, power>>
streamVars == <<ticked, meterVars>>
vars == <<energy, proc, closed, maps, spc, gone, streamVars, alone>>

now == Len(energy)
\* The card's energy_uj file, read at time t.  It wraps at most once: an agent
\* without a server for hours, in which it goes round, is not modelled.
Counter(t) == IF energy[t] < Wrap THEN energy[t] ELSE energy[t] - Wrap

Measuring == {"energy", "since", "storeEnergy", "storeTs"}
Power == [uj : Nat, from : 0 .. now, to : 0 .. now]

TypeOK ==
  /\ energy \in Seq(Nat) /\ energy # <<>>
  /\ proc \in {"down", "serving", "stopping", "stopped"}
  /\ closed \in BOOLEAN
  /\ lastEnergyUJ \in SUBSET Nat
  /\ lastEnergyTs \in 0 .. now
  /\ spc \in [Streams -> {"none", "select", "collect", "send"} \cup Measuring]
  /\ gone \cup ticked \subseteq {s \in Streams : spc[s] # "none"}
  /\ at \in [Streams -> 0 .. now]
  /\ \A s \in Streams : spc[s] \in Measuring => at[s] # 0
  /\ pass \in [Streams -> 0 .. Passes]
  /\ prev \in [Streams -> SUBSET Nat]
  /\ from \in [Streams -> 0 .. now]
  /\ power \in [Streams -> SUBSET Power]
  /\ alone \in BOOLEAN

Init ==
  /\ energy \in {<<e>> : e \in Starts}
  /\ proc = "down"
  /\ closed = FALSE
  /\ lastEnergyUJ = {}
  /\ lastEnergyTs = 0
  /\ spc = [s \in Streams |-> "none"]
  /\ gone = {}
  /\ ticked = {}
  /\ at = [s \in Streams |-> 0]
  /\ pass = [s \in Streams |-> 0]
  /\ prev = [s \in Streams |-> {}]
  /\ from = [s \in Streams |-> 0]
  /\ power = [s \in Streams |-> {}]
  /\ alone = TRUE

-----------------------------------------------------------------------------
(* Time, and the servers at the other end.                                 *)

\* An interval goes by.  A tick that finds one still in the channel is lost.
TimePasses ==
  /\ now < MaxTime
  /\ \E d \in Draws : /\ energy[now] + d < energy[1] + Wrap
                      /\ energy' = Append(energy, energy[now] + d)
  /\ ticked' = {s \in Streams : spc[s] # "none"}
  /\ UNCHANGED <<proc, closed, maps, spc, gone, meterVars, alone>>

\* A server calls StreamMetrics.  After GracefulStop has begun it cannot.
Open(s) ==
  /\ proc = "serving"
  /\ spc[s] = "none"
  /\ spc' = [spc EXCEPT ![s] = "select"]
  /\ UNCHANGED <<energy, proc, closed, maps, gone, streamVars, alone>>

\* It cancels the call, or the connection breaks.
Leave(s) ==
  /\ spc[s] # "none"
  /\ s \notin gone
  /\ gone' = gone \cup {s}
  /\ UNCHANGED <<energy, proc, closed, maps, spc, streamVars, alone>>

-----------------------------------------------------------------------------
(* StreamMetrics.                                                          *)

\* Faulty Returned: the ticker is not stopped.
LeaveTicker(s) ==
  /\ spc' = [spc EXCEPT ![s] = "none"]
  /\ gone' = gone \ {s}
  /\ at' = [at EXCEPT ![s] = 0]
  /\ pass' = [pass EXCEPT ![s] = 0]
  /\ prev' = [prev EXCEPT ![s] = {}]
  /\ from' = [from EXCEPT ![s] = 0]
  /\ power' = [power EXCEPT ![s] = {}]
  /\ UNCHANGED <<energy, proc, closed, maps, ticked, alone>>

\* The call returns and its ticker stops.
Returned(s) ==
  /\ spc' = [spc EXCEPT ![s] = "none"]
  /\ gone' = gone \ {s}
  /\ ticked' = ticked \ {s}
  /\ at' = [at EXCEPT ![s] = 0]
  /\ pass' = [pass EXCEPT ![s] = 0]
  /\ prev' = [prev EXCEPT ![s] = {}]
  /\ from' = [from EXCEPT ![s] = 0]
  /\ power' = [power EXCEPT ![s] = {}]
  /\ UNCHANGED <<energy, proc, closed, maps, alone>>

\* select, case <-stream.Context().Done().
ContextDone(s) ==
  /\ spc[s] = "select"
  /\ s \in gone
  /\ Returned(s)

\* select, case t := <-ticker.C.
Tick(s) ==
  /\ spc[s] = "select"
  /\ s \in ticked
  /\ ticked' = ticked \ {s}
  /\ spc' = [spc EXCEPT ![s] = "collect"]
  /\ UNCHANGED <<energy, proc, closed, maps, gone, meterVars, alone>>

\* The collectors answer or fail; the counter cannot be read, or another file
\* gives the power.
CollectWithoutCounter(s) ==
  /\ spc[s] = "collect"
  /\ spc' = [spc EXCEPT ![s] = "send"]
  /\ UNCHANGED <<energy, proc, closed, maps, gone, streamVars, alone>>

\* readHwmonPower: time.Now, and the counter's file.
ReadCounter(s) ==
  /\ spc[s] = "collect"
  /\ at' = [at EXCEPT ![s] = now]
  /\ pass' = [pass EXCEPT ![s] = 1]
  /\ alone' = (alone /\ \A r \in Streams : spc[r] \notin Measuring)
  /\ spc' = [spc EXCEPT ![s] = "energy"]
  /\ UNCHANGED <<energy, proc, closed, maps, gone, ticked, prev, from, power>>

\* prev, ok := c.lastEnergyUJ[fileKey]
LookUpEnergy(s) ==
  /\ spc[s] = "energy"
  /\ prev' = [prev EXCEPT ![s] = lastEnergyUJ]
  /\ spc' = [spc EXCEPT ![s] = IF lastEnergyUJ = {} THEN "storeEnergy" ELSE "since"]
  /\ UNCHANGED <<energy, proc, closed, maps, gone, ticked, at, pass, from, power, alone>>

\* now.Sub(c.lastEnergyTs[fileKey])
LookUpTs(s) ==
  /\ spc[s] = "since"
  /\ from' = [from EXCEPT ![s] = lastEnergyTs]
  /\ spc' = [spc EXCEPT ![s] = "storeEnergy"]
  /\ UNCHANGED <<energy, proc, closed, maps, gone, ticked, at, pass, prev, power, alone>>

\* c.lastEnergyUJ[fileKey] = uj
StoreEnergy(s) ==
  /\ spc[s] = "storeEnergy"
  /\ lastEnergyUJ' = {Counter(at[s])}
  /\ spc' = [spc EXCEPT ![s] = "storeTs"]
  /\ UNCHANGED <<energy, proc, closed, lastEnergyTs, gone, streamVars, alone>>

\* The watts that stream s returns: the time has advanced, the counter has not
\* gone back, and the result passes the sanity check.
Watts(s) ==
  LET uj == Counter(at[s])
  IN  {[uj |-> uj - p, from |-> from[s], to |-> at[s]] :
         p \in {q \in prev[s] : /\ from[s] < at[s]
                                /\ q < uj
                                /\ uj - q < MaxWatts * (at[s] - from[s])}}

\* Faulty StoreTs: the time is stored with a result only.
StoreTsOnReturn(s) ==
  /\ spc[s] = "storeTs"
  /\ lastEnergyTs' = IF Watts(s) = {} /\ prev[s] # {} THEN lastEnergyTs ELSE at[s]
  /\ power' = [power EXCEPT ![s] = Watts(s)]
  /\ \/ /\ Watts(s) = {} /\ pass[s] < Passes
        /\ pass' = [pass EXCEPT ![s] = @ + 1]
        /\ spc' = [spc EXCEPT ![s] = "energy"]
        /\ UNCHANGED <<at, prev, from>>
     \/ /\ Watts(s) # {} \/ pass[s] = Passes
        /\ spc' = [spc EXCEPT ![s] = "send"]
        /\ at' = [at EXCEPT ![s] = 0]
        /\ pass' = [pass EXCEPT ![s] = 0]
        /\ prev' = [prev EXCEPT ![s] = {}]
        /\ from' = [from EXCEPT ![s] = 0]
  /\ UNCHANGED <<energy, proc, closed, lastEnergyUJ, gone, ticked, alone>>

\* c.lastEnergyTs[fileKey] = now, and return watts; without a result the next
\* pattern is tried.  (Lines 396-397, after a result that fails the check,
\* store the same again, as the next pass does.)
StoreTs(s) ==
  /\ spc[s] = "storeTs"
  /\ lastEnergyTs' = at[s]
  /\ power' = [power EXCEPT ![s] = Watts(s)]
  /\ \/ /\ Watts(s) = {} /\ pass[s] < Passes
        /\ pass' = [pass EXCEPT ![s] = @ + 1]
        /\ spc' = [spc EXCEPT ![s] = "energy"]
        /\ UNCHANGED <<at, prev, from>>
     \/ /\ Watts(s) # {} \/ pass[s] = Passes
        /\ spc' = [spc EXCEPT ![s] = "send"]
        /\ at' = [at EXCEPT ![s] = 0]
        /\ pass' = [pass EXCEPT ![s] = 0]
        /\ prev' = [prev EXCEPT ![s] = {}]
        /\ from' = [from EXCEPT ![s] = 0]
  /\ UNCHANGED <<energy, proc, closed, lastEnergyUJ, gone, ticked, alone>>

\* stream.Send returns nil: the snapshot is sent or buffered.
SendOk(s) ==
  /\ spc[s] = "send"
  /\ power' = [power EXCEPT ![s] = {}]
  /\ spc' = [spc EXCEPT ![s] = "select"]
  /\ UNCHANGED <<energy, proc, closed, maps, gone, ticked, at, pass, prev, from, alone>>

\* Faulty SendFails: a blocked Send does not notice that the server left.
SendBlocks(s) == FALSE

\* It fails because the call is over.
SendFails(s) ==
  /\ spc[s] = "send"
  /\ s \in gone
  /\ Returned(s)

Collect(s) ==
  \/ CollectWithoutCounter(s) \/ ReadCounter(s)
  \/ LookUpEnergy(s) \/ LookUpTs(s) \/ StoreEnergy(s) \/ StoreTs(s)

Stream(s) == ContextDone(s) \/ Tick(s) \/ Collect(s) \/ SendOk(s) \/ SendFails(s)

-----------------------------------------------------------------------------
(* main.                                                                   *)

\* The port can be listened on; otherwise the process exits and is restarted.
Start ==
  /\ proc = "down"
  /\ proc' = "serving"
  /\ UNCHANGED <<energy, closed, maps, spc, gone, streamVars, alone>>

\* The signal arrives: GracefulStop takes no more calls.
Signal ==
  /\ proc = "serving"
  /\ proc' = "stopping"
  /\ UNCHANGED <<energy, closed, maps, spc, gone, streamVars, alone>>

\* GracefulStop returns when all calls have.
Stopped ==
  /\ proc = "stopping"
  /\ \A s \in Streams : spc[s] = "none"
  /\ proc' = "stopped"
  /\ UNCHANGED <<energy, closed, maps, spc, gone, streamVars, alone>>

CloseCollectors ==
  /\ proc = "stopped"
  /\ ~closed
  /\ closed' = TRUE
  /\ UNCHANGED <<energy, proc, maps, spc, gone, streamVars, alone>>

\* The process and its memory are gone.
Ended ==
  /\ proc' = "down"
  /\ closed' = FALSE
  /\ lastEnergyUJ' = {}
  /\ lastEnergyTs' = 0
  /\ spc' = [s \in Streams |-> "none"]
  /\ gone' = {}
  /\ ticked' = {}
  /\ at' = [s \in Streams |-> 0]
  /\ pass' = [s \in Streams |-> 0]
  /\ prev' = [s \in Streams |-> {}]
  /\ from' = [s \in Streams |-> 0]
  /\ power' = [s \in Streams |-> {}]
  /\ alone' = TRUE
  /\ UNCHANGED energy

\* Serve returns with GracefulStop, and main with it, whether or not the
\* collectors have been closed yet.
Exit ==
  /\ proc = "stopped"
  /\ Ended

\* It is killed.
Crash ==
  /\ proc # "down"
  /\ Ended

\* Two streams are at the same map, and one of them stores into it.
RaceOnMaps(r, s) ==
  /\ r # s
  /\ \/ spc[r] \in {"energy", "storeEnergy"} /\ spc[s] = "storeEnergy"
     \/ spc[r] \in {"since", "storeTs"} /\ spc[s] = "storeTs"

\* Go's maps are not made for that: the runtime may detect it and end the
\* process.  If it does not, the accesses take place in some order.
MapFault ==
  /\ \E r, s \in Streams : RaceOnMaps(r, s)
  /\ Ended

-----------------------------------------------------------------------------
Main == Start \/ Signal \/ Stopped \/ CloseCollectors \/ Exit \/ Crash \/ MapFault

Next ==
  \/ TimePasses
  \/ Main
  \/ \E s \in Streams : Open(s) \/ Leave(s) \/ Stream(s)

Spec == Init /\ [][Next]_vars

(***************************************************************************)
(* Fairness.  Goroutines are scheduled and the collectors come back; a     *)
(* select with both cases ready again and again takes each at last; Send   *)
(* fails when the context is done.  A Send to a server that reads nothing  *)
(* may block for ever, and no server need ever leave.                      *)
(***************************************************************************)
Fairness ==
  /\ WF_vars(Stopped)
  /\ WF_vars(Exit)
  /\ \A s \in Streams :
       /\ WF_vars(Collect(s))
       /\ WF_vars(SendFails(s))
       /\ SF_vars(ContextDone(s))

FairSpec == Spec /\ Fairness

-----------------------------------------------------------------------------
(* Properties.                                                             *)

\* The power in a snapshot is the energy the card has used since the reading
\* that the maps remember, over the time since then.
PowerIsDelta ==
  \A s \in Streams : \A p \in power[s] :
    /\ p.from \in 1 .. p.to - 1
    /\ p.uj = energy[p.to] - energy[p.from]

\* It is as long as no two streams read the counter at one time, through
\* wrapping, late and lost ticks, reconnections and restarts.
PowerIsDeltaAlone == alone => PowerIsDelta

\* The collectors are closed only after the last stream has used them.
ClosedUnused == closed => \A s \in Streams : spc[s] = "none"

\* A stream whose server left comes to its end.
StreamEnds == \A s \in Streams : s \in gone ~> s \notin gone

\* A graceful stop ends when the servers have left.
StopEnds ==
  (proc = "stopping" /\ \A s \in Streams : spc[s] = "none" \/ s \in gone)
    ~> proc = "down"
=============================================================================
