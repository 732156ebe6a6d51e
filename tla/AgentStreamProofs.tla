-------------------------- MODULE AgentStreamProofs --------------------------
(***************************************************************************)
(* What holds of the agent's streams for any number of them.               *)
(***************************************************************************)
EXTENDS AgentStream, TLAPS

\* The card uses energy, for less than a turn of the counter.
EnergyInv ==
  /\ energy[1] < Wrap
  /\ \A t \in 1 .. now : energy[1] <= energy[t] /\ energy[t] < energy[1] + Wrap
  /\ \A t, u \in 1 .. now : t <= u => energy[t] <= energy[u]

\* Two values are the reading and the time of one reading.
Reading(ujs, t) == ujs # {} => t \in 1 .. now /\ ujs = {Counter(t)}

\* What stream s has in hand, and the maps have while it stores.
AtMeter(s) ==
  /\ spc[s] \in {"energy", "since", "storeEnergy"} => Reading(lastEnergyUJ, lastEnergyTs)
  /\ spc[s] = "since" => prev[s] = lastEnergyUJ
  /\ spc[s] \in {"storeEnergy", "storeTs"} => Reading(prev[s], from[s])
  /\ spc[s] = "storeTs" => lastEnergyUJ = {Counter(at[s])}

\* A single stream at the meter finds a reading in the maps, or none.
MeterInv ==
  alone =>
    /\ \A r, s \in Streams : spc[r] \in Measuring /\ spc[s] \in Measuring => r = s
    /\ (\A s \in Streams : spc[s] \notin Measuring) => Reading(lastEnergyUJ, lastEnergyTs)
    /\ \A s \in Streams : spc[s] \in Measuring => AtMeter(s)
    /\ PowerIsDelta

CloseInv ==
  /\ closed => proc = "stopped"
  /\ proc \in {"down", "stopped"} => \A s \in Streams : spc[s] = "none"

AgentInv == TypeOK /\ EnergyInv /\ MeterInv /\ CloseInv

LEMMA AgentInit == Init => AgentInv
<1> SUFFICES ASSUME Init PROVE AgentInv
  OBVIOUS
<1> USE AgentStreamAssumption
<1>1. PICK e \in Starts : energy = <<e>>
  BY DEF Init
<1>2. energy \in Seq(Nat) /\ energy # <<>> /\ now = 1 /\ energy[1] = e /\ e \in 0 .. Wrap - 1
  BY <1>1 DEF now
<1>3. TypeOK
  <2>1. /\ lastEnergyTs \in 0 .. now
        /\ at \in [Streams -> 0 .. now] /\ from \in [Streams -> 0 .. now]
        /\ pass \in [Streams -> 0 .. Passes]
    BY <1>2 DEF Init
  <2>2. gone \cup ticked \subseteq {s \in Streams : spc[s] # "none"}
    BY DEF Init
  <2>3. /\ spc \in [Streams -> {"none", "select", "collect", "send"} \cup Measuring]
        /\ prev \in [Streams -> SUBSET Nat]
        /\ power \in [Streams -> SUBSET Power]
    BY DEF Init
  <2>4. \A s \in Streams : spc[s] \notin Measuring
    BY DEF Init, Measuring
  <2> QED
    BY <1>2, <2>1, <2>2, <2>3, <2>4 DEF Init, TypeOK
<1>4. EnergyInv
  BY <1>2 DEF EnergyInv
<1>5. MeterInv /\ CloseInv
  BY DEF Init, MeterInv, CloseInv, Reading, Measuring, PowerIsDelta
<1> QED
  BY <1>3, <1>4, <1>5 DEF AgentInv

\* While time goes on, readings of the past stay what they were.
LEMMA CounterStays ==
  ASSUME energy \in Seq(Nat), NEW e \in Nat, energy' = Append(energy, e)
  PROVE  /\ now' = now + 1
         /\ \A t \in 1 .. now : energy'[t] = energy[t] /\ Counter(t)' = Counter(t)
         /\ energy'[now + 1] = e
BY DEF now, Counter

\* If the counter has not gone back since, it has not wrapped.
LEMMA CounterDelta ==
  ASSUME TypeOK, EnergyInv, NEW t \in 1 .. now, NEW u \in 1 .. now, t < u,
         Counter(t) < Counter(u)
  PROVE  Counter(u) - Counter(t) = energy[u] - energy[t]
<1>1. energy[t] \in Nat /\ energy[u] \in Nat /\ energy[1] \in Nat
  BY DEF TypeOK, now
<1>2. /\ energy[t] <= energy[u]
      /\ energy[u] < energy[1] + Wrap
      /\ energy[1] <= energy[t]
  BY DEF EnergyInv
<1> QED
  BY <1>1, <1>2, AgentStreamAssumption DEF Counter

LEMMA TimeAgent ==
  ASSUME AgentInv, TimePasses
  PROVE  AgentInv'
<1> USE AgentStreamAssumption
<1>1. PICK d \in Draws : /\ energy[now] + d < energy[1] + Wrap
                         /\ energy' = Append(energy, energy[now] + d)
  BY DEF TimePasses
<1>2. now \in Nat \ {0} /\ energy[now] \in Nat /\ energy[now] + d \in Nat
  BY DEF AgentInv, TypeOK, now
<1>3. /\ now' = now + 1
      /\ \A t \in 1 .. now : energy'[t] = energy[t] /\ Counter(t)' = Counter(t)
      /\ energy'[now + 1] = energy[now] + d
  BY <1>1, <1>2, CounterStays DEF AgentInv, TypeOK
<1>4. UNCHANGED <<proc, closed, lastEnergyUJ, lastEnergyTs, spc, gone, at, pass,
                  prev, from, power, alone>>
  BY DEF TimePasses, maps, meterVars
<1>5. TypeOK'
  <2>1. energy' \in Seq(Nat) /\ energy' # <<>>
    <3>1. energy' \in Seq(Nat)
      BY <1>1, <1>2 DEF AgentInv, TypeOK
    <3>2. Len(energy') # 0
      BY <1>2, <1>3 DEF now
    <3> QED
      BY <3>1, <3>2
  <2>2. ticked' = {s \in Streams : spc[s] # "none"}
    BY DEF TimePasses
  <2>3. Power \subseteq Power'
    BY <1>2, <1>3 DEF Power
  <2>4. power' \in [Streams -> SUBSET Power']
    BY <1>4, <2>3 DEF AgentInv, TypeOK
  <2>5. at' \in [Streams -> 0 .. now'] /\ from' \in [Streams -> 0 .. now']
    BY <1>2, <1>3, <1>4 DEF AgentInv, TypeOK
  <2> QED
    BY <1>2, <1>3, <1>4, <2>1, <2>2, <2>4, <2>5 DEF AgentInv, TypeOK, Measuring
<1>6. EnergyInv'
  <2>1. \A t \in 1 .. now : energy[t] \in Nat
    BY DEF AgentInv, TypeOK, now
  <2>2. \A t \in 1 .. now : /\ energy[t] <= energy[now] /\ energy[1] <= energy[t]
                            /\ energy[t] < energy[1] + Wrap
    BY <1>2 DEF AgentInv, EnergyInv
  <2>3. \A t \in 1 .. now' : t \in 1 .. now \/ t = now + 1
    BY <1>2, <1>3
  <2>4. energy'[1] = energy[1] /\ energy[1] \in Nat /\ d \in Nat
    BY <1>2, <1>3, <2>1
  <2>5. \A t \in 1 .. now' : /\ energy'[1] <= energy'[t]
                             /\ energy'[t] < energy'[1] + Wrap
    <3> SUFFICES ASSUME NEW t \in 1 .. now'
                 PROVE  energy[1] <= energy'[t] /\ energy'[t] < energy[1] + Wrap
      BY <2>4
    <3>1. CASE t \in 1 .. now
      BY <1>3, <2>2, <3>1
    <3>2. CASE t = now + 1
      <4>1. energy'[t] = energy[now] + d
        BY <1>3, <3>2
      <4>2. energy[1] <= energy[now]
        BY <1>2, <2>2
      <4>3. energy[now] + d < energy[1] + Wrap
        BY <1>1
      <4> QED
        BY <1>2, <2>4, <4>1, <4>2, <4>3
    <3> QED
      BY <2>3, <3>1, <3>2
  <2>6. \A t, u \in 1 .. now' : t <= u => energy'[t] <= energy'[u]
    <3> SUFFICES ASSUME NEW t \in 1 .. now', NEW u \in 1 .. now', t <= u
                 PROVE  energy'[t] <= energy'[u]
      OBVIOUS
    <3>1. CASE u \in 1 .. now
      BY <1>2, <1>3, <2>3, <3>1 DEF AgentInv, EnergyInv
    <3>2. CASE u = now + 1
      BY <1>2, <1>3, <2>1, <2>2, <2>3, <2>4, <3>2
    <3> QED
      BY <2>3, <3>1, <3>2
  <2> QED
    BY <2>4, <2>5, <2>6 DEF AgentInv, EnergyInv
<1>7. ASSUME NEW ujs, NEW t, Reading(ujs, t)
      PROVE  ujs # {} => t \in 1 .. now' /\ ujs = {Counter(t)'}
  BY <1>2, <1>3, <1>7 DEF Reading
<1>8. MeterInv'
  <2> SUFFICES ASSUME alone
               PROVE  /\ (\A s \in Streams : spc[s] \notin Measuring)
                           => Reading(lastEnergyUJ, lastEnergyTs)'
                      /\ \A s \in Streams : spc[s] \in Measuring => AtMeter(s)'
                      /\ PowerIsDelta'
    BY <1>4 DEF AgentInv, MeterInv
  <2>1. (\A s \in Streams : spc[s] \notin Measuring) => Reading(lastEnergyUJ, lastEnergyTs)'
    BY <1>4, <1>7 DEF AgentInv, MeterInv, Reading
  <2>2. ASSUME NEW s \in Streams, spc[s] \in Measuring PROVE AtMeter(s)'
    <3>1. AtMeter(s)
      BY <2>2 DEF AgentInv, MeterInv
    <3>2. at[s] \in 1 .. now
      BY <1>2, <2>2 DEF AgentInv, TypeOK
    <3> QED
      BY <1>2, <1>3, <1>4, <1>7, <3>1, <3>2 DEF AtMeter, Reading
  <2>3. PowerIsDelta'
    <3> SUFFICES ASSUME NEW s \in Streams, NEW p \in power[s]
                 PROVE  /\ p.from \in 1 .. p.to - 1
                        /\ p.uj = energy'[p.to] - energy'[p.from]
      BY <1>4 DEF PowerIsDelta
    <3>1. p.to \in 0 .. now
      BY DEF AgentInv, TypeOK, Power
    <3>2. p.from \in 1 .. p.to - 1 /\ p.uj = energy[p.to] - energy[p.from]
      BY DEF AgentInv, MeterInv, PowerIsDelta
    <3> QED
      BY <1>2, <1>3, <3>1, <3>2
  <2> QED
    BY <2>1, <2>2, <2>3
<1>9. CloseInv'
  BY <1>4 DEF AgentInv, CloseInv
<1> QED
  BY <1>5, <1>6, <1>8, <1>9 DEF AgentInv

\* In the step of stream s, what it measures stays its own.
LEMMA OneMeasures ==
  ASSUME AgentInv, NEW s \in Streams, UNCHANGED <<energy, proc, closed, gone, ticked>>,
         NEW to \in {"send"} \cup Measuring, spc' = [spc EXCEPT ![s] = to],
         spc[s] \in {"collect"} \cup Measuring,
         alone' => alone /\ \A r \in Streams : r # s => spc[r] \notin Measuring,
         alone' => (to \in Measuring => AtMeter(s)'),
         alone' => (to = "send" => Reading(lastEnergyUJ, lastEnergyTs)'),
         alone' => PowerIsDelta',
         TypeOK'
  PROVE  AgentInv'
<1>1. EnergyInv' /\ CloseInv'
  BY DEF AgentInv, TypeOK, EnergyInv, CloseInv, Measuring, now
<1>2. \A r \in Streams : r # s => spc'[r] = spc[r]
  BY DEF AgentInv, TypeOK
<1>3. spc'[s] = to
  BY DEF AgentInv, TypeOK
<1>4. MeterInv'
  BY <1>2, <1>3 DEF MeterInv, Measuring
<1> QED
  BY <1>1, <1>4 DEF AgentInv

\* Of a stream's steps at the meter.
LEMMA MeterAgent ==
  ASSUME AgentInv, NEW s \in Streams,
         ReadCounter(s) \/ LookUpEnergy(s) \/ LookUpTs(s) \/ StoreEnergy(s) \/ StoreTs(s)
  PROVE  AgentInv'
<1> USE AgentStreamAssumption
<1>1. TypeOK /\ now \in Nat \ {0} /\ \A t \in 1 .. now : Counter(t) \in Nat
  <2>1. TypeOK /\ now \in Nat \ {0} /\ \A t \in 1 .. now : energy[t] \in Nat
    BY DEF AgentInv, TypeOK, now
  <2> QED
    BY <2>1 DEF Counter
<1>2. UNCHANGED <<energy, proc, closed, gone, ticked>>
  BY DEF ReadCounter, LookUpEnergy, LookUpTs, StoreEnergy, StoreTs, streamVars,
         meterVars, maps
<1>3. now' = now /\ Power' = Power /\ \A t : Counter(t)' = Counter(t)
  BY <1>2 DEF now, Power, Counter
<1>4. spc[s] \in Measuring => at[s] \in 1 .. now
  BY <1>1 DEF TypeOK
<1>5. alone /\ spc[s] \in Measuring =>
        /\ AtMeter(s) /\ PowerIsDelta
        /\ \A r \in Streams : r # s => spc[r] \notin Measuring
  BY DEF AgentInv, MeterInv
<1>6. CASE ReadCounter(s)
  <2>1. TypeOK'
    BY <1>1, <1>2, <1>3, <1>6 DEF ReadCounter, TypeOK, Measuring, maps
  <2>2. alone' => alone /\ \A r \in Streams : spc[r] \notin Measuring
    BY <1>6 DEF ReadCounter
  <2>3. alone' => AtMeter(s)' /\ PowerIsDelta'
    BY <1>1, <1>2, <1>3, <1>6, <2>2
    DEF ReadCounter, AgentInv, MeterInv, AtMeter, Reading, PowerIsDelta, TypeOK, maps
  <2> QED
    BY <1>2, <1>6, <2>1, <2>2, <2>3, OneMeasures DEF ReadCounter, Measuring
<1>7. CASE LookUpEnergy(s)
  <2>1. TypeOK'
    BY <1>1, <1>2, <1>3, <1>7 DEF LookUpEnergy, TypeOK, Measuring, maps
  <2>2. alone' => AtMeter(s)' /\ PowerIsDelta'
    BY <1>1, <1>2, <1>3, <1>5, <1>7
    DEF LookUpEnergy, AtMeter, Reading, PowerIsDelta, TypeOK, Measuring, maps
  <2> DEFINE to == IF lastEnergyUJ = {} THEN "storeEnergy" ELSE "since"
  <2>3. to \in Measuring /\ spc' = [spc EXCEPT ![s] = to] /\ spc[s] \in Measuring
    BY <1>7 DEF LookUpEnergy, Measuring
  <2>4. alone' = alone
    BY <1>7 DEF LookUpEnergy
  <2> HIDE DEF to
  <2> QED
    BY <1>2, <1>5, <2>1, <2>2, <2>3, <2>4, OneMeasures DEF Measuring
<1>8. CASE LookUpTs(s)
  <2>1. TypeOK'
    BY <1>1, <1>2, <1>3, <1>8 DEF LookUpTs, TypeOK, Measuring, maps
  <2>2. alone' => AtMeter(s)' /\ PowerIsDelta'
    BY <1>1, <1>2, <1>3, <1>5, <1>8
    DEF LookUpTs, AtMeter, Reading, PowerIsDelta, TypeOK, Measuring, maps
  <2> QED
    BY <1>2, <1>5, <1>8, <2>1, <2>2, OneMeasures DEF LookUpTs, Measuring
<1>9. CASE StoreEnergy(s)
  <2>1. TypeOK'
    BY <1>1, <1>2, <1>3, <1>4, <1>9
    DEF StoreEnergy, TypeOK, Measuring, streamVars, meterVars
  <2>2. alone' => AtMeter(s)' /\ PowerIsDelta'
    BY <1>1, <1>2, <1>3, <1>5, <1>9
    DEF StoreEnergy, AtMeter, Reading, PowerIsDelta, TypeOK, Measuring, streamVars, meterVars
  <2> QED
    BY <1>2, <1>5, <1>9, <2>1, <2>2, OneMeasures DEF StoreEnergy, Measuring
<1>10. CASE StoreTs(s)
  <2>1. at[s] \in 1 .. now /\ spc[s] \in Measuring
    BY <1>4, <1>10 DEF StoreTs, Measuring
  <2>2. Watts(s) \subseteq Power
    BY <1>1, <2>1 DEF Watts, Power, TypeOK
  <2> DEFINE to == spc'[s]
  <2>3. to \in {"energy", "send"} /\ spc' = [spc EXCEPT ![s] = to]
    BY <1>1, <1>10 DEF StoreTs, TypeOK
  <2>4. TypeOK'
    <3>1. /\ at' \in [Streams -> 0 .. now] /\ from' \in [Streams -> 0 .. now]
          /\ pass' \in [Streams -> 0 .. Passes]
          /\ prev' \in [Streams -> SUBSET Nat]
          /\ \A r \in Streams : spc'[r] \in Measuring => at'[r] # 0
      <4>1. CASE Watts(s) = {} /\ pass[s] < Passes
        <5>1. /\ UNCHANGED <<at, from, prev>>
              /\ pass' = [pass EXCEPT ![s] = @ + 1]
              /\ spc' = [spc EXCEPT ![s] = "energy"]
          BY <1>10, <4>1 DEF StoreTs
        <5>2. pass[s] + 1 \in 0 .. Passes
          BY <1>1, <4>1 DEF TypeOK
        <5> QED
          BY <1>1, <2>1, <5>1, <5>2 DEF TypeOK, Measuring
      <4>2. CASE ~(Watts(s) = {} /\ pass[s] < Passes)
        <5>1. /\ at' = [at EXCEPT ![s] = 0] /\ from' = [from EXCEPT ![s] = 0]
              /\ pass' = [pass EXCEPT ![s] = 0] /\ prev' = [prev EXCEPT ![s] = {}]
              /\ spc' = [spc EXCEPT ![s] = "send"]
          BY <1>10, <4>2 DEF StoreTs
        <5> QED
          BY <1>1, <5>1 DEF TypeOK, Measuring
      <4> QED
        BY <4>1, <4>2
    <3>2. power' \in [Streams -> SUBSET Power] /\ lastEnergyTs' \in 0 .. now
      BY <1>1, <1>10, <2>1, <2>2 DEF StoreTs, TypeOK
    <3>3. /\ spc' \in [Streams -> {"none", "select", "collect", "send"} \cup Measuring]
          /\ gone \cup ticked \subseteq {r \in Streams : spc'[r] # "none"}
      BY <1>1, <2>3 DEF TypeOK, Measuring
    <3> QED
      BY <1>1, <1>2, <1>3, <1>10, <3>1, <3>2, <3>3 DEF StoreTs, TypeOK
  <2>5. ASSUME alone PROVE Reading(lastEnergyUJ, lastEnergyTs)' /\ PowerIsDelta'
    <3>1. lastEnergyUJ' = {Counter(at[s])} /\ lastEnergyTs' = at[s]
      BY <1>5, <1>10, <2>1, <2>5 DEF StoreTs, AtMeter
    <3>2. Reading(lastEnergyUJ, lastEnergyTs)'
      BY <1>3, <2>1, <3>1 DEF Reading
    <3>3. ASSUME NEW p \in Watts(s)
          PROVE  p.from \in 1 .. p.to - 1 /\ p.uj = energy[p.to] - energy[p.from]
      <4>1. PICK q \in prev[s] : /\ p = [uj |-> Counter(at[s]) - q, from |-> from[s], to |-> at[s]]
                                 /\ from[s] < at[s] /\ q < Counter(at[s])
        BY DEF Watts
      <4>2. Reading(prev[s], from[s])
        BY <1>5, <1>10, <2>1, <2>5 DEF StoreTs, AtMeter
      <4>3. from[s] \in 1 .. now /\ q = Counter(from[s])
        BY <4>1, <4>2 DEF Reading
      <4>4. Counter(at[s]) - q = energy[at[s]] - energy[from[s]]
        BY <1>1, <2>1, <4>1, <4>3, CounterDelta DEF AgentInv
      <4> QED
        BY <2>1, <4>1, <4>3, <4>4
    <3>4. PowerIsDelta'
      BY <1>1, <1>2, <1>5, <1>10, <2>1, <2>5, <3>3 DEF StoreTs, PowerIsDelta, TypeOK
    <3> QED
      BY <3>2, <3>4
  <2>6. ASSUME alone, to = "energy" PROVE AtMeter(s)'
    BY <2>5, <2>6 DEF AtMeter
  <2>7. alone' = alone
    BY <1>10 DEF StoreTs
  <2> HIDE DEF to
  <2> QED
    BY <1>2, <1>5, <2>1, <2>3, <2>4, <2>5, <2>6, <2>7, OneMeasures DEF Measuring
<1> QED
  BY <1>6, <1>7, <1>8, <1>9, <1>10

\* The steps of a stream that leave the meter and the maps alone.
LEMMA SelectAgent ==
  ASSUME AgentInv, NEW s \in Streams,
         \/ Open(s) \/ Leave(s) \/ ContextDone(s) \/ Tick(s)
         \/ CollectWithoutCounter(s) \/ SendOk(s) \/ SendFails(s)
  PROVE  AgentInv'
<1> USE DEF Open, Leave, ContextDone, Tick, CollectWithoutCounter, SendOk, SendFails,
        Returned, streamVars, meterVars, maps
<1>1. UNCHANGED <<energy, proc, closed, lastEnergyUJ, lastEnergyTs, alone>>
  OBVIOUS
<1>2. now' = now /\ Power' = Power /\ \A t : Counter(t)' = Counter(t)
  BY <1>1 DEF now, Power, Counter
<1>3. TypeOK /\ now \in Nat \ {0}
  BY DEF AgentInv, TypeOK, now
<1>4. \/ spc' = spc
      \/ /\ spc[s] \notin Measuring
         /\ \E to \in {"none", "select", "collect", "send"} : spc' = [spc EXCEPT ![s] = to]
  <2>1. CASE Leave(s)
    BY <2>1
  <2>2. CASE ~Leave(s)
    BY <2>2 DEF Measuring
  <2> QED
    BY <2>1, <2>2
<1>5. spc' \in [Streams -> {"none", "select", "collect", "send"} \cup Measuring]
  BY <1>3, <1>4 DEF TypeOK
<1>6. \A r \in Streams : /\ spc'[r] \in Measuring <=> spc[r] \in Measuring
                         /\ spc[r] \in Measuring => spc'[r] = spc[r]
  BY <1>3, <1>4 DEF TypeOK, Measuring
<1>7. \A r \in Streams : spc[r] \in Measuring =>
        at'[r] = at[r] /\ prev'[r] = prev[r] /\ from'[r] = from[r]
  BY <1>3, <1>4 DEF TypeOK
<1>8. \A r \in Streams : power'[r] \subseteq power[r]
  BY <1>3 DEF TypeOK
<1>9. TypeOK'
  <2>1. /\ at' \in [Streams -> 0 .. now] /\ from' \in [Streams -> 0 .. now]
        /\ pass' \in [Streams -> 0 .. Passes]
        /\ prev' \in [Streams -> SUBSET Nat]
        /\ power' \in [Streams -> SUBSET Power]
    <3>1. CASE ContextDone(s) \/ SendFails(s)
      <4>1. /\ at' = [at EXCEPT ![s] = 0] /\ from' = [from EXCEPT ![s] = 0]
            /\ pass' = [pass EXCEPT ![s] = 0] /\ prev' = [prev EXCEPT ![s] = {}]
            /\ power' = [power EXCEPT ![s] = {}]
        BY <3>1
      <4>2. 0 \in 0 .. now /\ 0 \in 0 .. Passes
        BY <1>3, AgentStreamAssumption
      <4> HIDE DEF ContextDone, SendFails, Returned
      <4> QED
        BY <1>3, <4>1, <4>2 DEF TypeOK
    <3>2. CASE SendOk(s)
      BY <1>3, <3>2 DEF TypeOK
    <3>3. CASE Open(s) \/ Leave(s) \/ Tick(s) \/ CollectWithoutCounter(s)
      BY <1>3, <3>3 DEF TypeOK
    <3> QED
      BY <3>1, <3>2, <3>3
  <2>2. gone' \cup ticked' \subseteq {r \in Streams : spc'[r] # "none"}
    BY <1>3 DEF TypeOK
  <2>3. \A r \in Streams : spc'[r] \in Measuring => at'[r] # 0
    BY <1>3, <1>6, <1>7 DEF TypeOK
  <2> QED
    BY <1>1, <1>2, <1>3, <1>5, <2>1, <2>2, <2>3 DEF TypeOK
<1>10. EnergyInv'
  BY <1>1, <1>2 DEF AgentInv, EnergyInv
<1>11. MeterInv'
  <2> SUFFICES ASSUME alone PROVE MeterInv'
    BY <1>1 DEF MeterInv
  <2>1. \A r \in Streams : spc'[r] \in Measuring => AtMeter(r)'
    BY <1>1, <1>2, <1>6, <1>7 DEF AgentInv, MeterInv, AtMeter, Reading
  <2>2. PowerIsDelta'
    BY <1>1, <1>8 DEF AgentInv, MeterInv, PowerIsDelta
  <2> QED
    BY <1>1, <1>2, <1>6, <2>1, <2>2 DEF AgentInv, MeterInv, Reading
<1>12. CloseInv'
  <2>1. proc \notin {"down", "stopped"}
    BY DEF AgentInv, CloseInv
  <2> QED
    BY <1>1, <2>1 DEF AgentInv, CloseInv
<1> QED
  BY <1>9, <1>10, <1>11, <1>12 DEF AgentInv

LEMMA MainAgent ==
  ASSUME AgentInv, Main
  PROVE  AgentInv'
<1>1. CASE Start \/ Signal \/ Stopped \/ CloseCollectors
  <2> USE <1>1 DEF Start, Signal, Stopped, CloseCollectors
  <2>1. UNCHANGED <<energy, maps, spc, gone, streamVars, alone>>
    OBVIOUS
  <2>2. now' = now /\ Power' = Power /\ \A t : Counter(t)' = Counter(t)
    BY <2>1 DEF now, Power, Counter
  <2>3. TypeOK'
    BY <2>1, <2>2 DEF AgentInv, TypeOK, streamVars, meterVars, maps
  <2>4. EnergyInv' /\ MeterInv'
    BY <2>1, <2>2 DEF AgentInv, EnergyInv, MeterInv, AtMeter, Reading, PowerIsDelta,
                      streamVars, meterVars, maps
  <2>5. CloseInv'
    BY <2>1 DEF AgentInv, CloseInv, TypeOK
  <2> QED
    BY <2>3, <2>4, <2>5 DEF AgentInv
<1>2. CASE Ended
  <2> USE <1>2 DEF Ended
  <2>1. now' = now /\ now \in Nat
    BY DEF AgentInv, TypeOK, now
  <2>2. TypeOK'
    <3>1. /\ at' \in [Streams -> 0 .. now] /\ from' \in [Streams -> 0 .. now]
          /\ pass' \in [Streams -> 0 .. Passes]
          /\ prev' \in [Streams -> SUBSET Nat]
      BY <2>1, AgentStreamAssumption
    <3>3. power' \in [Streams -> SUBSET Power']
      OBVIOUS
    <3>2. \A s \in Streams : spc'[s] \notin Measuring
      BY DEF Measuring
    <3>4. /\ energy' \in Seq(Nat) /\ energy' # <<>>
          /\ gone' \cup ticked' \subseteq {s \in Streams : spc'[s] # "none"}
          /\ lastEnergyTs' \in 0 .. now'
      BY <2>1 DEF AgentInv, TypeOK
    <3>5. spc' \in [Streams -> {"none", "select", "collect", "send"} \cup Measuring]
      OBVIOUS
    <3> QED
      BY <2>1, <3>1, <3>2, <3>3, <3>4, <3>5 DEF TypeOK
  <2>3. EnergyInv'
    BY <2>1 DEF AgentInv, EnergyInv
  <2>4. MeterInv' /\ CloseInv'
    BY DEF MeterInv, CloseInv, Reading, Measuring, PowerIsDelta
  <2> QED
    BY <2>2, <2>3, <2>4 DEF AgentInv
<1> QED
  BY <1>1, <1>2 DEF Main, Exit, Crash, MapFault

LEMMA AgentInductive == AgentInv /\ [Next]_vars => AgentInv'
<1> SUFFICES ASSUME AgentInv, [Next]_vars PROVE AgentInv'
  OBVIOUS
<1>1. ASSUME NEW s \in Streams, Open(s) \/ Leave(s) \/ Stream(s) PROVE AgentInv'
  BY <1>1, SelectAgent, MeterAgent DEF Stream, Collect
<1>2. CASE UNCHANGED vars
  <2>1. now' = now /\ Power' = Power /\ \A t : Counter(t)' = Counter(t)
    BY <1>2 DEF vars, now, Power, Counter
  <2> QED
    BY <1>2, <2>1 DEF vars, streamVars, meterVars, maps, AgentInv, TypeOK, EnergyInv,
       MeterInv, CloseInv, AtMeter, Reading, PowerIsDelta
<1> QED
  BY <1>1, <1>2, TimeAgent, MainAgent DEF Next

\* The agent's variables keep their types; no more than one tick waits.
THEOREM TypeCorrect == Spec => []TypeOK
BY AgentInit, AgentInductive, PTL DEF Spec, AgentInv

\* The power that the agent reports from the energy counter is right as long
\* as one stream at a time reads it.
THEOREM PowerCorrect == Spec => []PowerIsDeltaAlone
<1>1. AgentInv => PowerIsDeltaAlone
  BY DEF AgentInv, MeterInv, PowerIsDeltaAlone
<1> QED
  BY <1>1, AgentInit, AgentInductive, PTL DEF Spec

\* No stream is open when the collectors are closed.
THEOREM ClosesAfterUse == Spec => []ClosedUnused
<1>1. AgentInv => ClosedUnused
  BY DEF AgentInv, CloseInv, ClosedUnused
<1> QED
  BY <1>1, AgentInit, AgentInductive, PTL DEF Spec
=============================================================================
