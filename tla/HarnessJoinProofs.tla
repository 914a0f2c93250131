--------------------------- MODULE HarnessJoinProofs ---------------------------
(***************************************************************************)
(* Proofs about HarnessJoin for every pair of timeouts, every bound on the  *)
(* time a send takes and any number of drops.                               *)
(***************************************************************************)
EXTENDS HarnessJoin, TLAPS

\* The errors list names the threads that gave up.
Erred == errors = {e \in Threads : mode[e] = "error"}

\* The handshake is at message k: its sender s has it still to send, or has
\* sent it and waits for the next; the receiver waits for it or gave up.
Turn(k, s) ==
  LET r == Other(s)
  IN /\ Sends(s, k) /\ queued[s] = 0
     /\ op[r] = k /\ mode[r] \in {"waiting", "error"}
     /\ \/ op[s] = k /\ mode[s] = "sending" /\ queued[r] = 0
        \/ /\ op[s] = k + 1
           /\ k = LastOp => mode[s] = "done"
           /\ k # LastOp => mode[s] \in {"waiting", "error"}
Over == \A e \in Threads : op[e] = LastOp + 1 /\ mode[e] = "done" /\ queued[e] = 0
Turns == Over \/ \E k \in 1..LastOp, s \in Threads : Turn(k, s)

\* Who waits for a message gives up later than the message can be late.
Awaited(e) ==
  LET o == Other(e)
  IN mode[e] = "waiting" /\ queued[e] = 0 =>
       \/ mode[o] = "sending" /\ timer[o] < timer[e]
       \/ mode[o] = "waiting" /\ queued[o] > 0 /\ timer[e] = ReceiveTimeout
Punctual == drops = 0 /\ MaxDelay < ReceiveTimeout => errors = {} /\ \A e \in Threads : Awaited(e)

\* The ticks since the current join began, and the most that n sends take.
Passed == JoinTimeout - wait
SendsTime(n) == n * MaxDelay
Fits == ReceiveTimeout + SendsTime(LastOp - 1) < JoinTimeout

\* While bob is joined, message n is sent and taken after n sends at most.
InTime(e) ==
  /\ mode[e] = "sending" => Passed + timer[e] <= SendsTime(op[e])
  /\ mode[e] = "waiting" => Passed + timer[e] <= SendsTime(op[e] - 1) + ReceiveTimeout
  /\ mode[e] = "waiting" /\ queued[e] > 0 => Passed <= SendsTime(op[e])

\* While alice is joined, bob has ended: she sends at most once more.
LastInTime ==
  /\ mode["alice"] = "sending" => Passed + timer["alice"] <= MaxDelay
  /\ mode["alice"] = "waiting" => Passed + timer["alice"] <= MaxDelay + ReceiveTimeout
  /\ mode["alice"] = "waiting" /\ queued["alice"] > 0 => Passed = 0
Clock ==
  Fits => /\ main = "bob" => \A e \in Threads : InTime(e)
          /\ main = "alice" => Ended("bob") /\ LastInTime
          /\ main = "returned" => seen = errors /\ \A e \in Threads : Ended(e)

\* Types, with what each timer is.
Timers == timer \in [Threads -> Nat]

JoinInv == JoinTypeOK /\ Timers /\ Erred /\ Turns /\ Punctual /\ Clock

-----------------------------------------------------------------------------
(* Arithmetic. *)

\* The two sides alternate.
LEMMA Alternate ==
  /\ \A e \in Threads : Other(e) \in Threads /\ Other(e) # e /\ Other(Other(e)) = e
  /\ \A e \in Threads : Threads = {e, Other(e)}
  /\ \A e \in Threads, n \in 1..LastOp :
       /\ Sends(Other(e), n) <=> ~Sends(e, n)
       /\ Sends(e, n + 1) <=> ~Sends(e, n)
  /\ ~Sends("bob", LastOp)
<1>1. \A e \in Threads : Other(e) \in Threads /\ Other(e) # e /\ Other(Other(e)) = e
  BY DEF Threads, Other
<1>2. \A e \in Threads : Threads = {e, Other(e)}
  BY DEF Threads, Other
<1>3. \A n \in 1..LastOp : (n + 1) % 2 = 1 <=> n % 2 # 1
  <2>1. \A n \in 1..LastOp : n = 1 \/ n = 2 \/ n = 3 \/ n = 4 \/ n = 5 \/ n = 6
    BY DEF LastOp
  <2> QED  BY <2>1
<1>4. \A e \in Threads, n \in 1..LastOp : Sends(Other(e), n) <=> ~Sends(e, n)
  BY DEF Sends, Threads, Other
<1>5. \A e \in Threads, n \in 1..LastOp : Sends(e, n + 1) <=> ~Sends(e, n)
  BY <1>3 DEF Sends
<1>6. ~Sends("bob", LastOp)
  BY DEF Sends, LastOp
<1> QED  BY <1>1, <1>2, <1>4, <1>5, <1>6

\* One send more takes at most MaxDelay more.
LEMMA SendsTimeStep ==
  /\ \A n \in 0..LastOp : /\ SendsTime(n) \in Nat
                          /\ SendsTime(n + 1) = SendsTime(n) + MaxDelay
  /\ \A n \in 0..LastOp - 1 : SendsTime(n) <= SendsTime(LastOp - 1)
  /\ SendsTime(0) = 0 /\ MaxDelay <= SendsTime(LastOp - 1)
<1>1. MaxDelay \in Nat
  BY TimesAssumption
<1>2. \A n \in 0..LastOp : n = 0 \/ n = 1 \/ n = 2 \/ n = 3 \/ n = 4 \/ n = 5 \/ n = 6
  BY DEF LastOp
<1> QED  BY <1>1, <1>2 DEF SendsTime, LastOp

-----------------------------------------------------------------------------
(* What the steps of a thread do. *)

\* Where a thread is whose send ends, and where it is afterwards.
LEMMA PutTurn ==
  ASSUME JoinInv, NEW e \in Threads, Put(e)
  PROVE  LET o == Other(e)
         IN /\ op[e] \in 1..LastOp /\ op[o] = op[e] /\ Sends(e, op[e])
            /\ mode[e] = "sending" /\ timer[e] = 0 /\ queued[e] = 0
            /\ mode[o] \in {"waiting", "error"} /\ queued[o] = 0
            /\ op' = [op EXCEPT ![e] = @ + 1]
            /\ \/ op[e] = LastOp /\ mode' = [mode EXCEPT ![e] = "done"]
                  /\ timer' = [timer EXCEPT ![e] = 0]
               \/ op[e] # LastOp /\ mode' = [mode EXCEPT ![e] = "waiting"]
                  /\ timer' = [timer EXCEPT ![e] = ReceiveTimeout]
            /\ \/ queued' = [queued EXCEPT ![o] = 1] /\ drops' = drops
               \/ queued' = queued /\ drops < MaxDrops /\ drops' = drops + 1
            /\ UNCHANGED <<main, wait, errors, seen>>
<1>1. mode[e] = "sending" /\ timer[e] = 0 /\ Proceed(e)
  BY DEF Put
<1>2. PICK k \in 1..LastOp, s \in Threads : Turn(k, s)
  BY <1>1 DEF JoinInv, Turns, Over
<1>3. e = s
  BY <1>1, <1>2, Alternate DEF Turn
<1>4. /\ op[e] = k /\ op[Other(e)] = k /\ Sends(e, k) /\ queued[e] = 0
      /\ mode[Other(e)] \in {"waiting", "error"} /\ queued[Other(e)] = 0
  BY <1>1, <1>2, <1>3 DEF Turn, LastOp
<1>5. ~Sends(e, k + 1)
  BY <1>2, <1>4, Alternate
<1>6. \/ queued' = [queued EXCEPT ![Other(e)] = 1] /\ drops' = drops
      \/ queued' = queued /\ drops < MaxDrops /\ drops' = drops + 1
  <2>1. queued \in [Threads -> 0..1]
    BY DEF JoinInv, JoinTypeOK
  <2>2. [queued EXCEPT ![Other(e)] = @ + 1] = [queued EXCEPT ![Other(e)] = 1]
    BY <1>4, <2>1, Alternate
  <2> QED  BY <2>2 DEF Put
<1> QED  BY <1>1, <1>4, <1>5, <1>6 DEF Proceed, Put

\* Where a thread is that takes a message, and where it is afterwards.
LEMMA TakeTurn ==
  ASSUME JoinInv, NEW e \in Threads, Take(e)
  PROVE  LET o == Other(e)
         IN /\ op[e] \in 1..LastOp /\ op[o] = op[e] + 1 /\ Sends(o, op[e])
            /\ mode[e] = "waiting" /\ queued[e] = 1 /\ queued[o] = 0
            /\ op[e] = LastOp => mode[o] = "done"
            /\ op[e] # LastOp => mode[o] \in {"waiting", "error"}
            /\ op' = [op EXCEPT ![e] = @ + 1] /\ queued' = [queued EXCEPT ![e] = 0]
            /\ \/ op[e] = LastOp /\ mode' = [mode EXCEPT ![e] = "done"]
                  /\ timer' = [timer EXCEPT ![e] = 0]
               \/ op[e] # LastOp /\ mode' = [mode EXCEPT ![e] = "sending"]
                  /\ \E d \in 0..MaxDelay : timer' = [timer EXCEPT ![e] = d]
            /\ UNCHANGED <<drops, main, wait, errors, seen>>
<1>1. queued \in [Threads -> 0..1]
  BY DEF JoinInv, JoinTypeOK
<1>2. mode[e] = "waiting" /\ queued[e] > 0 /\ Proceed(e)
  BY DEF Take
<1>3. queued[e] = 1 /\ queued' = [queued EXCEPT ![e] = 0]
  <2>1. queued[e] = 1
    BY <1>1, <1>2
  <2>2. [queued EXCEPT ![e] = @ - 1] = [queued EXCEPT ![e] = 0]
    BY <2>1
  <2> QED  BY <2>1, <2>2 DEF Take
<1>4. PICK k \in 1..LastOp, s \in Threads : Turn(k, s)
  BY <1>2 DEF JoinInv, Turns, Over
<1>5. s = Other(e) /\ e = Other(s)
  BY <1>3, <1>4, Alternate DEF Turn
<1>6. /\ op[e] = k /\ op[s] = k + 1 /\ Sends(s, k) /\ queued[s] = 0
      /\ k = LastOp => mode[s] = "done"
      /\ k # LastOp => mode[s] \in {"waiting", "error"}
  BY <1>3, <1>4, <1>5 DEF Turn
<1>7. Sends(e, k + 1)
  BY <1>4, <1>5, <1>6, Alternate
<1> QED  BY <1>2, <1>3, <1>5, <1>6, <1>7 DEF Proceed, Take

\* A thread that is sending or waiting is not past its last operation.
LEMMA AtWork ==
  ASSUME JoinTypeOK, Turns, NEW e \in Threads, mode[e] \in {"sending", "waiting"}
  PROVE  op[e] \in 1..LastOp /\ (mode[e] = "sending" => Sends(e, op[e]))
<1>1. PICK k \in 1..LastOp, s \in Threads : Turn(k, s)
  BY DEF Turns, Over
<1>2. e = s \/ e = Other(s)
  BY Alternate
<1> QED  BY <1>1, <1>2 DEF Turn, LastOp

-----------------------------------------------------------------------------
(* Every step keeps the types and whose turn it is. *)

\* Every step keeps the types, and no timer goes below zero.
LEMMA NextTypes ==
  ASSUME JoinInv, [Next]_vars
  PROVE  JoinTypeOK' /\ Timers'
<1> USE TimesAssumption
<1>1. /\ op \in [Threads -> 1..LastOp + 1]
      /\ mode \in [Threads -> {"sending", "waiting", "done", "error"}]
      /\ timer \in [Threads -> Nat] /\ queued \in [Threads -> 0..1] /\ drops \in 0..MaxDrops
      /\ main \in Threads \cup {"returned"} /\ wait \in 0..JoinTimeout
      /\ errors \subseteq Threads /\ seen \subseteq errors
      /\ \A e \in Threads :
           timer[e] \in 0..(IF mode[e] = "sending" THEN MaxDelay ELSE ReceiveTimeout)
  BY DEF JoinInv, JoinTypeOK, Timers
<1>2. ASSUME NEW e \in Threads, Put(e)
      PROVE  JoinTypeOK' /\ Timers'
  <2>1. op[e] + 1 \in 1..LastOp + 1
    BY <1>2, PutTurn DEF LastOp
  <2>2. /\ op' \in [Threads -> 1..LastOp + 1] /\ drops' \in 0..MaxDrops
        /\ queued' \in [Threads -> 0..1]
    BY <1>1, <1>2, <2>1, PutTurn, Alternate
  <2>3. /\ mode' \in [Threads -> {"sending", "waiting", "done", "error"}]
        /\ timer' \in [Threads -> Nat]
        /\ \A d \in Threads :
             timer'[d] \in 0..(IF mode'[d] = "sending" THEN MaxDelay ELSE ReceiveTimeout)
    BY <1>1, <1>2, PutTurn
  <2> QED  BY <1>1, <1>2, <2>2, <2>3, PutTurn DEF JoinTypeOK, Timers
<1>3. ASSUME NEW e \in Threads, Take(e)
      PROVE  JoinTypeOK' /\ Timers'
  <2>1. op[e] + 1 \in 1..LastOp + 1
    BY <1>3, TakeTurn DEF LastOp
  <2>2. op' \in [Threads -> 1..LastOp + 1] /\ queued' \in [Threads -> 0..1]
    BY <1>1, <1>3, <2>1, TakeTurn
  <2>3. /\ mode' \in [Threads -> {"sending", "waiting", "done", "error"}]
        /\ timer' \in [Threads -> Nat]
        /\ \A d \in Threads :
             timer'[d] \in 0..(IF mode'[d] = "sending" THEN MaxDelay ELSE ReceiveTimeout)
    BY <1>1, <1>3, TakeTurn
  <2> QED  BY <1>1, <1>3, <2>2, <2>3, TakeTurn DEF JoinTypeOK, Timers
<1>4. ASSUME NEW e \in Threads, TimeOut(e)
      PROVE  JoinTypeOK' /\ Timers'
  BY <1>1, <1>4 DEF TimeOut, JoinTypeOK, Timers
<1>5. CASE Join
  <2>1. main' \in Threads \cup {"returned"}
    BY <1>5 DEF Join, Threads
  <2>2. wait' \in 0..JoinTimeout
    BY <1>5 DEF Join
  <2>3. seen' \subseteq errors
    BY <1>1, <1>5 DEF Join
  <2> QED  BY <1>1, <1>5, <2>1, <2>2, <2>3 DEF Join, JoinTypeOK, Timers
<1>6. CASE Tick
  <2>1. \A n \in Nat : Less(n) \in 0..n
    BY DEF Less
  <2> QED  BY <1>1, <1>6, <2>1 DEF Tick, JoinTypeOK, Timers
<1>7. CASE UNCHANGED vars
  BY <1>1, <1>7 DEF vars, JoinTypeOK, Timers
<1> QED  BY <1>2, <1>3, <1>4, <1>5, <1>6, <1>7 DEF Next

\* Every step keeps whose turn it is and what an error means.
LEMMA NextTurns ==
  ASSUME JoinInv, [Next]_vars
  PROVE  Turns' /\ Erred'
<1>1. /\ op \in [Threads -> 1..LastOp + 1]
      /\ mode \in [Threads -> {"sending", "waiting", "done", "error"}]
      /\ queued \in [Threads -> 0..1] /\ Turns /\ errors = {e \in Threads : mode[e] = "error"}
  BY DEF JoinInv, JoinTypeOK, Erred
<1>2. ASSUME NEW e \in Threads, Put(e)
      PROVE  Turns' /\ Erred'
  <2>1. PICK k \in 1..LastOp : k = op[e]
    BY <1>2, PutTurn
  <2>2. Turn(k, e)'
    BY <1>1, <1>2, <2>1, PutTurn, Alternate DEF Turn
  <2> QED  BY <1>1, <1>2, <2>2, PutTurn DEF Turns, Erred
<1>3. ASSUME NEW e \in Threads, Take(e)
      PROVE  Turns' /\ Erred'
  <2>1. CASE op[e] = LastOp
    <3>1. Over'
      BY <1>1, <1>3, <2>1, TakeTurn, Alternate DEF Over
    <3> QED  BY <1>1, <1>3, <3>1, TakeTurn DEF Turns, Erred
  <2>2. CASE op[e] # LastOp
    <3>1. PICK k \in 1..LastOp : k = op[e] + 1 /\ Sends(e, k)
      BY <1>3, <2>2, TakeTurn, Alternate DEF LastOp
    <3>2. Turn(k, e)'
      BY <1>1, <1>3, <2>2, <3>1, TakeTurn, Alternate DEF Turn
    <3> QED  BY <1>1, <1>3, <3>1, <3>2, TakeTurn DEF Turns, Erred
  <2> QED  BY <2>1, <2>2
<1>4. ASSUME NEW e \in Threads, TimeOut(e)
      PROVE  Turns' /\ Erred'
  <2>1. PICK k \in 1..LastOp, s \in Threads : Turn(k, s)
    BY <1>1, <1>4 DEF TimeOut, Turns, Over
  <2>2. Turn(k, s)'
    BY <1>1, <1>4, <2>1, Alternate DEF TimeOut, Turn
  <2> QED  BY <1>1, <1>4, <2>2 DEF TimeOut, Turns, Erred
<1>5. CASE UNCHANGED <<op, mode, queued, errors>>
  BY <1>1, <1>5 DEF Turns, Over, Turn, Erred
<1> QED  BY <1>2, <1>3, <1>4, <1>5 DEF Next, Join, Tick, vars

-----------------------------------------------------------------------------
(* The clock. *)

\* A tick counts down the timers of all who wait or send, none to below 0,
\* while nobody has a message to take.
LEMMA TickTurn ==
  ASSUME JoinInv, Tick
  PROVE  /\ \A e \in Threads : ~Ended(e) =>
              timer[e] > 0 /\ timer'[e] = timer[e] - 1 /\ (mode[e] = "waiting" => queued[e] = 0)
         /\ main \in Threads => wait > 0 /\ wait' = wait - 1
         /\ UNCHANGED <<op, mode, queued, drops, main, errors, seen>>
<1>1. timer \in [Threads -> Nat] /\ wait \in Nat
  BY TimesAssumption DEF JoinInv, JoinTypeOK, Timers
<1>2. \A n \in Nat : n > 0 => Less(n) = n - 1
  BY DEF Less
<1> QED  BY <1>1, <1>2 DEF Tick, Idle

\* Without a drop, and with sends faster than the timeout, nobody gives up.
LEMMA NextPunctual ==
  ASSUME JoinInv, [Next]_vars
  PROVE  Punctual'
<1> SUFFICES ASSUME drops' = 0, MaxDelay < ReceiveTimeout
             PROVE  errors' = {} /\ \A e \in Threads : Awaited(e)'
  BY DEF Punctual
<1> USE TimesAssumption
<1>1. /\ op \in [Threads -> 1..LastOp + 1]
      /\ mode \in [Threads -> {"sending", "waiting", "done", "error"}]
      /\ timer \in [Threads -> Nat] /\ queued \in [Threads -> 0..1] /\ drops \in Nat
      /\ errors = {e \in Threads : mode[e] = "error"}
      /\ drops = 0 => errors = {} /\ \A e \in Threads : Awaited(e)
  BY DEF JoinInv, JoinTypeOK, Timers, Erred, Punctual
<1>2. \A d, e \in Threads : d = e \/ d = Other(e)
  BY Alternate
<1>3. ASSUME NEW e \in Threads, Put(e)
      PROVE  errors' = {} /\ \A d \in Threads : Awaited(d)'
  <2>1. /\ drops = 0 /\ errors' = {} /\ queued' = [queued EXCEPT ![Other(e)] = 1]
        /\ mode[Other(e)] = "waiting"
    BY <1>1, <1>3, PutTurn, Alternate
  <2>2. Awaited(e)' /\ Awaited(Other(e))'
    BY <1>1, <1>3, <2>1, PutTurn, Alternate DEF Awaited
  <2> QED  BY <1>2, <2>1, <2>2
<1>4. ASSUME NEW e \in Threads, Take(e)
      PROVE  errors' = {} /\ \A d \in Threads : Awaited(d)'
  <2>1. drops = 0 /\ errors' = {} /\ Awaited(Other(e)) /\ Other(e) \in Threads
    BY <1>1, <1>4, TakeTurn, Alternate
  <2>2. Awaited(e)'
    BY <1>1, <1>4, TakeTurn DEF Awaited
  <2>3. Awaited(Other(e))'
    BY <1>1, <1>4, <2>1, TakeTurn, Alternate DEF Awaited
  <2> QED  BY <1>2, <2>1, <2>2, <2>3
<1>5. ASSUME NEW e \in Threads, TimeOut(e)
      PROVE  FALSE
  <2>1. mode[e] = "waiting" /\ queued[e] = 0 /\ timer[e] = 0 /\ Awaited(e)
    BY <1>1, <1>5 DEF TimeOut
  <2> QED  BY <1>1, <2>1, Alternate DEF Awaited
<1>6. CASE Join \/ UNCHANGED vars
  BY <1>1, <1>6 DEF Join, vars, Awaited
<1>7. CASE Tick
  <2>1. ASSUME NEW e \in Threads
        PROVE  Awaited(e)'
    <3>1. Awaited(e) /\ Other(e) \in Threads
      BY <1>1, <1>7, TickTurn, Alternate
    <3>2. ~Ended(e) => timer'[e] = timer[e] - 1
      BY <1>7, TickTurn
    <3>3. LET o == Other(e)
          IN ~Ended(o) => timer'[o] = timer[o] - 1 /\ (mode[o] = "waiting" => queued[o] = 0)
      BY <1>7, <3>1, TickTurn
    <3> QED  BY <1>1, <1>7, <3>1, <3>2, <3>3, TickTurn DEF Awaited, Ended
  <2> QED  BY <1>1, <1>7, <2>1, TickTurn
<1> QED  BY <1>3, <1>4, <1>5, <1>6, <1>7 DEF Next

\* A thread that is joined has ended when the join gives up at the latest.
LEMMA JoinedEnded ==
  ASSUME JoinInv, Fits, main \in Threads, Ended(main) \/ wait = 0
  PROVE  Ended(main)
<1> USE TimesAssumption
<1>1. /\ JoinTypeOK /\ Turns /\ timer \in [Threads -> Nat]
      /\ mode \in [Threads -> {"sending", "waiting", "done", "error"}]
      /\ main = "bob" => InTime("bob")
      /\ main = "alice" => LastInTime
  BY DEF JoinInv, JoinTypeOK, Timers, Clock, Threads
<1>2. wait = 0 => Passed = JoinTimeout
  BY DEF Passed
<1>3. CASE main = "bob" /\ wait = 0 /\ ~Ended("bob")
  <2>1. mode["bob"] \in {"sending", "waiting"} /\ "bob" \in Threads
    BY <1>1, <1>3 DEF Ended, Threads
  <2>2. /\ op["bob"] \in 0..LastOp /\ op["bob"] - 1 \in 0..LastOp - 1
        /\ mode["bob"] = "sending" => op["bob"] \in 0..LastOp - 1
    BY <1>1, <2>1, AtWork, Alternate DEF LastOp
  <2>3. /\ SendsTime(op["bob"] - 1) <= SendsTime(LastOp - 1)
        /\ SendsTime(op["bob"] - 1) \in Nat /\ SendsTime(op["bob"]) \in Nat
        /\ SendsTime(LastOp - 1) \in Nat
        /\ mode["bob"] = "sending" => SendsTime(op["bob"]) <= SendsTime(LastOp - 1)
    BY <2>2, SendsTimeStep DEF LastOp
  <2> QED  BY <1>1, <1>2, <1>3, <2>1, <2>3 DEF InTime, Fits
<1>4. CASE main = "alice" /\ wait = 0 /\ ~Ended("alice")
  <2>1. mode["alice"] \in {"sending", "waiting"} /\ "alice" \in Threads
    BY <1>1, <1>4 DEF Ended, Threads
  <2>2. MaxDelay <= SendsTime(LastOp - 1) /\ SendsTime(LastOp - 1) \in Nat
    BY SendsTimeStep DEF LastOp
  <2> QED  BY <1>1, <1>2, <1>4, <2>1, <2>2 DEF LastInTime, Fits
<1> QED  BY <1>3, <1>4 DEF Threads

\* Every step keeps to the time the joins allow.
LEMMA NextClock ==
  ASSUME JoinInv, [Next]_vars
  PROVE  Clock'
<1> SUFFICES ASSUME Fits
             PROVE  /\ main' = "bob" => \A e \in Threads : InTime(e)'
                    /\ main' = "alice" => Ended("bob")' /\ LastInTime'
                    /\ main' = "returned" => seen' = errors' /\ \A e \in Threads : Ended(e)'
  BY DEF Clock, Fits, SendsTime
<1> USE TimesAssumption
<1>1. /\ op \in [Threads -> 1..LastOp + 1]
      /\ mode \in [Threads -> {"sending", "waiting", "done", "error"}]
      /\ timer \in [Threads -> Nat] /\ queued \in [Threads -> 0..1]
      /\ \A e \in Threads : mode[e] = "sending" => timer[e] <= MaxDelay
      /\ \A e \in Threads : mode[e] = "waiting" => timer[e] <= ReceiveTimeout
      /\ wait \in 0..JoinTimeout
  BY DEF JoinInv, JoinTypeOK, Timers
<1>2. /\ main = "bob" => \A e \in Threads : InTime(e)
      /\ main = "alice" => Ended("bob") /\ LastInTime
      /\ main = "returned" => seen = errors /\ \A e \in Threads : Ended(e)
  BY DEF JoinInv, Clock
<1>3. "bob" \in Threads /\ "alice" \in Threads /\ main \in Threads \cup {"returned"}
  BY DEF Threads, JoinInv, JoinTypeOK
<1>4. \A d, e \in Threads : d = e \/ d = Other(e)
  BY Alternate
<1>5. Other("alice") = "bob" /\ Other("bob") = "alice"
  BY DEF Other
<1>6. ASSUME NEW e \in Threads, Put(e)
      PROVE  Clock'
  <2>1. op[e] \in 0..LastOp /\ op'[e] = op[e] + 1 /\ op'[e] - 1 = op[e]
    BY <1>1, <1>6, PutTurn
  <2>2. Passed' = Passed /\ main' = main /\ seen' = seen /\ errors' = errors /\ Passed \in Nat
    BY <1>1, <1>6, PutTurn DEF Passed
  <2>3. ASSUME main = "bob"
        PROVE  \A d \in Threads : InTime(d)'
    <3>1. InTime(e) /\ InTime(Other(e)) /\ SendsTime(op[e]) \in Nat
      BY <1>2, <2>1, <2>3, Alternate, SendsTimeStep
    <3>2. Passed <= SendsTime(op[e])
      BY <2>2, <3>1, <1>6, PutTurn DEF InTime
    <3>3. InTime(e)'
      <4>1. mode'[e] \in {"done", "waiting"} /\ queued'[e] = 0
        BY <1>1, <1>6, PutTurn, Alternate
      <4>2. mode'[e] = "waiting" => timer'[e] = ReceiveTimeout
        BY <1>1, <1>6, PutTurn
      <4>3. SendsTime(op'[e] - 1) = SendsTime(op[e])
        BY <2>1
      <4> QED  BY <2>2, <3>1, <3>2, <4>1, <4>2, <4>3 DEF InTime
    <3>4. InTime(Other(e))'
      BY <1>1, <1>6, <2>1, <2>2, <3>1, <3>2, PutTurn, Alternate DEF InTime
    <3> QED  BY <1>4, <3>3, <3>4
  <2>4. ASSUME main = "alice"
        PROVE  Ended("bob")' /\ LastInTime'
    <3>1. Ended("bob") /\ LastInTime /\ e = "alice"
      BY <1>2, <1>3, <1>6, <2>4, PutTurn DEF Ended, Threads
    <3>2. Passed <= MaxDelay
      BY <1>6, <2>2, <3>1, PutTurn DEF LastInTime
    <3>3. /\ mode'["bob"] = mode["bob"] /\ mode'["alice"] \in {"done", "waiting"}
          /\ queued'["alice"] = 0
          /\ mode'["alice"] = "waiting" => timer'["alice"] = ReceiveTimeout
      BY <1>1, <1>3, <1>5, <1>6, <3>1, PutTurn
    <3> QED  BY <2>2, <3>1, <3>2, <3>3 DEF Ended, LastInTime
  <2>5. main # "returned"
    BY <1>2, <1>6, PutTurn DEF Ended
  <2> QED  BY <2>2, <2>3, <2>4, <2>5 DEF Clock
<1>7. ASSUME NEW e \in Threads, Take(e)
      PROVE  Clock'
  <2>1. op[e] \in 0..LastOp /\ op'[e] = op[e] + 1
    BY <1>1, <1>7, TakeTurn
  <2>2. Passed' = Passed /\ main' = main /\ seen' = seen /\ errors' = errors
    BY <1>7, TakeTurn DEF Passed
  <2>3. ASSUME main = "bob"
        PROVE  \A d \in Threads : InTime(d)'
    <3>1. InTime(e) /\ InTime(Other(e)) /\ SendsTime(op[e]) \in Nat
          /\ SendsTime(op[e] + 1) = SendsTime(op[e]) + MaxDelay
      BY <1>2, <2>1, <2>3, Alternate, SendsTimeStep
    <3>2. Passed <= SendsTime(op[e])
      BY <3>1, <1>7, TakeTurn DEF InTime
    <3>3. InTime(e)'
      <4>1. Passed \in Nat
        BY <1>1 DEF Passed
      <4>2. mode'[e] = "sending" => timer'[e] \in 0..MaxDelay
        BY <1>1, <1>7, TakeTurn
      <4>3. mode'[e] \in {"done", "sending"}
        BY <1>1, <1>7, TakeTurn
      <4> QED  BY <2>1, <2>2, <3>1, <3>2, <4>1, <4>2, <4>3 DEF InTime
    <3>4. InTime(Other(e))'
      BY <1>1, <1>7, <2>2, <3>1, TakeTurn, Alternate DEF InTime
    <3> QED  BY <1>4, <3>3, <3>4
  <2>4. ASSUME main = "alice"
        PROVE  Ended("bob")' /\ LastInTime'
    <3>1. Ended("bob") /\ LastInTime /\ e = "alice"
      BY <1>2, <1>3, <1>7, <2>4, TakeTurn DEF Ended, Threads
    <3>2. Passed = 0
      BY <1>7, <3>1, TakeTurn DEF LastInTime
    <3>3. mode'[e] = "sending" => timer'[e] \in 0..MaxDelay
      BY <1>1, <1>7, TakeTurn
    <3>4. mode'[e] \in {"done", "sending"} /\ mode'["bob"] = mode["bob"]
      BY <1>1, <1>3, <1>7, <3>1, TakeTurn
    <3> QED  BY <2>2, <3>1, <3>2, <3>3, <3>4 DEF Ended, LastInTime
  <2>5. main # "returned"
    BY <1>2, <1>7, TakeTurn DEF Ended
  <2> QED  BY <2>2, <2>3, <2>4, <2>5 DEF Clock
<1>8. ASSUME NEW e \in Threads, TimeOut(e)
      PROVE  Clock'
  <2>1. /\ mode' = [mode EXCEPT ![e] = "error"] /\ mode[e] = "waiting"
        /\ UNCHANGED <<op, timer, queued, main, wait, seen>>
    BY <1>8 DEF TimeOut
  <2>2. main # "returned"
    BY <1>2, <2>1 DEF Ended
  <2>3. main = "bob" => \A d \in Threads : InTime(d)'
    BY <1>1, <1>2, <2>1 DEF InTime, Passed
  <2>4. main = "alice" => Ended("bob")' /\ LastInTime'
    BY <1>1, <1>2, <1>3, <2>1 DEF Ended, LastInTime, Passed
  <2> QED  BY <2>1, <2>2, <2>3, <2>4 DEF Clock
<1>9. CASE Join
  <2>1. main \in Threads /\ Ended(main) /\ UNCHANGED <<op, mode, timer, queued, errors>>
    BY <1>9, JoinedEnded DEF Join
  <2>2. CASE main = "bob" /\ main' = "alice" /\ wait' = JoinTimeout
    <3>1. Passed' = 0
      BY <2>2 DEF Passed
    <3> QED  BY <1>1, <1>3, <2>1, <2>2, <3>1 DEF Ended, LastInTime
  <2>3. CASE main = "alice" /\ main' = "returned" /\ seen' = errors
    BY <1>2, <2>1, <2>3 DEF Ended, Threads
  <2> QED  BY <1>9, <2>2, <2>3 DEF Join
<1>10. CASE Tick
  <2>1. main \in Threads => Passed' = Passed + 1 /\ Passed \in Nat
    BY <1>1, <1>10, TickTurn DEF Passed
  <2>2. main = "bob" => \A d \in Threads : InTime(d)'
    <3> SUFFICES ASSUME main = "bob", NEW d \in Threads
                 PROVE  InTime(d)'
      OBVIOUS
    <3>1. InTime(d) /\ UNCHANGED <<op, mode, queued>> /\ Passed' = Passed + 1 /\ Passed \in Nat
      BY <1>2, <1>3, <1>10, <2>1, TickTurn
    <3>2. ~Ended(d) => /\ timer[d] \in Nat /\ timer'[d] = timer[d] - 1
                       /\ mode[d] = "waiting" => ~(queued[d] > 0)
      BY <1>1, <1>10, TickTurn
    <3> QED  BY <3>1, <3>2 DEF InTime, Ended
  <2>3. main = "alice" => Ended("bob")' /\ LastInTime'
    <3> SUFFICES ASSUME main = "alice"
                 PROVE  Ended("bob")' /\ LastInTime'
      OBVIOUS
    <3>1. /\ Ended("bob") /\ LastInTime /\ UNCHANGED <<mode, queued>>
          /\ Passed' = Passed + 1 /\ Passed \in Nat
      BY <1>2, <1>3, <1>10, <2>1, TickTurn
    <3>2. ~Ended("alice") => /\ timer["alice"] \in Nat /\ timer'["alice"] = timer["alice"] - 1
                             /\ mode["alice"] = "waiting" => ~(queued["alice"] > 0)
      BY <1>1, <1>3, <1>10, TickTurn
    <3> QED  BY <3>1, <3>2 DEF LastInTime, Ended
  <2> QED  BY <1>2, <1>10, <2>2, <2>3, TickTurn DEF Ended
<1>11. CASE UNCHANGED vars
  BY <1>2, <1>11 DEF vars, InTime, LastInTime, Ended, Passed
<1> QED  BY <1>6, <1>7, <1>8, <1>9, <1>10, <1>11 DEF Next, Clock, Fits, SendsTime

-----------------------------------------------------------------------------
(* The theorems. *)

\* The invariant holds when the harness starts its threads.
LEMMA InitJoin ==
  ASSUME Init
  PROVE  JoinInv
<1> USE TimesAssumption
<1>1. Threads = {"bob", "alice"} /\ Other("bob") = "alice" /\ Other("alice") = "bob"
  BY DEF Threads, Other
<1>2. /\ mode["bob"] = "sending" /\ mode["alice"] = "waiting"
      /\ mode \in [Threads -> {"sending", "waiting", "done", "error"}]
  BY <1>1 DEF Init
<1>3. /\ timer \in [Threads -> Nat] /\ timer["bob"] \in 0..MaxDelay
      /\ timer["alice"] = ReceiveTimeout
  BY <1>1 DEF Init
<1>4. JoinTypeOK
  BY <1>1, <1>2, <1>3 DEF Init, JoinTypeOK, LastOp
<1>5. Turn(1, "bob")
  BY <1>1, <1>2 DEF Init, Turn, Sends, LastOp
<1>6. Turns
  BY <1>1, <1>5 DEF Turns, LastOp
<1>7. Erred /\ Punctual
  BY <1>1, <1>2, <1>3 DEF Init, Erred, Punctual, Awaited
<1>8. Clock
  <2>1. SendsTime(1) = MaxDelay /\ SendsTime(0) = 0
    BY DEF SendsTime
  <2> QED  BY <1>1, <1>2, <1>3, <2>1 DEF Init, Clock, InTime, Passed
<1> QED  BY <1>3, <1>4, <1>6, <1>7, <1>8 DEF JoinInv, Timers

\* The invariant holds of every handshake, whatever the timeouts are.
THEOREM JoinInvariance == Spec => []JoinInv
<1>1. Init => JoinInv
  BY InitJoin
<1>2. JoinInv /\ [Next]_vars => JoinInv'
  BY NextTypes, NextTurns, NextPunctual, NextClock DEF JoinInv
<1> QED  BY <1>1, <1>2, PTL DEF Spec

\* Types, and that a queue never holds more than one message
\* (_harness.py 85-120).
THEOREM JoinTypeCorrect == Spec => []JoinTypeOK
<1>1. JoinInv => JoinTypeOK
  BY DEF JoinInv
<1> QED  BY <1>1, JoinInvariance, PTL

\* If a receive and five sends fit into a join, both threads have ended and
\* the errors list is complete when it is returned, for every choice of the
\* timeouts and whatever is dropped (_harness.py 123-138).
THEOREM JoinsOutlastAll == Spec => []JoinsOutlast
<1>1. JoinInv => JoinsOutlast
  BY DEF JoinInv, Clock, Fits, SendsTime, JoinsOutlast
<1> QED  BY <1>1, JoinInvariance, PTL

\* Without a drop, and with sends faster than the timeout, no receive gives
\* up, for every choice of the timeouts (_harness.py 85-120).
THEOREM NoSpuriousTimeout == Spec => []ErrorsExplained
<1>1. JoinInv => ErrorsExplained
  BY DEF JoinInv, Punctual, ErrorsExplained
<1> QED  BY <1>1, JoinInvariance, PTL
=============================================================================
