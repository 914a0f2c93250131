------------------------- MODULE NetworkSimulatorProofs -------------------------
(***************************************************************************)
(* Proofs about NetworkSimulator for every set of endpoints, every set of   *)
(* hooks and every bound.                                                   *)
(***************************************************************************)
EXTENDS NetworkSimulator, SequenceTheorems, FiniteSetTheorems, TLAPS

\* Types.
Places == {"idle", "checked", "process", "capture", "hooks", "put"}
Fates  == {"delivered", "dropped", "drop_next", "raised", "hook_raised"}
Types ==
  /\ attached \in BOOLEAN /\ calls \in 0..MaxCalls /\ done \in BOOLEAN
  /\ remaining \in 0..DropNext
  /\ hooks \in Seq(Hooks) /\ retired \in SUBSET Hooks
  /\ captured \in Seq(MessageType) /\ ever \in Seq(MessageType)
  /\ queue \in [Endpoints -> Seq(MessageType)] /\ received \in [Endpoints -> Seq(MessageType)]
  /\ at \in [Endpoints -> Places] /\ current \in [Endpoints -> MessageType \cup {NoMessage}]
  /\ pending \in [Endpoints -> Seq(Hooks)] /\ fate \in [Endpoints -> Seq(Fates)]
  /\ whole \in [Endpoints -> SUBSET Hooks] /\ touched \in [Endpoints -> SUBSET Hooks]

\* The number of the send that e is in, or does next.
This(e) == Len(fate[e]) + 1

\* The message that a send carries is its own, changed at most by a modify
\* hook; only a send that is among the hooks has hooks to run.
SendOK(e) ==
  /\ at[e] = "idle" => Len(fate[e]) <= MaxSends[e]
  /\ at[e] # "idle" => Len(fate[e]) < MaxSends[e]
  /\ at[e] \in {"checked", "process", "capture", "put"} => current[e] = Message(e, This(e))
  /\ at[e] = "hooks" =>
       /\ current[e] \in MessageType /\ current[e].from = e /\ current[e].seq = This(e)
       /\ current[e].via = "send"
       /\ current[e].altered => "modify" \in touched[e]
  /\ at[e] \notin {"capture", "hooks"} => pending[e] = <<>>

\* A hook is registered once, and a send has what it found registered.
HooksOK ==
  /\ IsInjective(hooks) /\ ToSet(hooks) \cap retired = {}
  /\ \A e \in Endpoints : /\ IsInjective(pending[e])
                          /\ ToSet(pending[e]) \subseteq ToSet(hooks) \cup retired

\* What a hook that was registered during the whole send has done, once it
\* is not to be run any more.
Applied(e, h) ==
  \/ h = "duplicate"
  \/ h = "modify" /\ current[e].altered
  \/ h = "drop_next" /\ remaining = 0
WindowOK(e) ==
  /\ ToSet(pending[e]) \subseteq touched[e]
  /\ at[e] # "idle" => whole[e] \subseteq ToSet(hooks) /\ ToSet(hooks) \subseteq touched[e]
  /\ at[e] = "capture" => whole[e] \subseteq ToSet(pending[e])
  /\ at[e] = "hooks" => \A h \in whole[e] : h \in ToSet(pending[e]) \/ Applied(e, h)

\* A message in a queue that was not replayed came from its sender once: as
\* the delivery of a send, or as the copy of a send that had its duplicate
\* hook run.
PlaceOK(d, m) ==
  LET e == m.from
  IN /\ d = Dest[e]
     /\ m.via = "send" => m.seq \in DOMAIN fate[e] /\ fate[e][m.seq] = "delivered"
     /\ m.via = "duplicate" =>
          \/ m.seq \in DOMAIN fate[e]
          \/ m.seq = This(e) /\ at[e] = "hooks" /\ "duplicate" \notin ToSet(pending[e])
Same(m, n) == m.from = n.from /\ m.seq = n.seq /\ m.via = n.via
LogOK ==
  /\ \A d \in Endpoints : \A m \in ToSet(Log(d)) : m.via # "replay" => PlaceOK(d, m)
  /\ \A d \in Endpoints : \A i, j \in DOMAIN Log(d) :
       Log(d)[i].via # "replay" /\ Same(Log(d)[i], Log(d)[j]) => i = j
  /\ SenderOrder
DeliveredOK ==
  \A e \in Endpoints : \A n \in DOMAIN fate[e] :
    fate[e][n] = "delivered" => Entries(e, n, "send") # {}

\* The counter and the event of drop_next.
DropsOK ==
  /\ IsFiniteSet(Dropped) /\ remaining + Cardinality(Dropped) = DropNext
  /\ done <=> remaining = 0 /\ DropNext > 0

\* Every message that reached the hooks was captured, once, and the list is
\* what is left of the captures.
EverOK ==
  /\ IsInjective(ever)
  /\ \A m \in ToSet(ever) :
       LET e == m.from
       IN /\ m = Message(e, m.seq)
          /\ \/ m.seq \in DOMAIN fate[e] /\ fate[e][m.seq] # "raised"
             \/ m.seq = This(e) /\ at[e] = "hooks"
  /\ \A e \in Endpoints :
       /\ at[e] = "hooks" => Message(e, This(e)) \in ToSet(ever)
       /\ \A n \in DOMAIN fate[e] :
            fate[e][n] \in {"dropped", "drop_next", "hook_raised"} => Message(e, n) \in ToSet(ever)
RestOK == \E k \in 0..Len(ever) : captured = SubSeq(ever, k + 1, Len(ever))

Senders == \A e \in Endpoints : SendOK(e) /\ WindowOK(e)
SimInv ==
  /\ Types /\ Senders /\ HooksOK
  /\ LogOK /\ DeliveredOK /\ DropsOK /\ EverOK /\ RestOK
-----------------------------------------------------------------------------
(* Sequences. *)

\* What Append does to the elements of a sequence, and to their being distinct.
LEMMA AppendSet ==
  ASSUME NEW S, NEW s \in Seq(S), NEW x \in S
  PROVE  /\ Append(s, x) \in Seq(S) /\ Len(Append(s, x)) = Len(s) + 1
         /\ DOMAIN Append(s, x) = DOMAIN s \cup {Len(s) + 1}
         /\ \A i \in DOMAIN s : Append(s, x)[i] = s[i]
         /\ Append(s, x)[Len(s) + 1] = x
         /\ ToSet(Append(s, x)) = ToSet(s) \cup {x}
         /\ IsInjective(s) /\ x \notin ToSet(s) => IsInjective(Append(s, x))
<1>1. /\ Append(s, x) \in Seq(S) /\ Len(Append(s, x)) = Len(s) + 1
      /\ \A i \in 1..Len(s) : Append(s, x)[i] = s[i]
      /\ Append(s, x)[Len(s) + 1] = x
  BY AppendProperties
<1>2. /\ DOMAIN s = 1..Len(s) /\ Len(s) \in Nat
      /\ DOMAIN Append(s, x) = 1..Len(s) + 1
  BY <1>1, LenProperties
<1>3. DOMAIN Append(s, x) = DOMAIN s \cup {Len(s) + 1}
  BY <1>2
<1> QED  BY <1>1, <1>2, <1>3 DEF ToSet, IsInjective

\* What Tail does to the elements of a sequence, and to their being distinct.
LEMMA TailSet ==
  ASSUME NEW S, NEW s \in Seq(S), s # <<>>
  PROVE  /\ Head(s) \in S /\ Tail(s) \in Seq(S)
         /\ ToSet(s) = {Head(s)} \cup ToSet(Tail(s))
         /\ IsInjective(s) => IsInjective(Tail(s)) /\ Head(s) \notin ToSet(Tail(s))
<1>1. /\ Head(s) \in S /\ Tail(s) \in Seq(S) /\ Len(Tail(s)) = Len(s) - 1
      /\ \A i \in 1..Len(Tail(s)) : Tail(s)[i] = s[i + 1]
  BY HeadTailProperties
<1>2. DOMAIN s = 1..Len(s) /\ Len(s) \in Nat \ {0} /\ DOMAIN Tail(s) = 1..Len(s) - 1
  BY <1>1, LenProperties, EmptySeq
<1>3. Head(s) = s[1]
  OBVIOUS
<1>4. ToSet(s) = {Head(s)} \cup ToSet(Tail(s))
  <2>1. \A i \in DOMAIN s : i = 1 \/ (i - 1 \in DOMAIN Tail(s) /\ s[i] = Tail(s)[i - 1])
    BY <1>1, <1>2
  <2>2. \A i \in DOMAIN Tail(s) : i + 1 \in DOMAIN s /\ Tail(s)[i] = s[i + 1]
    BY <1>1, <1>2
  <2>3. 1 \in DOMAIN s
    BY <1>2
  <2>4. \A i \in DOMAIN s : s[i] \in {Head(s)} \cup ToSet(Tail(s))
    BY <1>3, <2>1 DEF ToSet
  <2>5. ToSet(Tail(s)) \subseteq ToSet(s)
    BY <2>2 DEF ToSet
  <2>6. Head(s) \in ToSet(s)
    BY <1>3, <2>3 DEF ToSet
  <2>7. ToSet(s) \subseteq {Head(s)} \cup ToSet(Tail(s))
    BY <2>4, Zenon DEF ToSet
  <2> QED  BY <2>5, <2>6, <2>7
<1>5. ASSUME IsInjective(s)
      PROVE  IsInjective(Tail(s)) /\ Head(s) \notin ToSet(Tail(s))
  <2>1. \A i \in DOMAIN Tail(s) : i + 1 \in DOMAIN s /\ Tail(s)[i] = s[i + 1] /\ i \in Nat \ {0}
    BY <1>1, <1>2
  <2>2. 1 \in DOMAIN s
    BY <1>2
  <2> QED  BY <1>3, <1>5, <2>1, <2>2 DEF ToSet, IsInjective
<1> QED  BY <1>1, <1>4, <1>5

\* What is left of a sequence without repetitions after its i-th element.
LEMMA RemovedSet ==
  ASSUME NEW S, NEW s \in Seq(S), NEW i \in DOMAIN s, IsInjective(s)
  PROVE  /\ RemoveAt(s, i) \in Seq(S) /\ IsInjective(RemoveAt(s, i))
         /\ ToSet(RemoveAt(s, i)) = ToSet(s) \ {s[i]}
<1> DEFINE a == SubSeq(s, 1, i - 1)
           b == SubSeq(s, i + 1, Len(s))
           r == RemoveAt(s, i)
<1>1. DOMAIN s = 1..Len(s) /\ Len(s) \in Nat /\ i \in 1..Len(s)
  BY LenProperties
<1>2. a \in Seq(S) /\ Len(a) = i - 1 /\ \A k \in 1..i - 1 : a[k] = s[k]
  BY <1>1, SubSeqProperties
<1>3. b \in Seq(S) /\ Len(b) = Len(s) - i /\ \A k \in 1..Len(s) - i : b[k] = s[i + k]
  BY <1>1, SubSeqProperties
<1>4. r = a \o b
  BY DEF RemoveAt
<1> HIDE DEF a, b, r
<1>5. /\ r \in Seq(S) /\ Len(r) = Len(s) - 1
      /\ \A k \in 1..Len(s) - 1 : r[k] = IF k < i THEN s[k] ELSE s[k + 1]
  <2>1. r \in Seq(S) /\ Len(r) = Len(a) + Len(b)
    BY <1>2, <1>3, <1>4, ConcatProperties
  <2>2. \A k \in 1..Len(a) + Len(b) : r[k] = IF k <= Len(a) THEN a[k] ELSE b[k - Len(a)]
    BY <1>2, <1>3, <1>4, ConcatProperties
  <2>3. Len(a) + Len(b) = Len(s) - 1
    BY <1>1, <1>2, <1>3
  <2>4. ASSUME NEW k \in 1..Len(s) - 1
        PROVE  r[k] = IF k < i THEN s[k] ELSE s[k + 1]
    <3>1. CASE k < i
      <4>1. k \in 1..i - 1 /\ k <= Len(a) /\ k \in 1..Len(a) + Len(b)
        BY <1>1, <1>2, <2>3, <2>4, <3>1
      <4>2. r[k] = a[k] /\ a[k] = s[k]
        BY <1>2, <2>2, <4>1
      <4> QED  BY <3>1, <4>2
    <3>2. CASE ~(k < i)
      <4>1. /\ ~(k <= Len(a)) /\ k \in 1..Len(a) + Len(b)
            /\ k - Len(a) \in 1..Len(s) - i /\ i + (k - Len(a)) = k + 1
        BY <1>1, <1>2, <2>3, <2>4, <3>2
      <4>2. r[k] = b[k - Len(a)] /\ b[k - Len(a)] = s[i + (k - Len(a))]
        BY <1>3, <2>2, <4>1
      <4> QED  BY <3>2, <4>1, <4>2
    <3> QED  BY <3>1, <3>2
  <2> QED  BY <2>1, <2>3, <2>4
<1>6. DOMAIN r = 1..Len(s) - 1
  BY <1>1, <1>5, LenProperties
<1>7. \A k \in DOMAIN r : IF k < i THEN k \in DOMAIN s /\ r[k] = s[k]
                                   ELSE k + 1 \in DOMAIN s /\ r[k] = s[k + 1]
  BY <1>1, <1>5, <1>6
<1>8. IsInjective(r)
  BY <1>1, <1>6, <1>7 DEF IsInjective
<1>9. \A k \in DOMAIN s \ {i} : \E j \in DOMAIN r : r[j] = s[k]
  <2> TAKE k \in DOMAIN s \ {i}
  <2>1. CASE k < i
    BY <1>1, <1>6, <1>7, <2>1
  <2>2. CASE k > i
    <3>1. k - 1 \in DOMAIN r /\ r[k - 1] = s[k]
      BY <1>1, <1>5, <1>6, <2>2
    <3> QED  BY <3>1
  <2> QED  BY <1>1, <2>1, <2>2
<1>10. \A j \in DOMAIN r : \E k \in DOMAIN s \ {i} : r[j] = s[k]
  BY <1>1, <1>6, <1>7
<1>11. ToSet(r) = ToSet(s) \ {s[i]}
  BY <1>9, <1>10 DEF ToSet, IsInjective
<1> QED  BY <1>5, <1>8, <1>11 DEF r

\* Moving the head of a queue to the end of what was received leaves their
\* concatenation alone.
LEMMA MovedHead ==
  ASSUME NEW S, NEW r \in Seq(S), NEW q \in Seq(S), q # <<>>
  PROVE  Append(r, Head(q)) \o Tail(q) = r \o q
<1>1. Head(q) \in S /\ Tail(q) \in Seq(S) /\ q = <<Head(q)>> \o Tail(q)
  OBVIOUS
<1>2. Append(r, Head(q)) = r \o <<Head(q)>>
  BY <1>1, AppendIsConcat
<1>3. <<Head(q)>> \in Seq(S)
  BY <1>1
<1>4. (r \o <<Head(q)>>) \o Tail(q) = r \o (<<Head(q)>> \o Tail(q))
  BY <1>1, <1>3, ConcatAssociative
<1> QED  BY <1>1, <1>2, <1>4

\* Concatenation and Append commute.
LEMMA AppendedTail ==
  ASSUME NEW S, NEW r \in Seq(S), NEW q \in Seq(S), NEW x \in S
  PROVE  r \o Append(q, x) = Append(r \o q, x)
<1>1. <<x>> \in Seq(S) /\ r \o q \in Seq(S)
  BY ConcatProperties
<1>2. Append(q, x) = q \o <<x>> /\ Append(r \o q, x) = (r \o q) \o <<x>>
  BY <1>1, AppendIsConcat
<1> QED  BY <1>1, <1>2, ConcatAssociative

\* The rest of a sequence that grows at its end grows there too.
LEMMA GrownRest ==
  ASSUME NEW S, NEW s \in Seq(S), NEW x \in S, NEW k \in 0..Len(s)
  PROVE  SubSeq(Append(s, x), k + 1, Len(s) + 1) = Append(SubSeq(s, k + 1, Len(s)), x)
<1> DEFINE a == SubSeq(Append(s, x), k + 1, Len(s) + 1)
           c == SubSeq(s, k + 1, Len(s))
<1>1. Len(s) \in Nat /\ Append(s, x) \in Seq(S) /\ Len(Append(s, x)) = Len(s) + 1
      /\ (\A i \in 1..Len(s) : Append(s, x)[i] = s[i]) /\ Append(s, x)[Len(s) + 1] = x
  BY LenProperties, AppendProperties
<1>2. /\ a \in Seq(S) /\ Len(a) = Len(s) + 1 - k
      /\ \A i \in 1..Len(s) + 1 - k : a[i] = Append(s, x)[k + i]
  BY <1>1, SubSeqProperties
<1>3. c \in Seq(S) /\ Len(c) = Len(s) - k /\ \A i \in 1..Len(s) - k : c[i] = s[k + i]
  BY <1>1, SubSeqProperties
<1> HIDE DEF a, c
<1>4. Append(c, x) \in Seq(S) /\ Len(Append(c, x)) = Len(s) - k + 1
      /\ (\A i \in 1..Len(s) - k : Append(c, x)[i] = c[i]) /\ Append(c, x)[Len(s) - k + 1] = x
  BY <1>3, AppendProperties
<1>5. \A i \in 1..Len(a) : a[i] = Append(c, x)[i]
  BY <1>1, <1>2, <1>3, <1>4
<1>6. Len(a) = Len(Append(c, x))
  BY <1>1, <1>2, <1>4
<1>7. a = Append(c, x)
  BY <1>2, <1>4, <1>5, <1>6, SeqEqual
<1> QED  BY <1>7 DEF a, c

\* What is left of a sequence is a suffix of it.
LEMMA RestIsSuffix ==
  ASSUME NEW S, NEW s \in Seq(S), NEW k \in 0..Len(s)
  PROVE  IsSuffix(SubSeq(s, k + 1, Len(s)), s)
<1> DEFINE c == SubSeq(s, k + 1, Len(s))
           n == Len(s) - k
<1>1. Len(s) \in Nat /\ n \in 0..Len(s)
  BY LenProperties
<1>2. c \in Seq(S) /\ Len(c) = n /\ \A i \in 1..n : c[i] = s[k + i]
  BY <1>1, SubSeqProperties
<1> HIDE DEF c
<1>3. Reverse(s) = [i \in 1..Len(s) |-> s[(Len(s) - i) + 1]]
      /\ Reverse(c) = [i \in 1..n |-> c[(n - i) + 1]]
  BY <1>2 DEF Reverse
<1>4. Reverse(s) \in Seq(S) /\ Len(Reverse(s)) = Len(s)
  BY <1>1, <1>3
<1>5. Reverse(c) \in Seq(S) /\ Len(Reverse(c)) = n
  BY <1>1, <1>2, <1>3
<1>6. ASSUME NEW i \in 1..n
      PROVE  Reverse(c)[i] = Reverse(s)[i]
  <2> DEFINE j == (n - i) + 1
  <2>1. i \in 1..Len(s) /\ j \in 1..n /\ (Len(s) - i) + 1 = k + j
    BY <1>1
  <2> HIDE DEF j
  <2>2. Reverse(c)[i] = c[j]
    BY <1>3 DEF j
  <2>3. Reverse(s)[i] = s[k + j]
    BY <1>3, <2>1
  <2> QED  BY <1>2, <2>1, <2>2, <2>3
<1>7. SubSeq(Reverse(c), 1, n) \in Seq(S) /\ SubSeq(Reverse(s), 1, n) \in Seq(S)
      /\ Len(SubSeq(Reverse(c), 1, n)) = n /\ Len(SubSeq(Reverse(s), 1, n)) = n
      /\ \A i \in 1..n : /\ SubSeq(Reverse(c), 1, n)[i] = Reverse(c)[i]
                         /\ SubSeq(Reverse(s), 1, n)[i] = Reverse(s)[i]
  BY <1>1, <1>4, <1>5, SubSeqProperties
<1>8. SubSeq(Reverse(c), 1, n) = SubSeq(Reverse(s), 1, n)
  BY <1>6, <1>7, SeqEqual
<1> QED  BY <1>1, <1>4, <1>5, <1>8 DEF IsSuffix, IsPrefix, c
-----------------------------------------------------------------------------
(* What the steps of a send change. *)

\* The state of the sends other than e's.
Others(e) ==
  \A x \in Endpoints \ {e} :
    /\ at'[x] = at[x] /\ current'[x] = current[x] /\ pending'[x] = pending[x]
    /\ fate'[x] = fate[x] /\ whole'[x] = whole[x] /\ touched'[x] = touched[x]
SendTypes ==
  /\ at \in [Endpoints -> Places] /\ current \in [Endpoints -> MessageType \cup {NoMessage}]
  /\ pending \in [Endpoints -> Seq(Hooks)] /\ fate \in [Endpoints -> Seq(Fates)]
  /\ whole \in [Endpoints -> SUBSET Hooks] /\ touched \in [Endpoints -> SUBSET Hooks]

\* The end of a send leaves the thread idle, with one fate more.
LEMMA Ends ==
  ASSUME Types, NEW e \in Endpoints, NEW how \in Fates, End(e, how)
  PROVE  /\ SendTypes' /\ Others(e)
         /\ at'[e] = "idle" /\ current'[e] = NoMessage /\ pending'[e] = <<>>
         /\ whole'[e] = {} /\ touched'[e] = {} /\ fate'[e] = Append(fate[e], how)
<1>1. /\ at' = [at EXCEPT ![e] = "idle"] /\ at \in [Endpoints -> Places]
      /\ current' = [current EXCEPT ![e] = NoMessage]
      /\ current \in [Endpoints -> MessageType \cup {NoMessage}]
      /\ pending' = [pending EXCEPT ![e] = <<>>] /\ pending \in [Endpoints -> Seq(Hooks)]
      /\ fate' = [fate EXCEPT ![e] = Append(@, how)] /\ fate \in [Endpoints -> Seq(Fates)]
      /\ whole' = [whole EXCEPT ![e] = {}] /\ whole \in [Endpoints -> SUBSET Hooks]
      /\ touched' = [touched EXCEPT ![e] = {}] /\ touched \in [Endpoints -> SUBSET Hooks]
  BY DEF End, Types
<1>2. "idle" \in Places /\ NoMessage \in MessageType \cup {NoMessage} /\ <<>> \in Seq(Hooks)
      /\ Append(fate[e], how) \in Seq(Fates)
  <2>1. fate[e] \in Seq(Fates)
    BY <1>1
  <2> QED  BY <2>1, AppendProperties, EmptySeq DEF Places
<1>3. at' \in [Endpoints -> Places] /\ at'[e] = "idle" /\ \A x \in Endpoints \ {e} : at'[x] = at[x]
  BY <1>1, <1>2
<1>4. /\ current' \in [Endpoints -> MessageType \cup {NoMessage}] /\ current'[e] = NoMessage
      /\ \A x \in Endpoints \ {e} : current'[x] = current[x]
  BY <1>1, <1>2
<1>5. /\ pending' \in [Endpoints -> Seq(Hooks)] /\ pending'[e] = <<>>
      /\ \A x \in Endpoints \ {e} : pending'[x] = pending[x]
  BY <1>1, <1>2, Zenon
<1>6. /\ fate' \in [Endpoints -> Seq(Fates)] /\ fate'[e] = Append(fate[e], how)
      /\ \A x \in Endpoints \ {e} : fate'[x] = fate[x]
  BY <1>1, <1>2, Zenon
<1>7. /\ whole' \in [Endpoints -> SUBSET Hooks] /\ whole'[e] = {}
      /\ \A x \in Endpoints \ {e} : whole'[x] = whole[x]
  BY <1>1
<1>8. /\ touched' \in [Endpoints -> SUBSET Hooks] /\ touched'[e] = {}
      /\ \A x \in Endpoints \ {e} : touched'[x] = touched[x]
  BY <1>1
<1> QED  BY <1>3, <1>4, <1>5, <1>6, <1>7, <1>8 DEF SendTypes, Others

\* A hook that passes a message on leaves the hooks behind it to run.
LEMMA Passes ==
  ASSUME Types, NEW e \in Endpoints, NEW m \in MessageType, pending[e] # <<>>, Passed(e, m)
  PROVE  /\ SendTypes' /\ Others(e)
         /\ at'[e] = at[e] /\ current'[e] = m /\ pending'[e] = Tail(pending[e])
         /\ whole'[e] = whole[e] /\ touched'[e] = touched[e] /\ fate'[e] = fate[e]
<1>1. /\ current' = [current EXCEPT ![e] = m]
      /\ current \in [Endpoints -> MessageType \cup {NoMessage}]
      /\ pending' = [pending EXCEPT ![e] = Tail(@)] /\ pending \in [Endpoints -> Seq(Hooks)]
      /\ UNCHANGED <<at, fate, whole, touched>>
  BY DEF Passed, Types, history
<1>2. Tail(pending[e]) \in Seq(Hooks)
  <2>1. pending[e] \in Seq(Hooks)
    BY <1>1
  <2> QED  BY <2>1, HeadTailProperties
<1>3. /\ current' \in [Endpoints -> MessageType \cup {NoMessage}] /\ current'[e] = m
      /\ \A x \in Endpoints \ {e} : current'[x] = current[x]
  BY <1>1
<1>4. /\ pending' \in [Endpoints -> Seq(Hooks)] /\ pending'[e] = Tail(pending[e])
      /\ \A x \in Endpoints \ {e} : pending'[x] = pending[x]
  BY <1>1, <1>2, Zenon
<1> QED  BY <1>1, <1>3, <1>4 DEF SendTypes, Others, Types

\* Put adds one message to one log, receive changes none.
LogTypes ==
  queue \in [Endpoints -> Seq(MessageType)] /\ received \in [Endpoints -> Seq(MessageType)]

\* What ever entered a queue is a sequence of messages.
LEMMA LogIsSeq ==
  ASSUME Types
  PROVE  \A d \in Endpoints : /\ Log(d) \in Seq(MessageType) /\ Len(Log(d)) \in Nat
                              /\ DOMAIN Log(d) = 1..Len(Log(d))
                              /\ \A i \in DOMAIN Log(d) : Log(d)[i] \in MessageType
<1> TAKE d \in Endpoints
<1>1. queue[d] \in Seq(MessageType) /\ received[d] \in Seq(MessageType)
  BY DEF Types
<1>2. Log(d) \in Seq(MessageType)
  BY <1>1, ConcatProperties DEF Log
<1> QED  BY <1>2, LenProperties, ElementOfSeq

\* A put appends to what ever entered the queue.
LEMMA LogPut ==
  ASSUME Types, NEW to \in Endpoints, NEW m \in MessageType, Put(to, m), UNCHANGED received
  PROVE  /\ LogTypes' /\ Log(to)' = Append(Log(to), m)
         /\ \A d \in Endpoints \ {to} : Log(d)' = Log(d)
<1>1. /\ queue' = [queue EXCEPT ![to] = Append(@, m)] /\ queue \in [Endpoints -> Seq(MessageType)]
      /\ received \in [Endpoints -> Seq(MessageType)] /\ received' = received
  BY DEF Types, Put
<1>2. queue[to] \in Seq(MessageType) /\ received[to] \in Seq(MessageType)
  BY <1>1
<1>3. Append(queue[to], m) \in Seq(MessageType)
  BY <1>2, AppendProperties
<1>4. /\ queue' \in [Endpoints -> Seq(MessageType)] /\ queue'[to] = Append(queue[to], m)
      /\ \A d \in Endpoints \ {to} : queue'[d] = queue[d]
  BY <1>1, <1>3, Zenon
<1>5. Log(to)' = received[to] \o Append(queue[to], m)
  BY <1>1, <1>4, Zenon DEF Log
<1>6. Log(to)' = Append(Log(to), m)
  <2>1. received[to] \o Append(queue[to], m) = Append(received[to] \o queue[to], m)
    <3> DEFINE S == MessageType
               q == queue[to]
               r == received[to]
    <3>1. q \in Seq(S) /\ r \in Seq(S) /\ m \in S
      BY <1>2
    <3> HIDE DEF S, q, r
    <3>2. r \o Append(q, m) = Append(r \o q, m)
      BY <3>1, AppendedTail
    <3> QED  BY <3>2 DEF q, r
  <2> QED  BY <1>5, <2>1, Zenon DEF Log
<1>7. \A d \in Endpoints \ {to} : Log(d)' = Log(d)
  BY <1>1, <1>4, Zenon DEF Log
<1> QED  BY <1>1, <1>4, <1>6, <1>7, Zenon DEF LogTypes

\* A get leaves what ever entered the queue as it was.
LEMMA LogReceive ==
  ASSUME Types, NEW e \in Endpoints, Receive(e)
  PROVE  LogTypes' /\ \A d \in Endpoints : Log(d)' = Log(d)
<1>1. /\ queue' = [queue EXCEPT ![e] = Tail(@)] /\ queue \in [Endpoints -> Seq(MessageType)]
      /\ received \in [Endpoints -> Seq(MessageType)]
      /\ received' = [received EXCEPT ![e] = Append(@, Head(queue[e]))] /\ queue[e] # <<>>
  BY DEF Types, Receive
<1>2. queue[e] \in Seq(MessageType) /\ received[e] \in Seq(MessageType)
  BY <1>1
<1>3. Head(queue[e]) \in MessageType /\ Tail(queue[e]) \in Seq(MessageType)
  BY <1>1, <1>2, HeadTailProperties
<1>4. Append(received[e], Head(queue[e])) \in Seq(MessageType)
  BY <1>2, <1>3, AppendProperties
<1>5. /\ queue' \in [Endpoints -> Seq(MessageType)] /\ queue'[e] = Tail(queue[e])
      /\ \A d \in Endpoints \ {e} : queue'[d] = queue[d]
  BY <1>1, <1>3, Zenon
<1>6. /\ received' \in [Endpoints -> Seq(MessageType)]
      /\ received'[e] = Append(received[e], Head(queue[e]))
      /\ \A d \in Endpoints \ {e} : received'[d] = received[d]
  BY <1>1, <1>4, Zenon
<1>7. Log(e)' = Append(received[e], Head(queue[e])) \o Tail(queue[e])
  BY <1>5, <1>6, Zenon DEF Log
<1>8. Log(e)' = Log(e)
  BY <1>1, <1>2, <1>7, MovedHead DEF Log
<1>9. \A d \in Endpoints \ {e} : Log(d)' = Log(d)
  BY <1>5, <1>6, Zenon DEF Log
<1> QED  BY <1>5, <1>6, <1>8, <1>9, Zenon DEF LogTypes
-----------------------------------------------------------------------------
(* The logs: what every step must leave alone, and what a put must bring. *)

\* A send goes on, past hooks that were run, or it ends.
Kept(x) ==
  /\ fate'[x] = fate[x]
  /\ at[x] = "hooks" /\ "duplicate" \notin ToSet(pending[x]) =>
       at'[x] = "hooks" /\ "duplicate" \notin ToSet(pending'[x])
Ended(x) == \E how \in Fates : fate'[x] = Append(fate[x], how)
Moves == \A x \in Endpoints : Kept(x) \/ Ended(x)

\* The fates of a thread's sends are a sequence.
LEMMA FateIsSeq ==
  ASSUME Types, NEW x \in Endpoints
  PROVE  /\ fate[x] \in Seq(Fates) /\ Len(fate[x]) \in Nat
         /\ DOMAIN fate[x] = 1..Len(fate[x]) /\ This(x) \in Nat \ {0}
<1>1. fate[x] \in Seq(Fates)
  BY DEF Types
<1> QED  BY <1>1, LenProperties DEF This

\* Where a send ended the number it had is in the domain of its fates, and
\* what was there stays.
LEMMA EndedFate ==
  ASSUME Types, NEW x \in Endpoints, NEW how \in Fates, fate'[x] = Append(fate[x], how)
  PROVE  /\ DOMAIN fate'[x] = DOMAIN fate[x] \cup {This(x)} /\ This(x) \notin DOMAIN fate[x]
         /\ fate'[x][This(x)] = how /\ \A n \in DOMAIN fate[x] : fate'[x][n] = fate[x][n]
         /\ Len(fate'[x]) = Len(fate[x]) + 1
<1>1. /\ fate[x] \in Seq(Fates) /\ Len(fate[x]) \in Nat /\ DOMAIN fate[x] = 1..Len(fate[x])
  BY FateIsSeq
<1> QED  BY <1>1, AppendSet DEF This

\* A message in place stays in place while sends go on.
LEMMA PlaceKept ==
  ASSUME Types, Moves, NEW d \in Endpoints, NEW m \in MessageType, m.via # "replay",
         PlaceOK(d, m)
  PROVE  PlaceOK(d, m)'
<1> DEFINE e == m.from
<1>1. e \in Endpoints
  BY DEF MessageType
<1>2. /\ d = Dest[e]
      /\ m.via = "send" => m.seq \in DOMAIN fate[e] /\ fate[e][m.seq] = "delivered"
      /\ m.via = "duplicate" =>
           \/ m.seq \in DOMAIN fate[e]
           \/ m.seq = This(e) /\ at[e] = "hooks" /\ "duplicate" \notin ToSet(pending[e])
  BY DEF PlaceOK
<1>3. SUFFICES /\ d = Dest[e]
               /\ m.via = "send" => m.seq \in DOMAIN fate'[e] /\ fate'[e][m.seq] = "delivered"
               /\ m.via = "duplicate" =>
                    \/ m.seq \in DOMAIN fate'[e]
                    \/ /\ m.seq = Len(fate'[e]) + 1 /\ at'[e] = "hooks"
                       /\ "duplicate" \notin ToSet(pending'[e])
  BY DEF PlaceOK, This
<1> HIDE DEF e
<1>4. CASE Kept(e)
  BY <1>2, <1>4 DEF Kept, This
<1>5. CASE Ended(e)
  <2>1. PICK how \in Fates : fate'[e] = Append(fate[e], how)
    BY <1>5 DEF Ended
  <2> QED  BY <1>1, <1>2, <2>1, EndedFate
<1> QED  BY <1>1, <1>4, <1>5 DEF Moves

\* A step that puts nothing keeps the logs in order.
LEMMA LogSame ==
  ASSUME Types, LogOK, Moves, \A d \in Endpoints : Log(d)' = Log(d)
  PROVE  LogOK'
<1>1. \A d \in Endpoints : \A m \in ToSet(Log(d)) : m \in MessageType
  BY LogIsSeq DEF ToSet
<1>2. ASSUME NEW d \in Endpoints, NEW m \in ToSet(Log(d))', m.via # "replay"
      PROVE  PlaceOK(d, m)'
  <2>1. m \in ToSet(Log(d))
    BY <1>2 DEF ToSet
  <2>2. m \in MessageType /\ PlaceOK(d, m)
    BY <1>1, <1>2, <2>1 DEF LogOK
  <2> QED  BY <1>2, <2>2, PlaceKept
<1>3. ASSUME NEW d \in Endpoints, NEW i \in DOMAIN Log(d)', NEW j \in DOMAIN Log(d)',
             Log(d)'[i].via # "replay", Same(Log(d)'[i], Log(d)'[j])
      PROVE  i = j
  BY <1>3 DEF LogOK, Same
<1>4. SenderOrder'
  BY DEF LogOK, SenderOrder
<1> QED  BY <1>2, <1>3, <1>4 DEF LogOK, Same

\* A message that is put, unless it is replayed, is at its place and behind
\* all that its sender had there.
Fits(to, m) ==
  m.via # "replay" =>
    /\ PlaceOK(to, m)'
    /\ \A n \in ToSet(Log(to)) :
         n.via # "replay" /\ n.from = m.from => n.seq <= m.seq /\ ~Same(n, m)

\* A message that fits behind the log keeps it in order.
LEMMA LogGrows ==
  ASSUME Types, LogOK, Moves, NEW to \in Endpoints, NEW m \in MessageType, Fits(to, m),
         Log(to)' = Append(Log(to), m), \A d \in Endpoints \ {to} : Log(d)' = Log(d)
  PROVE  LogOK'
<1>1. \A d \in Endpoints : \A n \in ToSet(Log(d)) : n \in MessageType
  BY LogIsSeq DEF ToSet
<1>2. /\ DOMAIN Log(to)' = DOMAIN Log(to) \cup {Len(Log(to)) + 1}
      /\ \A i \in DOMAIN Log(to) : Log(to)'[i] = Log(to)[i]
      /\ Log(to)'[Len(Log(to)) + 1] = m
      /\ ToSet(Log(to)') = ToSet(Log(to)) \cup {m}
  BY LogIsSeq, AppendSet
<1>3. /\ Len(Log(to)) \in Nat /\ DOMAIN Log(to) = 1..Len(Log(to))
      /\ \A i \in DOMAIN Log(to) : Log(to)[i] \in ToSet(Log(to)) /\ Log(to)[i] \in MessageType
  BY LogIsSeq DEF ToSet
<1>4. ASSUME NEW d \in Endpoints, NEW n \in ToSet(Log(d)'), n.via # "replay"
      PROVE  PlaceOK(d, n)'
  <2>1. CASE n \in ToSet(Log(d))
    <3>1. n \in MessageType /\ PlaceOK(d, n)
      BY <1>1, <1>4, <2>1 DEF LogOK
    <3> QED  BY <1>4, <3>1, PlaceKept
  <2>2. CASE d = to /\ n = m
    BY <1>4, <2>2 DEF Fits
  <2> QED  BY <1>2, <1>4, <2>1, <2>2
<1>5. ASSUME NEW d \in Endpoints, NEW i \in DOMAIN Log(d)', NEW j \in DOMAIN Log(d)',
             Log(d)'[i].via # "replay", Same(Log(d)'[i], Log(d)'[j])
      PROVE  i = j
  <2>1. CASE d # to
    BY <1>5, <2>1 DEF LogOK, Same
  <2>2. CASE d = to
    <3>1. CASE i \in DOMAIN Log(to) /\ j \in DOMAIN Log(to)
      BY <1>2, <1>5, <2>2, <3>1 DEF LogOK, Same
    <3>2. CASE i = Len(Log(to)) + 1 /\ j \in DOMAIN Log(to)
      BY <1>2, <1>3, <1>5, <2>2, <3>2 DEF Fits, Same
    <3>3. CASE j = Len(Log(to)) + 1 /\ i \in DOMAIN Log(to)
      BY <1>2, <1>3, <1>5, <2>2, <3>3 DEF Fits, Same
    <3> QED  BY <1>2, <1>5, <2>2, <3>1, <3>2, <3>3
  <2> QED  BY <2>1, <2>2
<1>6. ASSUME NEW d \in Endpoints, NEW i \in DOMAIN Log(d)', NEW j \in DOMAIN Log(d)', i < j,
             Log(d)'[i].from = Log(d)'[j].from, Log(d)'[i].via # "replay",
             Log(d)'[j].via # "replay"
      PROVE  Log(d)'[i].seq <= Log(d)'[j].seq
  <2>1. CASE d # to
    BY <1>6, <2>1 DEF LogOK, SenderOrder
  <2>2. CASE d = to
    <3>1. CASE i \in DOMAIN Log(to) /\ j \in DOMAIN Log(to)
      BY <1>2, <1>6, <2>2, <3>1 DEF LogOK, SenderOrder
    <3>2. CASE j = Len(Log(to)) + 1 /\ i \in DOMAIN Log(to)
      BY <1>2, <1>3, <1>6, <2>2, <3>2 DEF Fits
    <3>3. ~(i = Len(Log(to)) + 1 /\ j \in DOMAIN Log(to))
      BY <1>3, <1>6
    <3>4. ~(i = Len(Log(to)) + 1 /\ j = Len(Log(to)) + 1)
      BY <1>3, <1>6
    <3> QED  BY <1>2, <1>6, <2>2, <3>1, <3>2, <3>3, <3>4
  <2> QED  BY <2>1, <2>2
<1>7. SenderOrder'
  BY <1>6 DEF SenderOrder
<1>8. \A d \in Endpoints : \A n \in ToSet(Log(d)') : n.via # "replay" => PlaceOK(d, n)'
  BY <1>4
<1>9. \A d \in Endpoints : \A i, j \in DOMAIN Log(d)' :
        Log(d)'[i].via # "replay" /\ Same(Log(d)'[i], Log(d)'[j]) => i = j
  BY <1>5
<1> QED  BY <1>7, <1>8, <1>9 DEF LogOK, Same
-----------------------------------------------------------------------------
(* What was delivered, dropped and captured. *)

\* Where a send of x has just been delivered its message is in the log.
Arrived(x) ==
  \E i \in DOMAIN Log(Dest[x])' :
    LET m == Log(Dest[x])'[i] IN m.from = x /\ m.seq = This(x) /\ m.via = "send"

\* What was delivered stays in its queue's log.
LEMMA DeliveredKept ==
  ASSUME Types, DeliveredOK,
         \A d \in Endpoints : \A i \in DOMAIN Log(d) :
            i \in DOMAIN Log(d)' /\ Log(d)'[i] = Log(d)[i],
         \A x \in Endpoints :
            \/ fate'[x] = fate[x]
            \/ \E how \in Fates : /\ fate'[x] = Append(fate[x], how)
                                  /\ how = "delivered" => Arrived(x)
  PROVE  DeliveredOK'
<1> SUFFICES ASSUME NEW e \in Endpoints, NEW n \in DOMAIN fate'[e], fate'[e][n] = "delivered"
             PROVE  Entries(e, n, "send")' # {}
  BY DEF DeliveredOK
<1>1. Dest[e] \in Endpoints
  BY DestAssumption
<1>2. SUFFICES \E i \in DOMAIN Log(Dest[e])' :
                 LET m == Log(Dest[e])'[i] IN m.from = e /\ m.seq = n /\ m.via = "send"
  BY Zenon DEF Entries
<1>3. ASSUME n \in DOMAIN fate[e], fate[e][n] = "delivered"
      PROVE  \E i \in DOMAIN Log(Dest[e])' :
               LET m == Log(Dest[e])'[i] IN m.from = e /\ m.seq = n /\ m.via = "send"
  <2>1. Entries(e, n, "send") # {}
    BY <1>3 DEF DeliveredOK
  <2>2. PICK i \in DOMAIN Log(Dest[e]) :
          LET m == Log(Dest[e])[i] IN m.from = e /\ m.seq = n /\ m.via = "send"
    BY <2>1 DEF Entries
  <2> QED  BY <1>1, <2>2
<1>4. CASE fate'[e] = fate[e]
  BY <1>3, <1>4
<1>5. CASE \E how \in Fates : /\ fate'[e] = Append(fate[e], how)
                              /\ how = "delivered" => Arrived(e)
  <2>1. PICK how \in Fates : /\ fate'[e] = Append(fate[e], how)
                             /\ how = "delivered" => Arrived(e)
    BY <1>5
  <2>2. /\ DOMAIN fate'[e] = DOMAIN fate[e] \cup {This(e)}
        /\ fate'[e][This(e)] = how /\ \A k \in DOMAIN fate[e] : fate'[e][k] = fate[e][k]
    BY <2>1, EndedFate
  <2>3. CASE n \in DOMAIN fate[e]
    BY <1>3, <2>2, <2>3
  <2>4. CASE n = This(e)
    BY <2>1, <2>2, <2>4 DEF Arrived
  <2> QED  BY <2>2, <2>3, <2>4
<1> QED  BY <1>4, <1>5

\* A send that ends otherwise leaves the count of drop_next alone.
LEMMA DropsSame ==
  ASSUME Types, DropsOK, UNCHANGED <<remaining, done>>,
         \A x \in Endpoints :
            fate'[x] = fate[x] \/ \E how \in Fates \ {"drop_next"} : fate'[x] = Append(fate[x], how)
  PROVE  DropsOK'
<1>1. ASSUME NEW x \in Endpoints
      PROVE  {i \in DOMAIN fate'[x] : fate'[x][i] = "drop_next"}
               = {i \in DOMAIN fate[x] : fate[x][i] = "drop_next"}
  <2>1. CASE fate'[x] = fate[x]
    BY <2>1
  <2>2. ASSUME NEW how \in Fates \ {"drop_next"}, fate'[x] = Append(fate[x], how)
        PROVE  {i \in DOMAIN fate'[x] : fate'[x][i] = "drop_next"}
                 = {i \in DOMAIN fate[x] : fate[x][i] = "drop_next"}
    <3>1. /\ DOMAIN fate'[x] = DOMAIN fate[x] \cup {This(x)}
          /\ fate'[x][This(x)] = how /\ \A k \in DOMAIN fate[x] : fate'[x][k] = fate[x][k]
      BY <2>2, EndedFate
    <3> QED  BY <3>1
  <2> QED  BY <2>1, <2>2
<1>2. Dropped' = Dropped
  <2>1. \A z : z \in Dropped <=> \E x \in Endpoints : \E n : z = <<x, n>> /\
                                 n \in {i \in DOMAIN fate[x] : fate[x][i] = "drop_next"}
    BY DEF Dropped
  <2>2. \A z : z \in Dropped' <=> \E x \in Endpoints : \E n : z = <<x, n>> /\
                                  n \in {i \in DOMAIN fate'[x] : fate'[x][i] = "drop_next"}
    BY DEF Dropped
  <2> QED  BY <1>1, <2>1, <2>2
<1> QED  BY <1>2, Zenon DEF DropsOK

\* A message drop_next drops is counted, the last one signalled.
LEMMA DropsOne ==
  ASSUME Types, DropsOK, NEW e \in Endpoints, fate'[e] = Append(fate[e], "drop_next"),
         \A x \in Endpoints \ {e} : fate'[x] = fate[x],
         remaining > 0, remaining' = remaining - 1, done' = (done \/ remaining' = 0)
  PROVE  DropsOK'
<1>1. /\ DOMAIN fate'[e] = DOMAIN fate[e] \cup {This(e)} /\ This(e) \notin DOMAIN fate[e]
      /\ fate'[e][This(e)] = "drop_next" /\ \A k \in DOMAIN fate[e] : fate'[e][k] = fate[e][k]
  BY EndedFate DEF Fates
<1>2. \A z : z \in Dropped <=> \E x \in Endpoints : \E n \in DOMAIN fate[x] :
                                 z = <<x, n>> /\ fate[x][n] = "drop_next"
  BY DEF Dropped
<1>3. \A z : z \in Dropped' <=> \E x \in Endpoints : \E n \in DOMAIN fate'[x] :
                                  z = <<x, n>> /\ fate'[x][n] = "drop_next"
  BY DEF Dropped
<1>4. \A z \in Dropped' : z \in Dropped \cup {<<e, This(e)>>}
  BY <1>1, <1>2, <1>3, SMTT(30)
<1>5. \A z \in Dropped : z \in Dropped'
  BY <1>1, <1>2, <1>3
<1>6. <<e, This(e)>> \in Dropped'
  BY <1>1, <1>3
<1>7. <<e, This(e)>> \notin Dropped
  BY <1>1, <1>2
<1>8. Dropped' = Dropped \cup {<<e, This(e)>>}
  BY <1>4, <1>5, <1>6
<1>9. IsFiniteSet(Dropped) /\ remaining + Cardinality(Dropped) = DropNext
      /\ (done <=> remaining = 0 /\ DropNext > 0) /\ remaining \in 0..DropNext /\ DropNext \in Nat
  BY NatsAssumption DEF DropsOK, Types
<1>10. IsFiniteSet(Dropped') /\ Cardinality(Dropped') = Cardinality(Dropped) + 1
  BY <1>7, <1>8, <1>9, FS_AddElement
<1>11. Cardinality(Dropped) \in Nat
  BY <1>9, FS_CardinalityType
<1>12. IsFiniteSet(Dropped)' /\ Cardinality(Dropped)' = Cardinality(Dropped) + 1
  BY <1>10
<1>13. remaining' + Cardinality(Dropped)' = DropNext
  BY <1>9, <1>11, <1>12
<1>14. done' <=> remaining' = 0 /\ DropNext > 0
  <2>1. remaining # 0 /\ DropNext > 0
    BY <1>9
  <2> QED  BY <1>9, <2>1, Zenon
<1> QED  BY <1>12, <1>13, <1>14 DEF DropsOK

\* What was captured is messages of threads.
LEMMA CapturedType ==
  ASSUME NEW s \in Seq(MessageType)
  PROVE  \A m \in ToSet(s) : m \in MessageType /\ m.from \in Endpoints
<1>1. \A i \in DOMAIN s : s[i] \in MessageType
  BY ElementOfSeq, LenProperties
<1>2. \A m \in MessageType : m.from \in Endpoints
  BY DEF MessageType
<1> QED  BY <1>1, <1>2, Zenon DEF ToSet

\* A step that captures nothing keeps what the capture list accounts for.
LEMMA EverKept ==
  ASSUME Types, EverOK, UNCHANGED ever,
         \A x \in Endpoints :
            \/ fate'[x] = fate[x] /\ (at[x] = "hooks" <=> at'[x] = "hooks")
            \/ \E how \in Fates :
                 /\ fate'[x] = Append(fate[x], how) /\ at'[x] # "hooks"
                 /\ IF at[x] = "hooks" THEN how # "raised"
                                       ELSE how \notin {"dropped", "drop_next", "hook_raised"}
  PROVE  EverOK'
<1>1. \A m \in ToSet(ever) : m \in MessageType /\ m.from \in Endpoints
  <2>1. ever \in Seq(MessageType)
    BY DEF Types
  <2> QED  BY <2>1, CapturedType
<1>2. IsInjective(ever')
  BY DEF EverOK
<1>3. ASSUME NEW m \in ToSet(ever), NEW e \in Endpoints, e = m.from
      PROVE  /\ m = Message(e, m.seq)
             /\ \/ m.seq \in DOMAIN fate'[e] /\ fate'[e][m.seq] # "raised"
                \/ m.seq = Len(fate'[e]) + 1 /\ at'[e] = "hooks"
  <2>1. /\ m = Message(e, m.seq)
        /\ \/ m.seq \in DOMAIN fate[e] /\ fate[e][m.seq] # "raised"
           \/ m.seq = Len(fate[e]) + 1 /\ at[e] = "hooks"
    BY <1>3 DEF EverOK, This
  <2>2. CASE fate'[e] = fate[e] /\ (at[e] = "hooks" <=> at'[e] = "hooks")
    BY <2>1, <2>2
  <2>3. ASSUME NEW how \in Fates, fate'[e] = Append(fate[e], how),
               IF at[e] = "hooks" THEN how # "raised"
                                  ELSE how \notin {"dropped", "drop_next", "hook_raised"}
        PROVE  m.seq \in DOMAIN fate'[e] /\ fate'[e][m.seq] # "raised"
    <3>1. /\ DOMAIN fate'[e] = DOMAIN fate[e] \cup {This(e)}
          /\ fate'[e][This(e)] = how /\ \A k \in DOMAIN fate[e] : fate'[e][k] = fate[e][k]
      BY <2>3, EndedFate
    <3> QED  BY <2>1, <2>3, <3>1 DEF This
  <2> QED  BY <2>1, <2>2, <2>3
<1>4. ASSUME NEW e \in Endpoints
      PROVE  /\ at'[e] = "hooks" => Message(e, Len(fate'[e]) + 1) \in ToSet(ever)
             /\ \A n \in DOMAIN fate'[e] :
                  fate'[e][n] \in {"dropped", "drop_next", "hook_raised"}
                    => Message(e, n) \in ToSet(ever)
  <2>1. /\ at[e] = "hooks" => Message(e, This(e)) \in ToSet(ever)
        /\ \A n \in DOMAIN fate[e] :
             fate[e][n] \in {"dropped", "drop_next", "hook_raised"} => Message(e, n) \in ToSet(ever)
    BY DEF EverOK
  <2>2. CASE fate'[e] = fate[e] /\ (at[e] = "hooks" <=> at'[e] = "hooks")
    BY <2>1, <2>2 DEF This
  <2>3. ASSUME NEW how \in Fates, fate'[e] = Append(fate[e], how), at'[e] # "hooks",
               IF at[e] = "hooks" THEN how # "raised"
                                  ELSE how \notin {"dropped", "drop_next", "hook_raised"}
        PROVE  \A n \in DOMAIN fate'[e] :
                 fate'[e][n] \in {"dropped", "drop_next", "hook_raised"}
                   => Message(e, n) \in ToSet(ever)
    <3>1. /\ DOMAIN fate'[e] = DOMAIN fate[e] \cup {This(e)}
          /\ fate'[e][This(e)] = how /\ \A k \in DOMAIN fate[e] : fate'[e][k] = fate[e][k]
      BY <2>3, EndedFate
    <3> QED  BY <2>1, <2>3, <3>1
  <2> QED  BY <2>2, <2>3
<1>5. ToSet(ever)' = ToSet(ever)
  BY DEF ToSet
<1>6. \A m \in ToSet(ever)' :
        LET e == m.from
        IN /\ m = Message(e, m.seq)
           /\ \/ m.seq \in DOMAIN fate'[e] /\ fate'[e][m.seq] # "raised"
              \/ m.seq = Len(fate'[e]) + 1 /\ at'[e] = "hooks"
  BY <1>1, <1>3, <1>5
<1>7. \A e \in Endpoints :
        /\ at'[e] = "hooks" => Message(e, Len(fate'[e]) + 1) \in ToSet(ever)'
        /\ \A n \in DOMAIN fate'[e] :
             fate'[e][n] \in {"dropped", "drop_next", "hook_raised"}
               => Message(e, n) \in ToSet(ever)'
  BY <1>4, <1>5
<1> QED  BY <1>2, <1>6, <1>7 DEF EverOK, This

\* A capture is of a message not captured before, and adds it as sent.
LEMMA EverGrows ==
  ASSUME Types, EverOK, RestOK, NEW e \in Endpoints, Capture(e), current[e] = Message(e, This(e)),
         Message(e, This(e)) \in MessageType
  PROVE  EverOK' /\ RestOK' /\ captured' \in Seq(MessageType) /\ ever' \in Seq(MessageType)
<1> DEFINE m == Message(e, This(e))
<1>1. /\ ever' = Append(ever, m) /\ captured' = Append(captured, m) /\ m \in MessageType
      /\ at' = [at EXCEPT ![e] = "hooks"] /\ fate' = fate /\ at[e] = "capture"
      /\ at \in [Endpoints -> Places]
      /\ ever \in Seq(MessageType) /\ captured \in Seq(MessageType) /\ Len(ever) \in Nat
  BY LenProperties DEF Capture, Types
<1>2. m.from = e /\ m.seq = This(e)
  BY DEF Message
<1>3. This(e) \notin DOMAIN fate[e]
  BY FateIsSeq DEF This
<1>4. m \notin ToSet(ever)
  BY <1>1, <1>2, <1>3 DEF EverOK
<1> HIDE DEF m
<1>5. /\ ever' \in Seq(MessageType) /\ captured' \in Seq(MessageType) /\ IsInjective(ever')
      /\ ToSet(ever') = ToSet(ever) \cup {m} /\ Len(ever') = Len(ever) + 1
  BY <1>1, <1>4, AppendSet DEF EverOK
<1>6. at'[e] = "hooks" /\ \A x \in Endpoints : at[x] = "hooks" => at'[x] = "hooks"
  BY <1>1
<1>7. \A x \in Endpoints \ {e} : at'[x] = at[x]
  BY <1>1
<1>8. \A k \in ToSet(ever') :
        LET x == k.from
        IN /\ k = Message(x, k.seq)
           /\ \/ k.seq \in DOMAIN fate'[x] /\ fate'[x][k.seq] # "raised"
              \/ k.seq = Len(fate'[x]) + 1 /\ at'[x] = "hooks"
  <2>1. \A k \in ToSet(ever) : k \in MessageType /\ k.from \in Endpoints
    BY <1>1, CapturedType
  <2>2. ASSUME NEW k \in ToSet(ever), NEW x \in Endpoints, x = k.from
        PROVE  /\ k = Message(x, k.seq)
               /\ \/ k.seq \in DOMAIN fate'[x] /\ fate'[x][k.seq] # "raised"
                  \/ k.seq = Len(fate'[x]) + 1 /\ at'[x] = "hooks"
    BY <1>1, <1>6, <2>2 DEF EverOK, This
  <2>3. m = Message(e, m.seq) /\ m.seq = Len(fate'[e]) + 1 /\ at'[e] = "hooks"
    BY <1>1, <1>2, <1>6 DEF This, m
  <2> QED  BY <1>2, <1>5, <2>1, <2>2, <2>3
<1>9. \A x \in Endpoints :
        /\ at'[x] = "hooks" => Message(x, Len(fate'[x]) + 1) \in ToSet(ever')
        /\ \A n \in DOMAIN fate'[x] :
             fate'[x][n] \in {"dropped", "drop_next", "hook_raised"}
               => Message(x, n) \in ToSet(ever')
  <2>1. Message(e, Len(fate'[e]) + 1) = m
    BY <1>1 DEF This, m
  <2> QED  BY <1>1, <1>5, <1>7, <2>1 DEF EverOK, This
<1>10. EverOK'
  BY <1>5, <1>8, <1>9 DEF EverOK, This
<1>11. RestOK'
  <2>1. PICK k \in 0..Len(ever) : captured = SubSeq(ever, k + 1, Len(ever))
    BY DEF RestOK
  <2>2. SubSeq(Append(ever, m), k + 1, Len(ever) + 1) = Append(SubSeq(ever, k + 1, Len(ever)), m)
    BY <1>1, GrownRest
  <2>3. captured' = SubSeq(ever', k + 1, Len(ever'))
    BY <1>1, <1>5, <2>1, <2>2
  <2>4. k \in 0..Len(ever')
    BY <1>1, <1>5
  <2> QED  BY <2>3, <2>4 DEF RestOK
<1> QED  BY <1>5, <1>10, <1>11
-----------------------------------------------------------------------------
(* The sends, step by step. *)

\* The empty sequence is one of any set, without elements.
LEMMA Empty == ASSUME NEW S PROVE <<>> \in Seq(S) /\ ToSet(<<>>) = {} /\ IsInjective(<<>>)
BY DEF ToSet, IsInjective

\* A step of one send leaves the others as they were.
LEMMA OneSender ==
  ASSUME Senders, HooksOK, NEW e \in Endpoints, Others(e), UNCHANGED <<hooks, retired>>,
         remaining = 0 => remaining' = 0,
         SendOK(e)', WindowOK(e)', IsInjective(pending'[e]),
         ToSet(pending'[e]) \subseteq ToSet(hooks) \cup retired
  PROVE  Senders' /\ HooksOK'
<1>1. ASSUME NEW x \in Endpoints \ {e}
      PROVE  SendOK(x)' /\ WindowOK(x)'
  <2>1. /\ at'[x] = at[x] /\ current'[x] = current[x] /\ pending'[x] = pending[x]
        /\ fate'[x] = fate[x] /\ whole'[x] = whole[x] /\ touched'[x] = touched[x]
    BY DEF Others
  <2>2. SendOK(x) /\ WindowOK(x)
    BY DEF Senders
  <2>3. SendOK(x)'
    BY <2>1, <2>2 DEF SendOK, This
  <2>4. WindowOK(x)'
    BY <2>1, <2>2 DEF WindowOK, Applied
  <2> QED  BY <2>3, <2>4
<1>2. HooksOK'
  BY DEF HooksOK, Others
<1> QED  BY <1>1, <1>2, Zenon DEF Senders

\* The end of a send keeps what is known of the senders and the hooks.
LEMMA EndStep ==
  ASSUME Types, Senders, HooksOK, NEW e \in Endpoints, NEW how \in Fates, at[e] # "idle",
         End(e, how), UNCHANGED <<hooks, retired>>, remaining = 0 => remaining' = 0
  PROVE  SendTypes' /\ Senders' /\ HooksOK' /\ Moves
<1>1. /\ SendTypes' /\ Others(e)
      /\ at'[e] = "idle" /\ current'[e] = NoMessage /\ pending'[e] = <<>>
      /\ whole'[e] = {} /\ touched'[e] = {} /\ fate'[e] = Append(fate[e], how)
  BY Ends
<1>2. Len(fate'[e]) = Len(fate[e]) + 1 /\ Len(fate[e]) \in Nat
  BY <1>1, EndedFate, FateIsSeq
<1>3. Len(fate[e]) < MaxSends[e] /\ MaxSends[e] \in Nat
  BY NatsAssumption DEF Senders, SendOK
<1>4. SendOK(e)'
  BY <1>1, <1>2, <1>3 DEF SendOK
<1>5. WindowOK(e)'
  BY <1>1, Empty DEF WindowOK
<1>6. Senders' /\ HooksOK'
  BY <1>1, <1>4, <1>5, Empty, OneSender
<1>7. Moves
  BY <1>1 DEF Moves, Kept, Ended, Others
<1> QED  BY <1>1, <1>6, <1>7

\* The hook that was run has done what Applied says of it.
LEMMA PassStep ==
  ASSUME Types, Senders, HooksOK, NEW e \in Endpoints, NEW h, NEW m \in MessageType,
         Runs(e, h), Passed(e, m), UNCHANGED <<hooks, retired, remaining>>,
         m.from = e, m.seq = This(e), m.via = "send",
         m.altered => current[e].altered \/ h = "modify", current[e].altered => m.altered,
         h = "duplicate" \/ (h = "modify" /\ m.altered) \/ (h = "drop_next" /\ remaining = 0)
  PROVE  SendTypes' /\ Senders' /\ HooksOK' /\ Moves /\ UNCHANGED <<at, fate>>
<1>1. /\ SendTypes' /\ Others(e)
      /\ at'[e] = at[e] /\ current'[e] = m /\ pending'[e] = Tail(pending[e])
      /\ whole'[e] = whole[e] /\ touched'[e] = touched[e] /\ fate'[e] = fate[e]
      /\ UNCHANGED <<at, fate>>
  BY Passes DEF Runs, Passed
<1>2. at[e] = "hooks" /\ pending[e] # <<>> /\ Head(pending[e]) = h /\ pending[e] \in Seq(Hooks)
  BY DEF Runs, Types
<1>3. /\ ToSet(pending[e]) = {h} \cup ToSet(pending'[e])
      /\ IsInjective(pending[e]) => IsInjective(pending'[e])
  BY <1>1, <1>2, TailSet
<1>4. SendOK(e) /\ WindowOK(e)
  BY DEF Senders
<1>5. h \in touched[e]
  BY <1>3, <1>4 DEF WindowOK
<1>6. SendOK(e)'
  <2>1. /\ Len(fate[e]) < MaxSends[e]
        /\ current[e].altered => "modify" \in touched[e]
    <3>1. at[e] # "idle" /\ at[e] = "hooks"
      BY <1>2
    <3> QED  BY <1>4, <3>1, Zenon DEF SendOK
  <2>2. m.altered => "modify" \in touched'[e]
    BY <1>1, <1>5, <2>1, Zenon
  <2>3. m.seq = Len(fate'[e]) + 1 /\ Len(fate'[e]) < MaxSends[e]
    BY <1>1, <2>1 DEF This
  <2> QED  BY <1>1, <1>2, <2>2, <2>3 DEF SendOK, This
<1>7. WindowOK(e)'
  <2>1. \A k \in whole[e] : k \in ToSet(pending[e]) \/ Applied(e, k)
    BY <1>2, <1>4 DEF WindowOK
  <2>2. \A k \in whole[e] : k \in ToSet(pending'[e]) \/ Applied(e, k)'
    BY <1>1, <1>3, <2>1 DEF Applied
  <2> QED  BY <1>1, <1>2, <1>3, <1>4, <2>2 DEF WindowOK
<1>8. Senders' /\ HooksOK'
  BY <1>1, <1>3, <1>6, <1>7, OneSender DEF HooksOK
<1>9. Moves
  BY <1>1, <1>3, <1>2 DEF Moves, Kept, Others
<1> QED  BY <1>1, <1>8, <1>9

\* So does the entry of a send.
LEMMA SendStep ==
  ASSUME Types, Senders, HooksOK, NEW e \in Endpoints, Send(e)
  PROVE  SendTypes' /\ Senders' /\ HooksOK' /\ Moves
         /\ \A x \in Endpoints : fate'[x] = fate[x] /\ (at[x] = "hooks" <=> at'[x] = "hooks")
<1> DEFINE m == Message(e, This(e))
<1>1. /\ at[e] = "idle" /\ Len(fate[e]) < MaxSends[e]
      /\ current' = [current EXCEPT ![e] = m]
      /\ \E p \in {"checked", "put"} : at' = [at EXCEPT ![e] = p]
      /\ whole' = [whole EXCEPT ![e] = ToSet(hooks)]
      /\ touched' = [touched EXCEPT ![e] = ToSet(hooks)]
      /\ UNCHANGED <<hooks, retired, remaining, pending, fate>>
  BY Zenon DEF Send, attackerVars, This
<1>2. /\ at \in [Endpoints -> Places] /\ current \in [Endpoints -> MessageType \cup {NoMessage}]
      /\ pending \in [Endpoints -> Seq(Hooks)] /\ fate \in [Endpoints -> Seq(Fates)]
      /\ whole \in [Endpoints -> SUBSET Hooks] /\ touched \in [Endpoints -> SUBSET Hooks]
      /\ hooks \in Seq(Hooks)
  BY DEF Types
<1>3. m \in MessageType
  BY FateIsSeq DEF Message, MessageType
<1>4. ToSet(hooks) \subseteq Hooks
  BY <1>2, ElementOfSeq, LenProperties DEF ToSet
<1> HIDE DEF m
<1>5. PICK p \in {"checked", "put"} : at' = [at EXCEPT ![e] = p]
  BY <1>1
<1>6. /\ at' \in [Endpoints -> Places] /\ at'[e] = p
      /\ \A x \in Endpoints \ {e} : at'[x] = at[x]
  BY <1>2, <1>5 DEF Places
<1>7. /\ current' \in [Endpoints -> MessageType \cup {NoMessage}] /\ current'[e] = m
      /\ \A x \in Endpoints \ {e} : current'[x] = current[x]
  BY <1>1, <1>2, <1>3
<1>8. /\ whole' \in [Endpoints -> SUBSET Hooks] /\ whole'[e] = ToSet(hooks)
      /\ touched' \in [Endpoints -> SUBSET Hooks] /\ touched'[e] = ToSet(hooks)
      /\ \A x \in Endpoints \ {e} : whole'[x] = whole[x] /\ touched'[x] = touched[x]
  BY <1>1, <1>2, <1>4
<1>9. Others(e) /\ SendTypes'
  BY <1>1, <1>2, <1>6, <1>7, <1>8 DEF Others, SendTypes
<1>10. pending[e] = <<>>
  BY <1>1 DEF Senders, SendOK
<1>11. SendOK(e)'
  BY <1>1, <1>6, <1>7, <1>10 DEF SendOK, This, m
<1>12. WindowOK(e)'
  BY <1>1, <1>6, <1>8, <1>10, Empty DEF WindowOK
<1>13. Senders' /\ HooksOK'
  BY <1>1, <1>9, <1>10, <1>11, <1>12, Empty, OneSender
<1>14. \A x \in Endpoints : fate'[x] = fate[x] /\ (at[x] = "hooks" <=> at'[x] = "hooks")
  BY <1>1, <1>6
<1>15. Moves
  BY <1>1, <1>14 DEF Moves, Kept
<1> QED  BY <1>9, <1>13, <1>14, <1>15

\* So does the second reading of _attacker.
LEMMA CallProcessStep ==
  ASSUME Types, Senders, HooksOK, NEW e \in Endpoints, CallProcess(e)
  PROVE  SendTypes' /\ Senders' /\ HooksOK' /\ Moves
         /\ \A x \in Endpoints : fate'[x] = fate[x] /\ (at[x] = "hooks" <=> at'[x] = "hooks")
<1>1. /\ at[e] = "checked" /\ at' = [at EXCEPT ![e] = "process"]
      /\ UNCHANGED <<hooks, retired, remaining, current, pending, fate, whole, touched>>
  BY DEF CallProcess, attackerVars, history
<1>2. /\ at \in [Endpoints -> Places] /\ current \in [Endpoints -> MessageType \cup {NoMessage}]
      /\ pending \in [Endpoints -> Seq(Hooks)] /\ fate \in [Endpoints -> Seq(Fates)]
      /\ whole \in [Endpoints -> SUBSET Hooks] /\ touched \in [Endpoints -> SUBSET Hooks]
  BY DEF Types
<1>3. /\ at' \in [Endpoints -> Places] /\ at'[e] = "process"
      /\ \A x \in Endpoints \ {e} : at'[x] = at[x]
  BY <1>1, <1>2 DEF Places
<1>4. Others(e) /\ SendTypes'
  BY <1>1, <1>2, <1>3 DEF Others, SendTypes
<1>5. SendOK(e) /\ WindowOK(e)
  BY DEF Senders
<1>6. SendOK(e)'
  BY <1>1, <1>3, <1>5 DEF SendOK, This
<1>7. WindowOK(e)'
  BY <1>1, <1>3, <1>5 DEF WindowOK
<1>8. Senders' /\ HooksOK'
  BY <1>1, <1>4, <1>6, <1>7, OneSender DEF HooksOK
<1>9. \A x \in Endpoints : fate'[x] = fate[x] /\ (at[x] = "hooks" <=> at'[x] = "hooks")
  BY <1>1, <1>3
<1>10. Moves
  BY <1>1, <1>3, <1>9 DEF Moves, Kept
<1> QED  BY <1>4, <1>8, <1>9, <1>10

\* So does the copy of the list of hooks.
LEMMA SnapshotStep ==
  ASSUME Types, Senders, HooksOK, NEW e \in Endpoints, Snapshot(e)
  PROVE  SendTypes' /\ Senders' /\ HooksOK' /\ Moves
         /\ \A x \in Endpoints : fate'[x] = fate[x] /\ (at[x] = "hooks" <=> at'[x] = "hooks")
<1>1. /\ at[e] = "process" /\ at' = [at EXCEPT ![e] = "capture"]
      /\ pending' = [pending EXCEPT ![e] = hooks]
      /\ UNCHANGED <<hooks, retired, remaining, current, fate, whole, touched>>
  BY DEF Snapshot, attackerVars, history
<1>2. /\ at \in [Endpoints -> Places] /\ current \in [Endpoints -> MessageType \cup {NoMessage}]
      /\ pending \in [Endpoints -> Seq(Hooks)] /\ fate \in [Endpoints -> Seq(Fates)]
      /\ whole \in [Endpoints -> SUBSET Hooks] /\ touched \in [Endpoints -> SUBSET Hooks]
      /\ hooks \in Seq(Hooks)
  BY DEF Types
<1>3. /\ at' \in [Endpoints -> Places] /\ at'[e] = "capture"
      /\ \A x \in Endpoints \ {e} : at'[x] = at[x]
  BY <1>1, <1>2 DEF Places
<1>4. /\ pending' \in [Endpoints -> Seq(Hooks)] /\ pending'[e] = hooks
      /\ \A x \in Endpoints \ {e} : pending'[x] = pending[x]
  BY <1>1, <1>2, Zenon
<1>5. Others(e) /\ SendTypes'
  BY <1>1, <1>2, <1>3, <1>4 DEF Others, SendTypes
<1>6. SendOK(e) /\ WindowOK(e)
  BY DEF Senders
<1>7. SendOK(e)'
  BY <1>1, <1>3, <1>6 DEF SendOK, This
<1>8. WindowOK(e)'
  BY <1>1, <1>3, <1>4, <1>6 DEF WindowOK
<1>9. Senders' /\ HooksOK'
  BY <1>1, <1>4, <1>5, <1>7, <1>8, OneSender DEF HooksOK
<1>10. \A x \in Endpoints : fate'[x] = fate[x] /\ (at[x] = "hooks" <=> at'[x] = "hooks")
  BY <1>1, <1>3
<1>11. Moves
  BY <1>1, <1>3, <1>4, <1>10 DEF Moves, Kept
<1> QED  BY <1>5, <1>9, <1>10, <1>11

\* So does a capture.
LEMMA CaptureStep ==
  ASSUME Types, Senders, HooksOK, NEW e \in Endpoints, Capture(e)
  PROVE  SendTypes' /\ Senders' /\ HooksOK' /\ Moves /\ fate' = fate
<1>1. /\ at[e] = "capture" /\ at' = [at EXCEPT ![e] = "hooks"]
      /\ UNCHANGED <<hooks, retired, remaining, current, pending, fate, whole, touched>>
  BY DEF Capture, attackerVars, history
<1>2. /\ at \in [Endpoints -> Places] /\ current \in [Endpoints -> MessageType \cup {NoMessage}]
      /\ pending \in [Endpoints -> Seq(Hooks)] /\ fate \in [Endpoints -> Seq(Fates)]
      /\ whole \in [Endpoints -> SUBSET Hooks] /\ touched \in [Endpoints -> SUBSET Hooks]
  BY DEF Types
<1>3. /\ at' \in [Endpoints -> Places] /\ at'[e] = "hooks"
      /\ \A x \in Endpoints \ {e} : at'[x] = at[x]
  BY <1>1, <1>2 DEF Places
<1>4. Others(e) /\ SendTypes'
  BY <1>1, <1>2, <1>3 DEF Others, SendTypes
<1>5. SendOK(e) /\ WindowOK(e)
  BY DEF Senders
<1>6. SendOK(e)'
  <2>1. /\ current[e] = Message(e, This(e)) /\ Len(fate[e]) < MaxSends[e]
        /\ This(e) \in Nat \ {0}
    BY <1>1, <1>5, FateIsSeq DEF SendOK
  <2>2. /\ current[e] \in MessageType /\ current[e].from = e /\ current[e].seq = This(e)
        /\ current[e].via = "send" /\ current[e].altered = FALSE
    BY <2>1 DEF Message, MessageType
  <2> QED  BY <1>1, <1>3, <2>1, <2>2 DEF SendOK, This
<1>7. WindowOK(e)'
  BY <1>1, <1>3, <1>5 DEF WindowOK
<1>8. Senders' /\ HooksOK'
  BY <1>1, <1>4, <1>6, <1>7, OneSender DEF HooksOK
<1>9. Moves
  BY <1>1, <1>3 DEF Moves, Kept
<1> QED  BY <1>1, <1>4, <1>8, <1>9

\* Steps that no send notices.
LEMMA AsideStep ==
  ASSUME Types, Senders, HooksOK, UNCHANGED <<sendVars, history, hooks, retired, remaining>>
  PROVE  SendTypes' /\ Senders' /\ HooksOK' /\ Moves /\ UNCHANGED <<at, fate>>
<1>1. UNCHANGED <<at, current, pending, fate, whole, touched>>
  BY DEF sendVars, history
<1>2. SendTypes'
  BY <1>1 DEF SendTypes, Types
<1>3. \A x \in Endpoints : SendOK(x)'
  BY <1>1 DEF Senders, SendOK, This
<1>4. \A x \in Endpoints : WindowOK(x)'
  BY <1>1 DEF Senders, WindowOK, Applied
<1>5. HooksOK'
  BY <1>1 DEF HooksOK
<1>6. Moves
  BY <1>1 DEF Moves, Kept
<1> QED  BY <1>1, <1>2, <1>3, <1>4, <1>5, <1>6, Zenon DEF Senders

\* So does the registration of a hook.
LEMMA AddStep ==
  ASSUME Types, Senders, HooksOK, NEW h \in Hooks, AddHook(h)
  PROVE  SendTypes' /\ Senders' /\ HooksOK' /\ Moves /\ hooks' \in Seq(Hooks)
         /\ UNCHANGED <<at, fate>>
<1>1. /\ h \notin ToSet(hooks) \cup retired /\ hooks' = Append(hooks, h)
      /\ touched' = [e \in Endpoints |-> IF at[e] = "idle" THEN {} ELSE touched[e] \cup {h}]
      /\ UNCHANGED <<retired, remaining, at, current, pending, fate, whole>>
  BY DEF AddHook, sendVars
<1>2. /\ at \in [Endpoints -> Places] /\ current \in [Endpoints -> MessageType \cup {NoMessage}]
      /\ pending \in [Endpoints -> Seq(Hooks)] /\ fate \in [Endpoints -> Seq(Fates)]
      /\ whole \in [Endpoints -> SUBSET Hooks] /\ touched \in [Endpoints -> SUBSET Hooks]
      /\ hooks \in Seq(Hooks)
  BY DEF Types
<1>3. /\ hooks' \in Seq(Hooks) /\ IsInjective(hooks') /\ ToSet(hooks') = ToSet(hooks) \cup {h}
  BY <1>1, <1>2, AppendSet DEF HooksOK
<1>4. /\ touched' \in [Endpoints -> SUBSET Hooks]
      /\ \A e \in Endpoints : at[e] # "idle" => touched'[e] = touched[e] \cup {h}
  BY <1>1, <1>2
<1>5. SendTypes'
  BY <1>1, <1>2, <1>4 DEF SendTypes
<1>6. ASSUME NEW e \in Endpoints
      PROVE  SendOK(e)' /\ WindowOK(e)'
  <2>1. SendOK(e) /\ WindowOK(e)
    BY DEF Senders
  <2>2. CASE at[e] = "idle"
    <3>1. pending[e] = <<>>
      BY <2>1, <2>2 DEF SendOK
    <3>2. SendOK(e)'
      BY <1>1, <2>1, <2>2 DEF SendOK, This
    <3> QED  BY <1>1, <2>2, <3>1, <3>2, Empty DEF WindowOK
  <2>3. CASE at[e] # "idle"
    <3>1. touched'[e] = touched[e] \cup {h}
      BY <1>4, <2>3
    <3>2. SendOK(e)'
      BY <1>1, <2>1, <3>1 DEF SendOK, This
    <3>3. WindowOK(e)'
      BY <1>1, <1>3, <2>1, <3>1 DEF WindowOK, Applied
    <3> QED  BY <3>2, <3>3
  <2> QED  BY <2>2, <2>3
<1>7. HooksOK'
  BY <1>1, <1>3 DEF HooksOK
<1>8. Moves
  BY <1>1 DEF Moves, Kept
<1> QED  BY <1>1, <1>3, <1>5, <1>6, <1>7, <1>8, Zenon DEF Senders

\* So does the removal of a hook.
LEMMA RemoveStep ==
  ASSUME Types, Senders, HooksOK, NEW h \in Hooks, RemoveHook(h)
  PROVE  SendTypes' /\ Senders' /\ HooksOK' /\ Moves /\ hooks' \in Seq(Hooks)
         /\ retired' \in SUBSET Hooks /\ UNCHANGED <<at, fate>>
<1>1. /\ \E i \in DOMAIN hooks : hooks[i] = h /\ hooks' = RemoveAt(hooks, i)
      /\ retired' = retired \cup {h} /\ whole' = [e \in Endpoints |-> whole[e] \ {h}]
      /\ UNCHANGED <<remaining, at, current, pending, fate, touched>>
  BY DEF RemoveHook, sendVars
<1>2. /\ at \in [Endpoints -> Places] /\ current \in [Endpoints -> MessageType \cup {NoMessage}]
      /\ pending \in [Endpoints -> Seq(Hooks)] /\ fate \in [Endpoints -> Seq(Fates)]
      /\ whole \in [Endpoints -> SUBSET Hooks] /\ touched \in [Endpoints -> SUBSET Hooks]
      /\ hooks \in Seq(Hooks) /\ retired \in SUBSET Hooks
  BY DEF Types
<1>3. PICK i \in DOMAIN hooks : hooks[i] = h /\ hooks' = RemoveAt(hooks, i)
  BY <1>1
<1>4. hooks' \in Seq(Hooks) /\ IsInjective(hooks') /\ ToSet(hooks') = ToSet(hooks) \ {h}
  BY <1>2, <1>3, RemovedSet DEF HooksOK
<1>5. whole' \in [Endpoints -> SUBSET Hooks] /\ \A e \in Endpoints : whole'[e] = whole[e] \ {h}
  BY <1>1, <1>2
<1>6. SendTypes'
  BY <1>1, <1>2, <1>5 DEF SendTypes
<1>7. ASSUME NEW e \in Endpoints
      PROVE  SendOK(e)' /\ WindowOK(e)'
  <2>1. SendOK(e) /\ WindowOK(e)
    BY DEF Senders
  <2>2. SendOK(e)'
    BY <1>1, <2>1 DEF SendOK, This
  <2>3. WindowOK(e)'
    BY <1>1, <1>4, <1>5, <2>1 DEF WindowOK, Applied
  <2> QED  BY <2>2, <2>3
<1>8. HooksOK'
  BY <1>1, <1>4 DEF HooksOK
<1>9. Moves
  BY <1>1 DEF Moves, Kept
<1> QED  BY <1>1, <1>2, <1>4, <1>6, <1>7, <1>8, <1>9, Zenon DEF Senders
-----------------------------------------------------------------------------
(* The messages put. *)

\* What may be behind the log of a recipient: everything its senders' sends
\* put there before.
LEMMA OriginalFits ==
  ASSUME Types, Senders, LogOK, NEW e \in Endpoints, NEW m \in MessageType,
         m.from = e, m.seq = This(e), m.via = "send", fate'[e] = Append(fate[e], "delivered")
  PROVE  Fits(Dest[e], m)
<1>1. This(e) \in Nat /\ DOMAIN fate[e] = 1..Len(fate[e]) /\ Len(fate[e]) \in Nat
  BY FateIsSeq
<1>2. Dest[e] \in Endpoints
  BY DestAssumption
<1>3. PlaceOK(Dest[e], m)'
  <2>1. This(e) \in DOMAIN fate'[e] /\ fate'[e][This(e)] = "delivered"
    BY EndedFate DEF Fates
  <2> QED  BY <2>1 DEF PlaceOK
<1>4. ASSUME NEW n \in ToSet(Log(Dest[e])), n.via # "replay", n.from = e
      PROVE  n.seq <= m.seq /\ ~Same(n, m)
  <2>1. PlaceOK(Dest[e], n) /\ n \in MessageType
    BY <1>2, <1>4, LogIsSeq DEF LogOK, ToSet
  <2>2. n.via \in {"send", "duplicate"} /\ n.seq \in Nat
    BY <1>4, <2>1 DEF MessageType
  <2>3. CASE n.via = "send"
    BY <1>1, <1>4, <2>1, <2>2, <2>3 DEF PlaceOK, This, Same
  <2>4. CASE n.via = "duplicate"
    BY <1>1, <1>4, <2>1, <2>2, <2>4 DEF PlaceOK, This, Same
  <2> QED  BY <2>2, <2>3, <2>4
<1> QED  BY <1>3, <1>4 DEF Fits

\* A duplicate fits behind everything its sender sent before.
LEMMA CopyFits ==
  ASSUME Types, Senders, HooksOK, LogOK, NEW e \in Endpoints, NEW m \in MessageType,
         m.from = e, m.seq = This(e), m.via = "duplicate", Runs(e, "duplicate"),
         fate' = fate, at' = at, pending'[e] = Tail(pending[e])
  PROVE  Fits(Dest[e], m)
<1>1. This(e) \in Nat /\ DOMAIN fate[e] = 1..Len(fate[e]) /\ Len(fate[e]) \in Nat
  BY FateIsSeq
<1>2. Dest[e] \in Endpoints
  BY DestAssumption
<1>3. /\ at[e] = "hooks" /\ pending[e] \in Seq(Hooks) /\ pending[e] # <<>>
      /\ Head(pending[e]) = "duplicate" /\ IsInjective(pending[e])
  BY DEF Runs, Types, HooksOK
<1>4. "duplicate" \in ToSet(pending[e]) /\ "duplicate" \notin ToSet(pending'[e])
  BY <1>3, TailSet
<1>5. PlaceOK(Dest[e], m)'
  BY <1>3, <1>4 DEF PlaceOK, This
<1>6. ASSUME NEW n \in ToSet(Log(Dest[e])), n.via # "replay", n.from = e
      PROVE  n.seq <= m.seq /\ ~Same(n, m)
  <2>1. PlaceOK(Dest[e], n) /\ n \in MessageType
    BY <1>2, <1>6, LogIsSeq DEF LogOK, ToSet
  <2>2. n.via \in {"send", "duplicate"} /\ n.seq \in Nat
    BY <1>6, <2>1 DEF MessageType
  <2>3. n.seq \in DOMAIN fate[e]
    BY <1>4, <1>6, <2>1, <2>2 DEF PlaceOK
  <2> QED  BY <1>1, <2>3 DEF This, Same
<1> QED  BY <1>5, <1>6 DEF Fits

\* A log that grows at its end has what it had.
LEMMA PutKeeps ==
  ASSUME Types, NEW to \in Endpoints, NEW m \in MessageType, Log(to)' = Append(Log(to), m),
         \A d \in Endpoints \ {to} : Log(d)' = Log(d)
  PROVE  /\ \A d \in Endpoints : \A i \in DOMAIN Log(d) :
              i \in DOMAIN Log(d)' /\ Log(d)'[i] = Log(d)[i]
         /\ \E i \in DOMAIN Log(to)' : Log(to)'[i] = m
<1>1. Log(to) \in Seq(MessageType)
  BY LogIsSeq
<1>2. /\ DOMAIN Log(to)' = DOMAIN Log(to) \cup {Len(Log(to)) + 1}
      /\ \A i \in DOMAIN Log(to) : Log(to)'[i] = Log(to)[i]
      /\ Log(to)'[Len(Log(to)) + 1] = m
  BY <1>1, AppendSet
<1> QED  BY <1>2
-----------------------------------------------------------------------------
(* The invariant, step by step. *)

\* Untouched queues keep their logs.
LEMMA LogsStay ==
  ASSUME UNCHANGED <<queue, received>>
  PROVE  /\ \A d \in Endpoints : Log(d)' = Log(d)
         /\ \A d \in Endpoints : \A i \in DOMAIN Log(d) :
              i \in DOMAIN Log(d)' /\ Log(d)'[i] = Log(d)[i]
<1>1. \A d \in Endpoints : Log(d)' = Log(d)
  BY Zenon DEF Log
<1> QED  BY <1>1

\* A send that ends without having put its message.
LEMMA EndInv ==
  ASSUME SimInv, NEW e \in Endpoints, NEW how \in Fates \ {"delivered"}, at[e] # "idle",
         End(e, how), UNCHANGED <<attackerVars, captures, queue, received>>,
         IF at[e] = "hooks" THEN how # "raised" ELSE how = "raised",
         remaining' \in 0..DropNext, done' \in BOOLEAN, remaining = 0 => remaining' = 0, DropsOK'
  PROVE  SimInv'
<1>1. Types /\ Senders /\ HooksOK /\ LogOK /\ DeliveredOK /\ EverOK /\ RestOK
  BY DEF SimInv
<1>2. SendTypes' /\ Senders' /\ HooksOK' /\ Moves
  BY <1>1, EndStep DEF attackerVars
<1>3. /\ at'[e] = "idle" /\ fate'[e] = Append(fate[e], how)
      /\ \A x \in Endpoints \ {e} : fate'[x] = fate[x] /\ at'[x] = at[x]
  BY <1>1, Ends DEF Others
<1>4. Types'
  BY <1>1, <1>2, Zenon DEF Types, SendTypes, attackerVars, captures
<1>5. LogOK'
  BY <1>1, <1>2, LogsStay, LogSame
<1>6. DeliveredOK'
  BY <1>1, <1>3, LogsStay, DeliveredKept
<1>7. EverOK'
  BY <1>1, <1>3, EverKept DEF captures
<1>8. RestOK'
  BY <1>1 DEF RestOK, captures
<1> QED  BY <1>2, <1>4, <1>5, <1>6, <1>7, <1>8 DEF SimInv

\* A send that goes on without having put anything.
LEMMA GoOnInv ==
  ASSUME SimInv, SendTypes', Senders', HooksOK', Moves,
         UNCHANGED <<attackerVars, captures, queue, received, remaining, done>>,
         \A x \in Endpoints : fate'[x] = fate[x] /\ (at[x] = "hooks" <=> at'[x] = "hooks")
  PROVE  SimInv'
<1>1. Types /\ LogOK /\ DeliveredOK /\ DropsOK /\ EverOK /\ RestOK
  BY DEF SimInv
<1>2. Types'
  BY <1>1, Zenon DEF Types, SendTypes, attackerVars, captures
<1>3. LogOK'
  BY <1>1, LogsStay, LogSame
<1>4. DeliveredOK'
  BY <1>1, LogsStay, DeliveredKept
<1>5. DropsOK'
  BY <1>1, DropsSame
<1>6. EverOK'
  BY <1>1, EverKept DEF captures
<1>7. RestOK'
  BY <1>1 DEF RestOK, captures
<1> QED  BY <1>2, <1>3, <1>4, <1>5, <1>6, <1>7 DEF SimInv

\* The message that a send has among the hooks.
LEMMA Carried ==
  ASSUME Types, Senders, NEW e \in Endpoints, at[e] \in {"hooks", "put"}
  PROVE  /\ current[e] \in MessageType /\ current[e].from = e /\ current[e].seq = This(e)
         /\ current[e].via = "send"
<1>1. CASE at[e] = "hooks"
  BY <1>1 DEF Senders, SendOK
<1>2. CASE at[e] = "put"
  <2>1. current[e] = Message(e, This(e)) /\ This(e) \in Nat \ {0}
    BY <1>2, FateIsSeq DEF Senders, SendOK
  <2> QED  BY <2>1 DEF Message, MessageType
<1> QED  BY <1>1, <1>2

\* The steps of a send keep the invariant, those that put aside.
LEMMA NextSends ==
  ASSUME SimInv, NEW e \in Endpoints,
         \/ Send(e) \/ CallProcess(e) \/ Detached(e) \/ Snapshot(e) \/ Capture(e) \/ DropHook(e)
         \/ DropNextHook(e) \/ ModifyHook(e)
  PROVE  SimInv'
<1>1. Types /\ Senders /\ HooksOK /\ LogOK /\ DeliveredOK /\ DropsOK /\ EverOK /\ RestOK
  BY DEF SimInv
<1>2. CASE Send(e)
  <2>1. /\ SendTypes' /\ Senders' /\ HooksOK' /\ Moves
        /\ \A x \in Endpoints : fate'[x] = fate[x] /\ (at[x] = "hooks" <=> at'[x] = "hooks")
    BY <1>1, <1>2, SendStep
  <2>2. UNCHANGED <<attackerVars, captures, queue, received, remaining, done>>
    BY <1>2 DEF Send
  <2> QED  BY <2>1, <2>2, GoOnInv
<1>3. CASE Snapshot(e)
  <2>1. /\ SendTypes' /\ Senders' /\ HooksOK' /\ Moves
        /\ \A x \in Endpoints : fate'[x] = fate[x] /\ (at[x] = "hooks" <=> at'[x] = "hooks")
    BY <1>1, <1>3, SnapshotStep
  <2>2. UNCHANGED <<attackerVars, captures, queue, received, remaining, done>>
    BY <1>3 DEF Snapshot
  <2> QED  BY <2>1, <2>2, GoOnInv
<1>4. CASE Capture(e)
  <2>1. SendTypes' /\ Senders' /\ HooksOK' /\ Moves /\ fate' = fate
    BY <1>1, <1>4, CaptureStep
  <2>2. UNCHANGED <<attackerVars, queue, received, remaining, done>> /\ at[e] = "capture"
    BY <1>4 DEF Capture
  <2>3. current[e] = Message(e, This(e)) /\ Message(e, This(e)) \in MessageType
    <3>1. current[e] = Message(e, This(e)) /\ This(e) \in Nat \ {0}
      BY <1>1, <2>2, FateIsSeq DEF Senders, SendOK
    <3> QED  BY <3>1 DEF Message, MessageType
  <2>4. EverOK' /\ RestOK' /\ captured' \in Seq(MessageType) /\ ever' \in Seq(MessageType)
    BY <1>1, <1>4, <2>3, EverGrows
  <2>5. Types'
    BY <1>1, <2>1, <2>2, <2>4, Zenon DEF Types, SendTypes, attackerVars
  <2>6. LogOK'
    BY <1>1, <2>1, <2>2, LogsStay, LogSame
  <2>7. DeliveredOK'
    BY <1>1, <2>1, <2>2, LogsStay, DeliveredKept
  <2>8. DropsOK'
    BY <1>1, <2>1, <2>2, DropsSame
  <2> QED  BY <2>1, <2>4, <2>5, <2>6, <2>7, <2>8 DEF SimInv
<1>5. CASE Detached(e)
  <2>1. /\ at[e] = "checked" /\ End(e, "raised") /\ "raised" \in Fates \ {"delivered"}
        /\ UNCHANGED <<attackerVars, captures, queue, received, remaining, done>>
    BY <1>5 DEF Detached, Fates
  <2>2. remaining' \in 0..DropNext /\ done' \in BOOLEAN
    BY <1>1, <2>1 DEF Types
  <2>3. DropsOK'
    BY <1>1, <2>1, Ends, DropsSame DEF Others
  <2> QED  BY <2>1, <2>2, <2>3, EndInv
<1>6. CASE DropHook(e)
  <2>1. /\ at[e] = "hooks" /\ End(e, "dropped") /\ "dropped" \in Fates \ {"delivered", "raised"}
        /\ UNCHANGED <<attackerVars, captures, queue, received, remaining, done>>
    BY <1>6 DEF DropHook, Runs, Fates
  <2>2. remaining' \in 0..DropNext /\ done' \in BOOLEAN
    BY <1>1, <2>1 DEF Types
  <2>3. DropsOK'
    BY <1>1, <2>1, Ends, DropsSame DEF Others
  <2> QED  BY <2>1, <2>2, <2>3, EndInv
<1>7. CASE DropNextHook(e)
  <2>1. /\ at[e] = "hooks" /\ "drop_next" \in Fates \ {"delivered", "raised"}
        /\ UNCHANGED <<attackerVars, captures, queue, received>> /\ Runs(e, "drop_next")
    BY <1>7 DEF DropNextHook, Runs, Fates
  <2>2. CASE /\ remaining > 0 /\ remaining' = remaining - 1
             /\ done' = (done \/ remaining' = 0) /\ End(e, "drop_next")
    <3>1. remaining' \in 0..DropNext /\ (remaining = 0 => remaining' = 0)
      BY <1>1, <2>2, NatsAssumption DEF Types
    <3>2. done' \in BOOLEAN
      BY <1>1, <2>2 DEF Types
    <3>3. DropsOK'
      BY <1>1, <2>1, <2>2, Ends, DropsOne DEF Others
    <3> QED  BY <2>1, <2>2, <3>1, <3>2, <3>3, EndInv
  <2>3. CASE remaining = 0 /\ Passed(e, current[e]) /\ UNCHANGED <<remaining, done>>
    <3>1. SendTypes' /\ Senders' /\ HooksOK' /\ Moves /\ UNCHANGED <<at, fate>>
      BY <1>1, <2>1, <2>3, Carried, PassStep DEF attackerVars
    <3> QED  BY <2>1, <2>3, <3>1, GoOnInv
  <2> QED  BY <1>7, <2>2, <2>3 DEF DropNextHook
<1>8. CASE ModifyHook(e)
  <2>1. /\ at[e] = "hooks" /\ "hook_raised" \in Fates \ {"delivered", "raised"}
        /\ UNCHANGED <<attackerVars, captures, queue, received, remaining, done>>
        /\ Runs(e, "modify")
    BY <1>8 DEF ModifyHook, Runs, Fates
  <2>2. CASE End(e, "hook_raised")
    <3>1. remaining' \in 0..DropNext /\ done' \in BOOLEAN
      BY <1>1, <2>1 DEF Types
    <3>2. DropsOK'
      BY <1>1, <2>1, <2>2, Ends, DropsSame DEF Others
    <3> QED  BY <2>1, <2>2, <3>1, <3>2, EndInv
  <2>3. CASE Passed(e, [current[e] EXCEPT !.altered = TRUE])
    <3> DEFINE m == [current[e] EXCEPT !.altered = TRUE]
    <3>1. /\ m \in MessageType /\ m.from = e /\ m.seq = This(e) /\ m.via = "send"
          /\ m.altered = TRUE
      BY <1>1, <2>1, Carried DEF MessageType
    <3> HIDE DEF m
    <3>2. Passed(e, m)
      BY <2>3 DEF m
    <3>3. SendTypes' /\ Senders' /\ HooksOK' /\ Moves /\ UNCHANGED <<at, fate>>
      BY <1>1, <2>1, <3>1, <3>2, PassStep DEF attackerVars
    <3> QED  BY <2>1, <3>3, GoOnInv
  <2> QED  BY <1>8, <2>2, <2>3 DEF ModifyHook
<1>9. CASE CallProcess(e)
  <2>1. /\ SendTypes' /\ Senders' /\ HooksOK' /\ Moves
        /\ \A x \in Endpoints : fate'[x] = fate[x] /\ (at[x] = "hooks" <=> at'[x] = "hooks")
    BY <1>1, <1>9, CallProcessStep
  <2>2. UNCHANGED <<attackerVars, captures, queue, received, remaining, done>>
    BY <1>9 DEF CallProcess
  <2> QED  BY <2>1, <2>2, GoOnInv
<1> QED  BY <1>2, <1>3, <1>4, <1>5, <1>6, <1>7, <1>8, <1>9

\* The steps that put a message.
LEMMA NextPuts ==
  ASSUME SimInv,
         \/ \E e \in Endpoints : DuplicateHook(e) \/ PutOriginal(e)
         \/ \E m \in ToSet(ever), to \in Endpoints : Replay(m, to)
  PROVE  SimInv'
<1>1. Types /\ Senders /\ HooksOK /\ LogOK /\ DeliveredOK /\ DropsOK /\ EverOK /\ RestOK
  BY DEF SimInv
<1>2. ASSUME NEW e \in Endpoints, DuplicateHook(e)
      PROVE  SimInv'
  <2> DEFINE m == [current[e] EXCEPT !.via = "duplicate"]
             to == Dest[e]
  <2>1. /\ Runs(e, "duplicate") /\ at[e] = "hooks" /\ Put(to, m) /\ Passed(e, current[e])
        /\ UNCHANGED <<attackerVars, captures, remaining, done, received>>
    BY <1>2 DEF DuplicateHook, Runs
  <2>2. /\ current[e] \in MessageType /\ current[e].from = e /\ current[e].seq = This(e)
        /\ current[e].via = "send"
    BY <1>1, <2>1, Carried
  <2>3. m \in MessageType /\ m.from = e /\ m.seq = This(e) /\ m.via = "duplicate"
    BY <2>2 DEF MessageType
  <2>4. to \in Endpoints
    BY DestAssumption
  <2> HIDE DEF m
  <2>5. SendTypes' /\ Senders' /\ HooksOK' /\ Moves /\ UNCHANGED <<at, fate>>
    BY <1>1, <2>1, <2>2, PassStep DEF attackerVars
  <2>6. pending'[e] = Tail(pending[e])
    BY <1>1, <2>1, <2>2, Passes DEF Runs
  <2>7. Fits(to, m)
    BY <1>1, <2>1, <2>3, <2>5, <2>6, CopyFits
  <2> HIDE DEF to
  <2>8. /\ LogTypes' /\ Log(to)' = Append(Log(to), m)
        /\ \A d \in Endpoints \ {to} : Log(d)' = Log(d)
    BY <1>1, <2>1, <2>3, <2>4, LogPut
  <2>9. LogOK'
    BY <1>1, <2>3, <2>4, <2>5, <2>7, <2>8, LogGrows
  <2>10. DeliveredOK'
    BY <1>1, <2>3, <2>4, <2>5, <2>8, PutKeeps, DeliveredKept
  <2>11. DropsOK'
    BY <1>1, <2>1, <2>5, DropsSame
  <2>12. EverOK'
    BY <1>1, <2>1, <2>5, EverKept DEF captures
  <2>13. RestOK'
    BY <1>1, <2>1 DEF RestOK, captures
  <2>14. Types'
    BY <1>1, <2>1, <2>5, <2>8, Zenon DEF Types, SendTypes, LogTypes, attackerVars, captures
  <2> QED  BY <2>5, <2>9, <2>10, <2>11, <2>12, <2>13, <2>14 DEF SimInv
<1>3. ASSUME NEW e \in Endpoints, PutOriginal(e)
      PROVE  SimInv'
  <2> DEFINE m == current[e]
             to == Dest[e]
  <2>1. /\ at[e] \in {"hooks", "put"} /\ Put(to, m) /\ End(e, "delivered")
        /\ UNCHANGED <<attackerVars, captures, remaining, done, received>>
        /\ "delivered" \in Fates
    BY <1>3 DEF PutOriginal, Fates
  <2>2. m \in MessageType /\ m.from = e /\ m.seq = This(e) /\ m.via = "send"
    BY <1>1, <2>1, Carried
  <2>3. to \in Endpoints
    BY DestAssumption
  <2>4. SendTypes' /\ Senders' /\ HooksOK' /\ Moves
    BY <1>1, <2>1, EndStep DEF attackerVars
  <2>5. /\ at'[e] = "idle" /\ fate'[e] = Append(fate[e], "delivered")
        /\ \A x \in Endpoints \ {e} : fate'[x] = fate[x] /\ at'[x] = at[x]
    BY <1>1, <2>1, Ends DEF Others
  <2> HIDE DEF m
  <2>6. Fits(to, m)
    BY <1>1, <2>2, <2>5, OriginalFits
  <2>7. /\ LogTypes' /\ Log(to)' = Append(Log(to), m)
        /\ \A d \in Endpoints \ {to} : Log(d)' = Log(d)
    <3> HIDE DEF to
    <3> QED  BY <1>1, <2>1, <2>2, <2>3, LogPut
  <2>8. LogOK'
    BY <1>1, <2>2, <2>3, <2>4, <2>6, <2>7, LogGrows
  <2>9. Arrived(e)
    BY <1>1, <2>2, <2>3, <2>7, PutKeeps DEF Arrived
  <2>10. DeliveredOK'
    BY <1>1, <2>1, <2>2, <2>3, <2>5, <2>7, <2>9, PutKeeps, DeliveredKept
  <2>11. DropsOK'
    BY <1>1, <2>1, <2>5, DropsSame
  <2>12. EverOK'
    BY <1>1, <2>1, <2>5, EverKept DEF captures
  <2>13. RestOK'
    BY <1>1, <2>1 DEF RestOK, captures
  <2>14. Types'
    BY <1>1, <2>1, <2>4, <2>7, Zenon DEF Types, SendTypes, LogTypes, attackerVars, captures
  <2> QED  BY <2>4, <2>8, <2>10, <2>11, <2>12, <2>13, <2>14 DEF SimInv
<1>4. ASSUME NEW k \in ToSet(ever), NEW to \in Endpoints, Replay(k, to)
      PROVE  SimInv'
  <2> DEFINE m == [k EXCEPT !.via = "replay"]
  <2>1. /\ Put(to, m) /\ Call
        /\ UNCHANGED <<attached, hooks, retired, captures, remaining, done, received, sendVars,
                       history>>
    BY <1>4 DEF Replay
  <2>2. k \in MessageType
    BY <1>1, CapturedType DEF Types
  <2>3. m \in MessageType /\ m.via = "replay"
    BY <2>2 DEF MessageType
  <2> HIDE DEF m
  <2>4. SendTypes' /\ Senders' /\ HooksOK' /\ Moves /\ UNCHANGED <<at, fate>>
    BY <1>1, <2>1, AsideStep
  <2>5. Fits(to, m)
    BY <2>3 DEF Fits
  <2>6. /\ LogTypes' /\ Log(to)' = Append(Log(to), m)
        /\ \A d \in Endpoints \ {to} : Log(d)' = Log(d)
    BY <1>1, <2>1, <2>3, LogPut
  <2>7. LogOK'
    BY <1>1, <2>3, <2>4, <2>5, <2>6, LogGrows
  <2>8. DeliveredOK'
    BY <1>1, <2>3, <2>4, <2>6, PutKeeps, DeliveredKept
  <2>9. DropsOK'
    BY <1>1, <2>1, <2>4, DropsSame
  <2>10. EverOK'
    BY <1>1, <2>1, <2>4, EverKept DEF captures
  <2>11. RestOK'
    BY <1>1, <2>1 DEF RestOK, captures
  <2>12. calls' \in 0..MaxCalls
    BY <1>1, <2>1, NatsAssumption DEF Call, Types
  <2>13. Types'
    BY <1>1, <2>1, <2>4, <2>6, <2>12, Zenon DEF Types, SendTypes, LogTypes, captures
  <2> QED  BY <2>4, <2>7, <2>8, <2>9, <2>10, <2>11, <2>13 DEF SimInv
<1> QED  BY <1>2, <1>3, <1>4

\* The steps outside the sends keep the invariant.
LEMMA NextOthers ==
  ASSUME SimInv,
         \/ \E e \in Endpoints : Receive(e)
         \/ \E h \in Hooks : AddHook(h) \/ RemoveHook(h)
         \/ SetAttacker \/ ResetCaptures
         \/ UNCHANGED vars
  PROVE  SimInv'
<1>1. Types /\ Senders /\ HooksOK /\ LogOK /\ DeliveredOK /\ DropsOK /\ EverOK /\ RestOK
  BY DEF SimInv
<1>2. ASSUME NEW e \in Endpoints, Receive(e)
      PROVE  SimInv'
  <2>1. UNCHANGED <<attackerVars, captures, remaining, done, sendVars, history>>
    BY <1>2 DEF Receive
  <2>2. SendTypes' /\ Senders' /\ HooksOK' /\ Moves /\ UNCHANGED <<at, fate>>
    BY <1>1, <2>1, AsideStep DEF attackerVars
  <2>3. LogTypes' /\ \A d \in Endpoints : Log(d)' = Log(d)
    BY <1>1, <1>2, LogReceive
  <2>4. LogOK'
    BY <1>1, <2>2, <2>3, LogSame
  <2>5. DeliveredOK'
    BY <1>1, <2>2, <2>3, DeliveredKept
  <2>6. DropsOK'
    BY <1>1, <2>1, <2>2, DropsSame
  <2>7. EverOK'
    BY <1>1, <2>1, <2>2, EverKept DEF captures
  <2>8. RestOK'
    BY <1>1, <2>1 DEF RestOK, captures
  <2>9. Types'
    BY <1>1, <2>1, <2>2, <2>3, Zenon DEF Types, SendTypes, LogTypes, attackerVars, captures
  <2> QED  BY <2>2, <2>4, <2>5, <2>6, <2>7, <2>8, <2>9 DEF SimInv
\* What the remaining steps have in common.
<1>3. ASSUME SendTypes', Senders', HooksOK', Moves, UNCHANGED <<at, fate, queue, received>>,
             UNCHANGED <<remaining, done, ever>>, attached' \in BOOLEAN, calls' \in 0..MaxCalls,
             hooks' \in Seq(Hooks), retired' \in SUBSET Hooks, captured' \in Seq(MessageType),
             RestOK'
      PROVE  SimInv'
  <2>1. LogOK'
    BY <1>1, <1>3, LogsStay, LogSame
  <2>2. DeliveredOK'
    BY <1>1, <1>3, LogsStay, DeliveredKept
  <2>3. DropsOK'
    BY <1>1, <1>3, DropsSame
  <2>4. EverOK'
    BY <1>1, <1>3, EverKept
  <2>5. Types'
    BY <1>1, <1>3, Zenon DEF Types, SendTypes
  <2> QED  BY <1>3, <2>1, <2>2, <2>3, <2>4, <2>5 DEF SimInv
<1>4. Call => calls' \in 0..MaxCalls
  BY <1>1, NatsAssumption DEF Call, Types
<1>5. captured' = captured /\ ever' = ever => RestOK'
  BY <1>1 DEF RestOK
<1>6. ASSUME NEW h \in Hooks, AddHook(h)
      PROVE  SimInv'
  <2>1. /\ Call /\ UNCHANGED <<queue, received, remaining, done, ever, captured, attached, retired>>
    BY <1>6 DEF AddHook, captures
  <2>2. /\ SendTypes' /\ Senders' /\ HooksOK' /\ Moves /\ hooks' \in Seq(Hooks)
        /\ UNCHANGED <<at, fate>>
    BY <1>1, <1>6, AddStep
  <2>3. attached' \in BOOLEAN /\ retired' \in SUBSET Hooks /\ captured' \in Seq(MessageType)
    BY <1>1, <2>1, Zenon DEF Types
  <2> QED  BY <1>3, <1>4, <1>5, <2>1, <2>2, <2>3
<1>7. ASSUME NEW h \in Hooks, RemoveHook(h)
      PROVE  SimInv'
  <2>1. UNCHANGED <<queue, received, remaining, done, ever, captured, attached, calls>>
    BY <1>7 DEF RemoveHook, captures
  <2>2. SendTypes' /\ Senders' /\ HooksOK' /\ Moves /\ hooks' \in Seq(Hooks)
        /\ retired' \in SUBSET Hooks /\ UNCHANGED <<at, fate>>
    BY <1>1, <1>7, RemoveStep
  <2>3. attached' \in BOOLEAN /\ calls' \in 0..MaxCalls /\ captured' \in Seq(MessageType)
    BY <1>1, <2>1, Zenon DEF Types
  <2> QED  BY <1>3, <1>5, <2>1, <2>2, <2>3
<1>8. ASSUME SetAttacker
      PROVE  SimInv'
  <2>1. /\ Call /\ UNCHANGED <<queue, received, remaining, done, ever, captured, hooks, retired>>
        /\ attached' \in BOOLEAN /\ UNCHANGED <<sendVars, history>>
    BY <1>1, <1>8 DEF SetAttacker, captures, Types
  <2>2. SendTypes' /\ Senders' /\ HooksOK' /\ Moves /\ UNCHANGED <<at, fate>>
    BY <1>1, <2>1, AsideStep
  <2>3. hooks' \in Seq(Hooks) /\ retired' \in SUBSET Hooks /\ captured' \in Seq(MessageType)
    BY <1>1, <2>1, Zenon DEF Types
  <2> QED  BY <1>3, <1>4, <1>5, <2>1, <2>2, <2>3
<1>9. ASSUME ResetCaptures
      PROVE  SimInv'
  <2>1. /\ Call /\ captured' = <<>>
        /\ UNCHANGED <<queue, received, remaining, done, ever, hooks, retired, attached>>
        /\ UNCHANGED <<sendVars, history>>
    BY <1>9 DEF ResetCaptures
  <2>2. SendTypes' /\ Senders' /\ HooksOK' /\ Moves /\ UNCHANGED <<at, fate>>
    BY <1>1, <2>1, AsideStep
  <2>3. attached' \in BOOLEAN /\ hooks' \in Seq(Hooks) /\ retired' \in SUBSET Hooks
    BY <1>1, <2>1, Zenon DEF Types
  <2>4. captured' \in Seq(MessageType)
    BY <2>1, Empty
  <2>5. RestOK'
    <3>1. Len(ever) \in Nat /\ ever \in Seq(MessageType)
      BY <1>1, LenProperties DEF Types
    <3>2. SubSeq(ever, Len(ever) + 1, Len(ever)) = <<>>
      BY <3>1, SubSeqProperties, EmptySeq
    <3> QED  BY <2>1, <3>1, <3>2 DEF RestOK
  <2> QED  BY <1>3, <1>4, <2>1, <2>2, <2>3, <2>4, <2>5
<1>10. ASSUME UNCHANGED vars
       PROVE  SimInv'
  <2>1. /\ UNCHANGED <<queue, received, remaining, done, ever, captured, attached, calls>>
        /\ UNCHANGED <<hooks, retired, sendVars, history>>
    BY <1>10 DEF vars, attackerVars, captures
  <2>2. SendTypes' /\ Senders' /\ HooksOK' /\ Moves /\ UNCHANGED <<at, fate>>
    BY <1>1, <2>1, AsideStep
  <2>3. /\ attached' \in BOOLEAN /\ calls' \in 0..MaxCalls /\ captured' \in Seq(MessageType)
        /\ hooks' \in Seq(Hooks) /\ retired' \in SUBSET Hooks
    BY <1>1, <2>1, Zenon DEF Types
  <2> QED  BY <1>3, <1>5, <2>1, <2>2, <2>3
<1> QED  BY <1>2, <1>6, <1>7, <1>8, <1>9, <1>10

\* The invariant holds at first.
LEMMA InitInv == Init => SimInv
<1> SUFFICES ASSUME Init PROVE SimInv
  OBVIOUS
<1>1. /\ attached \in BOOLEAN /\ calls = 0 /\ hooks = <<>> /\ retired = {} /\ captured = <<>>
      /\ ever = <<>> /\ remaining = DropNext /\ done = FALSE
      /\ queue = [e \in Endpoints |-> <<>>] /\ received = [e \in Endpoints |-> <<>>]
      /\ at = [e \in Endpoints |-> "idle"] /\ current = [e \in Endpoints |-> NoMessage]
      /\ pending = [e \in Endpoints |-> <<>>] /\ fate = [e \in Endpoints |-> <<>>]
      /\ whole = [e \in Endpoints |-> {}] /\ touched = [e \in Endpoints |-> {}]
  BY DEF Init
<1>2. /\ <<>> \in Seq(MessageType) /\ <<>> \in Seq(Hooks) /\ <<>> \in Seq(Fates)
      /\ Len(<<>>) = 0 /\ DOMAIN <<>> = {}
  BY EmptySeq
<1>3. Types
  <2>1. calls \in 0..MaxCalls /\ remaining \in 0..DropNext
    BY <1>1, NatsAssumption
  <2>2. /\ queue \in [Endpoints -> Seq(MessageType)] /\ received \in [Endpoints -> Seq(MessageType)]
        /\ pending \in [Endpoints -> Seq(Hooks)] /\ fate \in [Endpoints -> Seq(Fates)]
    BY <1>1, <1>2, Zenon
  <2>3. at \in [Endpoints -> Places] /\ current \in [Endpoints -> MessageType \cup {NoMessage}]
    BY <1>1 DEF Places
  <2>4. /\ whole \in [Endpoints -> SUBSET Hooks] /\ touched \in [Endpoints -> SUBSET Hooks]
        /\ retired \in SUBSET Hooks /\ done \in BOOLEAN
    BY <1>1
  <2> QED  BY <1>1, <1>2, <2>1, <2>2, <2>3, <2>4, Zenon DEF Types
<1>4. Senders
  BY <1>1, <1>2, NatsAssumption, Empty DEF Senders, SendOK, WindowOK
<1>5. HooksOK
  BY <1>1, Empty DEF HooksOK
<1>6. \A d \in Endpoints : Log(d) = <<>>
  BY <1>1 DEF Log
<1>7. LogOK
  BY <1>2, <1>6, Empty DEF LogOK, SenderOrder
<1>8. DeliveredOK
  BY <1>1, <1>2 DEF DeliveredOK
<1>9. DropsOK
  <2>1. Dropped = {}
    BY <1>1, <1>2 DEF Dropped
  <2>2. IsFiniteSet(Dropped) /\ Cardinality(Dropped) = 0
    BY <2>1, FS_EmptySet
  <2>3. DropNext \in Nat
    BY NatsAssumption
  <2>4. remaining + Cardinality(Dropped) = DropNext
    BY <1>1, <2>2, <2>3
  <2>5. ~(remaining = 0 /\ DropNext > 0)
    BY <1>1, <2>3
  <2> QED  BY <1>1, <2>2, <2>4, <2>5, Zenon DEF DropsOK
<1>10. EverOK
  BY <1>1, <1>2, Empty DEF EverOK
<1>11. RestOK
  <2>1. SubSeq(ever, 1, 0) = <<>>
    BY <1>1, <1>2, SubSeqProperties
  <2>2. 0 \in 0..Len(ever) /\ Len(ever) = 0 /\ 0 + 1 = 1
    BY <1>1, <1>2
  <2> QED  BY <1>1, <2>1, <2>2 DEF RestOK
<1> QED  BY <1>3, <1>4, <1>5, <1>7, <1>8, <1>9, <1>10, <1>11 DEF SimInv

\* Every step keeps the invariant.
LEMMA NextInv == SimInv /\ [Next]_vars => SimInv'
<1> SUFFICES ASSUME SimInv, [Next]_vars PROVE SimInv'
  OBVIOUS
<1>1. ASSUME NEW e \in Endpoints,
             \/ Send(e) \/ CallProcess(e) \/ Detached(e) \/ Snapshot(e) \/ Capture(e)
             \/ DropHook(e) \/ DropNextHook(e) \/ ModifyHook(e)
      PROVE  SimInv'
  BY <1>1, NextSends
<1>2. ASSUME NEW e \in Endpoints, DuplicateHook(e) \/ PutOriginal(e)
      PROVE  SimInv'
  BY <1>2, NextPuts, Zenon
<1>3. ASSUME NEW m \in ToSet(ever), NEW to \in Endpoints, Replay(m, to)
      PROVE  SimInv'
  BY <1>3, NextPuts, Zenon
<1>4. ASSUME \/ \E e \in Endpoints : Receive(e)
             \/ \E h \in Hooks : AddHook(h) \/ RemoveHook(h)
             \/ SetAttacker \/ ResetCaptures
             \/ UNCHANGED vars
      PROVE  SimInv'
  BY <1>4, NextOthers
<1> QED  BY <1>1, <1>2, <1>3, <1>4, Zenon DEF Next

\* SimInv holds in every state.
THEOREM SimInvariant == Spec => []SimInv
<1> QED  BY InitInv, NextInv, PTL DEF Spec

-----------------------------------------------------------------------------
(* The theorems. *)

\* In every state the simulator and the attacker have the types they should
\* and a send's snapshot is made of hooks that were registered
\* (simulator.py 40-60, attacker.py 35-86).
THEOREM SimTypeCorrect == Spec => []SimTypeOK
<1>1. ASSUME SimInv
      PROVE  SimTypeOK
  <2>1. Types /\ Senders /\ HooksOK
    BY <1>1 DEF SimInv
  <2>2. ToSet(ever) \subseteq MessageType
    BY <2>1, CapturedType DEF Types
  <2>3. \A e \in Endpoints : ToSet(Log(e)) \subseteq MessageType
    BY <2>1, LogIsSeq DEF ToSet
  <2>4. \A e \in Endpoints : Len(fate[e]) \in 0..MaxSends[e]
    <3> TAKE e \in Endpoints
    <3>1. Len(fate[e]) \in Nat /\ MaxSends[e] \in Nat
      BY <2>1, FateIsSeq, NatsAssumption
    <3>2. Len(fate[e]) <= MaxSends[e] \/ Len(fate[e]) < MaxSends[e]
      BY <2>1 DEF Senders, SendOK
    <3> QED  BY <3>1, <3>2
  <2>5. \A e \in Endpoints : at[e] \in {"idle", "checked", "process", "capture", "hooks", "put"}
    BY <2>1 DEF Types, Places
  <2>6. /\ attached \in BOOLEAN /\ done \in BOOLEAN /\ remaining \in 0..DropNext
        /\ calls \in 0..MaxCalls
    BY <2>1 DEF Types
  <2> QED  BY <2>1, <2>2, <2>3, <2>4, <2>5, <2>6, Zenon DEF SimTypeOK, HooksOK
<1> QED  BY <1>1, SimInvariant, PTL

\* A set whose elements are all equal has at most one.
LEMMA AtMostOne ==
  ASSUME NEW S, \A x, y \in S : x = y
  PROVE  IsFiniteSet(S) /\ Cardinality(S) <= 1 /\ (S # {} => Cardinality(S) = 1)
<1>1. CASE S = {}
  BY <1>1, FS_EmptySet
<1>2. CASE S # {}
  <2>1. PICK x \in S : TRUE
    BY <1>2
  <2>2. S = {x}
    BY <2>1
  <2>3. IsFiniteSet(S) /\ Cardinality(S) = 1
    BY <2>2, FS_Singleton
  <2> QED  BY <2>3
<1> QED  BY <1>1, <1>2

\* Whatever hooks come and go, a message is in its recipient's queue once if
\* its send was delivered, never else, and at most once more as a duplicate.
THEOREM SendsAccounted == Spec => []Accounted
<1>1. ASSUME SimInv, NEW e \in Endpoints, NEW n \in DOMAIN fate[e]
      PROVE  /\ Cardinality(Entries(e, n, "send")) = IF fate[e][n] = "delivered" THEN 1 ELSE 0
             /\ Cardinality(Entries(e, n, "duplicate")) <= 1
  <2>1. Types /\ LogOK /\ DeliveredOK /\ Dest[e] \in Endpoints
    BY <1>1, DestAssumption DEF SimInv
  <2>2. ASSUME NEW via \in {"send", "duplicate"},
               NEW i \in Entries(e, n, via), NEW j \in Entries(e, n, via)
        PROVE  i = j
    <3>1. /\ i \in DOMAIN Log(Dest[e]) /\ j \in DOMAIN Log(Dest[e])
          /\ Log(Dest[e])[i].via # "replay" /\ Same(Log(Dest[e])[i], Log(Dest[e])[j])
      BY <2>2 DEF Entries, Same
    <3> QED  BY <2>1, <3>1 DEF LogOK
  <2>3. Cardinality(Entries(e, n, "duplicate")) <= 1
    BY <2>2, AtMostOne
  <2>4. CASE fate[e][n] = "delivered"
    <3>1. Entries(e, n, "send") # {}
      BY <2>1, <2>4 DEF DeliveredOK
    <3>2. Cardinality(Entries(e, n, "send")) = 1
      BY <2>2, <3>1, AtMostOne
    <3> QED  BY <2>3, <2>4, <3>2
  <2>5. CASE fate[e][n] # "delivered"
    <3>1. ASSUME NEW i \in Entries(e, n, "send")
          PROVE  FALSE
      <4>1. i \in DOMAIN Log(Dest[e])
        BY <3>1 DEF Entries
      <4>2. PICK m \in ToSet(Log(Dest[e])) : m.from = e /\ m.seq = n /\ m.via = "send"
        BY <3>1, <4>1 DEF Entries, ToSet
      <4>3. PlaceOK(Dest[e], m)
        BY <2>1, <4>2 DEF LogOK
      <4> QED  BY <2>5, <4>2, <4>3 DEF PlaceOK
    <3>2. Cardinality(Entries(e, n, "send")) = 0
      <4>1. Entries(e, n, "send") = {}
        BY <3>1
      <4> QED  BY <4>1, FS_EmptySet
    <3> QED  BY <2>3, <2>5, <3>2
  <2> QED  BY <2>4, <2>5
<1>2. SimInv => Accounted
  BY <1>1 DEF Accounted
<1> QED  BY <1>2, SimInvariant, PTL

\* A sender's messages and their duplicates stay in the order sent.
THEOREM SendersInOrder == Spec => []SenderOrder
<1>1. SimInv => SenderOrder
  BY DEF SimInv, LogOK
<1> QED  BY <1>1, SimInvariant, PTL

\* drop_next(n) drops n messages and no more, of all the threads together,
\* and signals exactly then, for every n but 0, for which it never signals.
THEOREM DropsExactly == DropNext > 0 /\ Spec => []DropNextExact
<1>1. ASSUME SimInv, DropNext > 0
      PROVE  DropNextExact
  <2>1. /\ IsFiniteSet(Dropped) /\ remaining + Cardinality(Dropped) = DropNext
        /\ (done <=> remaining = 0 /\ DropNext > 0) /\ remaining \in 0..DropNext
        /\ DropNext \in Nat
    BY <1>1, NatsAssumption DEF SimInv, DropsOK, Types
  <2>2. Cardinality(Dropped) \in Nat
    BY <2>1, FS_CardinalityType
  <2>3. Cardinality(Dropped) <= DropNext /\ (remaining = 0 <=> Cardinality(Dropped) = DropNext)
    BY <2>1, <2>2
  <2> QED  BY <1>1, <2>1, <2>3, Zenon DEF DropNextExact
<1>2. CASE DropNext > 0
  <2>1. SimInv => DropNextExact
    BY <1>1, <1>2
  <2> QED  BY <2>1, SimInvariant, PTL
<1> QED  BY <1>2

\* What the capture list holds was captured as it was sent, and everything
\* that reached a hook was captured first.
THEOREM CapturesFaithful == Spec => []CapturedAsSent
<1>1. ASSUME SimInv
      PROVE  CapturedAsSent
  <2>1. Types /\ EverOK /\ RestOK
    BY <1>1 DEF SimInv
  <2>2. IsSuffix(captured, ever)
    <3>1. ever \in Seq(MessageType)
      BY <2>1 DEF Types
    <3>2. PICK k \in 0..Len(ever) : captured = SubSeq(ever, k + 1, Len(ever))
      BY <2>1 DEF RestOK
    <3> QED  BY <3>1, <3>2, RestIsSuffix
  <2>3. \A m \in ToSet(ever) : ~m.altered /\ m.via = "send"
    BY <2>1 DEF EverOK, Message
  <2>4. ASSUME NEW e \in Endpoints, NEW n \in DOMAIN fate[e], fate[e][n] = "raised",
               Message(e, n) \in ToSet(ever)
        PROVE  FALSE
    <3>1. Message(e, n).from = e /\ Message(e, n).seq = n
      BY DEF Message
    <3>2. This(e) \notin DOMAIN fate[e]
      BY <2>1, FateIsSeq DEF This
    <3> QED  BY <2>1, <2>4, <3>1, <3>2 DEF EverOK
  <2>5. \A e \in Endpoints : \A n \in DOMAIN fate[e] :
          fate[e][n] \in {"dropped", "drop_next", "hook_raised"} => Message(e, n) \in ToSet(ever)
    BY <2>1 DEF EverOK
  <2> QED  BY <2>1, <2>2, <2>3, <2>4, <2>5 DEF CapturedAsSent, EverOK
<1> QED  BY <1>1, SimInvariant, PTL

\* A hook acts on every message whose send lies inside its registration, and
\* on none whose send lies outside.
THEOREM HooksActInWindow == Spec => HookWindow
<1>1. ASSUME SimInv, Next, NEW e \in Endpoints, fate'[e] # fate[e], at[e] = "hooks",
             NEW how, how = Last(fate'[e])
      PROVE  /\ how = "delivered" =>
                  /\ "drop" \notin whole[e]
                  /\ "modify" \in whole[e] => current[e].altered
                  /\ current[e].altered => "modify" \in touched[e]
                  /\ "drop_next" \in whole[e] => remaining = 0
             /\ how = "dropped" => "drop" \in touched[e]
             /\ how = "hook_raised" => "modify" \in touched[e]
             /\ how = "drop_next" => "drop_next" \in touched[e]
  <2>1. Types /\ Senders
    BY <1>1 DEF SimInv
  <2>2. SendOK(e) /\ WindowOK(e)
    BY <2>1 DEF Senders
  <2>3. ASSUME NEW f \in Fates, NEW x \in Endpoints, End(x, f)
        PROVE  x = e /\ how = f
    <3>1. fate'[x] = Append(fate[x], f) /\ \A y \in Endpoints \ {x} : fate'[y] = fate[y]
      BY <2>1, <2>3, Ends DEF Others
    <3>2. x = e
      BY <1>1, <3>1
    <3>3. fate[e] \in Seq(Fates)
      BY <2>1 DEF Types
    <3>4. Last(Append(fate[e], f)) = f
      BY <3>3, AppendProperties DEF Last
    <3> QED  BY <1>1, <3>1, <3>2, <3>4
  <2>4. ASSUME NEW h, Runs(e, h)
        PROVE  h \in touched[e]
    <3>1. pending[e] \in Seq(Hooks) /\ pending[e] # <<>> /\ Head(pending[e]) = h
      BY <2>1, <2>4 DEF Types, Runs
    <3>2. h \in ToSet(pending[e])
      BY <3>1, TailSet
    <3> QED  BY <2>2, <3>2 DEF WindowOK
  <2>5. ASSUME NEW x \in Endpoints, Detached(x)
        PROVE  FALSE
    <3>1. at[x] = "checked" /\ End(x, "raised") /\ "raised" \in Fates
      BY <2>5 DEF Detached, Fates
    <3> QED  BY <1>1, <2>3, <3>1
  <2>6. ASSUME NEW x \in Endpoints, DropHook(x)
        PROVE  how = "dropped" /\ "drop" \in touched[e]
    <3>1. Runs(x, "drop") /\ End(x, "dropped") /\ "dropped" \in Fates
      BY <2>6 DEF DropHook, Fates
    <3> QED  BY <2>3, <2>4, <3>1
  <2>7. ASSUME NEW x \in Endpoints, DropNextHook(x)
        PROVE  how = "drop_next" /\ "drop_next" \in touched[e]
    <3>1. Runs(x, "drop_next") /\ "drop_next" \in Fates /\ (End(x, "drop_next") \/ fate' = fate)
      BY <2>7 DEF DropNextHook, Fates, Passed
    <3> QED  BY <1>1, <2>3, <2>4, <3>1
  <2>8. ASSUME NEW x \in Endpoints, ModifyHook(x)
        PROVE  how = "hook_raised" /\ "modify" \in touched[e]
    <3>1. Runs(x, "modify") /\ "hook_raised" \in Fates /\ (End(x, "hook_raised") \/ fate' = fate)
      BY <2>8 DEF ModifyHook, Fates, Passed
    <3> QED  BY <1>1, <2>3, <2>4, <3>1
  <2>9. ASSUME NEW x \in Endpoints, PutOriginal(x)
        PROVE  /\ how = "delivered"
               /\ "drop" \notin whole[e]
               /\ "modify" \in whole[e] => current[e].altered
               /\ current[e].altered => "modify" \in touched[e]
               /\ "drop_next" \in whole[e] => remaining = 0
    <3>1. End(x, "delivered") /\ "delivered" \in Fates
      BY <2>9 DEF PutOriginal, Fates
    <3>2. x = e /\ how = "delivered"
      BY <2>3, <3>1
    <3>3. pending[e] = <<>>
      BY <1>1, <2>9, <3>2 DEF PutOriginal
    <3>4. \A h \in whole[e] : Applied(e, h)
      BY <1>1, <2>2, <3>3, Empty DEF WindowOK
    <3>5. current[e].altered => "modify" \in touched[e]
      BY <1>1, <2>2, Zenon DEF SendOK
    <3> QED  BY <3>2, <3>4, <3>5, Zenon DEF Applied
  <2>10. ASSUME NEW x \in Endpoints,
                \/ Send(x) \/ CallProcess(x) \/ Snapshot(x) \/ Capture(x)
                \/ DuplicateHook(x) \/ Receive(x)
         PROVE  FALSE
    <3>1. fate' = fate
      BY <2>10 DEF Send, CallProcess, Snapshot, Capture, DuplicateHook, Passed, Receive,
                  sendVars
    <3> QED  BY <1>1, <3>1
  <2>11. ASSUME \/ \E h \in Hooks : AddHook(h) \/ RemoveHook(h)
                \/ SetAttacker \/ ResetCaptures
                \/ \E m \in ToSet(ever), to \in Endpoints : Replay(m, to)
         PROVE  FALSE
    <3>1. fate' = fate
      BY <2>11 DEF AddHook, RemoveHook, SetAttacker, ResetCaptures, Replay, sendVars
    <3> QED  BY <1>1, <3>1
  <2> QED  BY <1>1, <2>5, <2>6, <2>7, <2>8, <2>9, <2>10, <2>11 DEF Next
<1>2. SimInv /\ [Next]_vars => [\A e \in Endpoints : InWindow(e)]_vars
  BY <1>1 DEF InWindow
<1> QED  BY <1>2, SimInvariant, PTL DEF Spec, HookWindow
=============================================================================
