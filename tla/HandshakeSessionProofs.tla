------------------------ MODULE HandshakeSessionProofs ------------------------
(***************************************************************************)
(* Proofs about HandshakeSession for every set of sessions: types, what a   *)
(* live and a failed session hold, and that a failed session stays failed.  *)
(***************************************************************************)
EXTENDS HandshakeSession, TLAPS

IndInv == TypeOK /\ PhaseOK

-----------------------------------------------------------------------------
(* Terms. *)

\* No term is Python's None, no quote is a damaged field.
LEMMA TermsNotNone ==
  /\ None \notin Sids
  /\ None \notin Sks
  /\ None \notin Secrets
  /\ None \notin Tefs
  /\ None \notin Keys
  /\ None \notin M5s
  /\ Garbled \notin Quotes
BY DEF None, Garbled, Sids, Sks, Secrets, Tefs, Keys, M5s, Quotes

\* A value of an attribute's type is a value the attribute may hold.
LEMMA Attributes ==
  /\ \A x \in Sids : x \in OrNone(Sids)
  /\ \A x \in Pks : x \in OrNone(Pks)
  /\ \A x \in Sks : x \in OrNone(Sks)
  /\ \A x \in Secrets : x \in OrNone(Secrets)
  /\ \A x \in Tefs : x \in OrNone(Tefs)
  /\ \A x \in Commits : x \in OrNone(OrGarbled(Commits))
  /\ \A x \in OrGarbled(Commits) : x \in OrNone(OrGarbled(Commits))
  /\ \A x \in Keys : x \in OrNone(Keys)
  /\ \A x \in M5s : x \in OrNone(M5s)
  /\ \A x \in ({"th0"} \X Sids) \cup TH1s \cup TH2s \cup TH3s \cup TH4s \cup TH5s :
       x \in Transcripts
  /\ \A S : None \in OrNone(S)
BY DEF OrNone, OrGarbled, Transcripts

\* Decapsulation of whatever ciphertext arrives gives a shared secret.
LEMMA DecapsulateType ==
  ASSUME NEW sk \in Sks, NEW ct \in OrGarbled(Cts)
  PROVE  Decapsulate(sk, ct) \in Secrets
BY DEF Decapsulate, Sks, Cts, OrGarbled, Secrets, SharedSecret, Pk, Pks

-----------------------------------------------------------------------------
(* What the caller passes. *)

\* A message with a damaged field is still a message of its type.
LEMMA DamagedType ==
  /\ \A m \in M1s : Damaged(m) \subseteq M1s
  /\ \A m \in M2s : Damaged(m) \subseteq M2s
  /\ \A m \in M3s : Damaged(m) \subseteq M3s
  /\ \A m \in M4s : Damaged(m) \subseteq M4s
  /\ \A m \in M5s : Damaged(m) \subseteq M5s
  /\ \A m \in M6s : Damaged(m) \subseteq M6s
<1>1. \A m \in M1s : Damaged(m) \subseteq M1s  BY DEF Damaged, M1s, OrGarbled
<1>2. \A m \in M2s : Damaged(m) \subseteq M2s  BY DEF Damaged, M2s, OrGarbled
<1>3. \A m \in M3s : Damaged(m) \subseteq M3s  BY DEF Damaged, M3s, OrGarbled
<1>4. \A m \in M4s : Damaged(m) \subseteq M4s  BY DEF Damaged, M4s, OrGarbled
<1>5. \A m \in M5s : Damaged(m) \subseteq M5s  BY DEF Damaged, M5s, OrGarbled
<1>6. \A m \in M6s : Damaged(m) \subseteq M6s  BY DEF Damaged, M6s, OrGarbled
<1> QED  BY <1>1, <1>2, <1>3, <1>4, <1>5, <1>6

\* The type field separates the messages on the wire.
LEMMA InboundType ==
  ASSUME wire \subseteq Messages
  PROVE  /\ Inbound("M1") \subseteq M1s
         /\ Inbound("M2") \subseteq M2s
         /\ Inbound("M3") \subseteq M3s
         /\ Inbound("M4") \subseteq M4s
         /\ Inbound("M5") \subseteq M5s
         /\ Inbound("M6") \subseteq M6s
<1>1. \A m \in wire : /\ m.type = "M1" => m \in M1s
                      /\ m.type = "M2" => m \in M2s
                      /\ m.type = "M3" => m \in M3s
                      /\ m.type = "M4" => m \in M4s
                      /\ m.type = "M5" => m \in M5s
                      /\ m.type = "M6" => m \in M6s
  BY DEF Messages, M1s, M2s, M3s, M4s, M5s, M6s
<1> QED  BY <1>1, DamagedType DEF Inbound

-----------------------------------------------------------------------------
(* The checks. *)

\* verify_m1 raises one of the recorded exceptions or accepts a message
\* whose session id and public key are undamaged (m1.py 22-32).
LEMMA VerifyM1Type ==
  ASSUME NEW m \in M1s, NEW key
  PROVE  /\ VerifyM1(m, key) \in Exceptions \cup {Ok}
         /\ VerifyM1(m, key) = Ok => m.sid \in Sids /\ m.pkS \in Pks
<1>1. CASE m.quote = Garbled
  BY <1>1 DEF VerifyM1, Exceptions, Ok
<1>2. CASE m.quote \in Quotes
  <2>1. m.quote[2] \in Pks /\ m.quote[3] \in Sids
    BY <1>2 DEF Quotes
  <2> QED  BY <2>1 DEF VerifyM1, Exceptions, Ok
<1> QED  BY <1>1, <1>2 DEF M1s, OrGarbled

\* An M4 that verify_m4 accepts carries a TEF (m4.py 17-32).
LEMMA VerifyM4Type ==
  ASSUME NEW m \in M4s, NEW ss, NEW commitC, NEW sid, NEW th3
  PROVE  /\ VerifyM4(m, ss, commitC, sid, th3) \in Exceptions \cup {Ok}
         /\ VerifyM4(m, ss, commitC, sid, th3) = Ok => Plaintext(m.wrappedC) \in Tefs
<1>1. CASE m.wrappedC = Garbled
  BY <1>1 DEF VerifyM4, Opens, Exceptions, Ok
<1>2. CASE m.wrappedC \in {"aead"} \X KwrapCs \X Tefs \X TH3s
  <2>1. Plaintext(m.wrappedC) \in Tefs
    BY <1>2 DEF Plaintext
  <2> QED  BY <2>1 DEF VerifyM4, Exceptions, Ok
<1> QED  BY <1>1, <1>2 DEF M4s, OrGarbled

\* An M5 that verify_m5 accepts carries an undamaged wrap and a TEF
\* (m5.py 38-63).
LEMMA VerifyM5Type ==
  ASSUME NEW m \in M5s, NEW s
  PROVE  /\ VerifyM5(m, s) \in Exceptions \cup {Ok}
         /\ VerifyM5(m, s) = Ok =>
              /\ m.wrappedS \in WrapSs /\ Plaintext(m.wrappedS) \in Tefs
<1>1. CASE m.wrappedS = Garbled
  BY <1>1 DEF VerifyM5, Opens, Exceptions, Ok
<1>2. CASE m.wrappedS \in WrapSs
  <2>1. Plaintext(m.wrappedS) \in Tefs
    BY <1>2 DEF Plaintext, WrapSs
  <2> QED  BY <1>2, <2>1 DEF VerifyM5, Exceptions, Ok
<1> QED  BY <1>1, <1>2 DEF M5s, OrGarbled

-----------------------------------------------------------------------------
(* The two ends of a handler. *)

\* What makes s a value the session of e may take: its types and its role.
GoodFor(e, s) ==
  /\ s \in Session
  /\ e \in Servers => s.state \in ServerStates
  /\ e \in Clients => s.state \in ClientStates

\* A handler that raises keeps the invariant if the attributes assigned so
\* far are those of a failed session.
LEMMA RaiseStep ==
  ASSUME IndInv, NEW e \in Endpoints, NEW s, NEW x \in Exceptions,
         GoodFor(e, s), FailedOK(s), s.key = sess[e].key, Raise(e, s, x)
  PROVE  IndInv' /\ FailedStep
<1>1. x # Ok
  BY DEF Exceptions, Ok
<1>2. TypeOK'
  BY DEF IndInv, TypeOK, GoodFor, Raise, Endpoints
<1>3. PhaseOK'
  BY <1>1 DEF IndInv, TypeOK, PhaseOK, Raise
<1>4. FailedStep
  BY <1>1 DEF IndInv, TypeOK, FailedStep, Raise
<1> QED  BY <1>2, <1>3, <1>4 DEF IndInv

\* No session but e changes, and e had not failed.
LEMMA OtherSessions ==
  ASSUME IndInv, NEW e \in Endpoints, NEW s, exc[e] = Ok, sess' = [sess EXCEPT ![e] = s]
  PROVE  FailedStep
BY DEF IndInv, TypeOK, FailedStep

\* A handler that returns keeps the invariant if it found the session live
\* and leaves it live.
LEMMA ReturnStep ==
  ASSUME IndInv, NEW e \in Endpoints, NEW s, NEW m \in Messages,
         GoodFor(e, s), LiveOK(s), exc[e] = Ok, Return(e, s, m)
  PROVE  IndInv' /\ FailedStep
<1>1. TypeOK'
  BY DEF IndInv, TypeOK, GoodFor, Return, Endpoints
<1>2. PhaseOK'
  BY DEF IndInv, TypeOK, PhaseOK, Return
<1>3. FailedStep
  BY OtherSessions DEF Return
<1> QED  BY <1>1, <1>2, <1>3 DEF IndInv

\* The transition tables, entry by entry (state_machine.py 36-58).
LEMMA AdvanceValues ==
  /\ \A e \in Servers : /\ Advance(e, "INIT") = "M1_CREATED"
                         /\ Advance(e, "M1_CREATED") = "M2_VERIFIED"
                         /\ Advance(e, "M2_VERIFIED") = "M3_CREATED"
                         /\ Advance(e, "M3_CREATED") = "M4_VERIFIED"
                         /\ Advance(e, "M4_VERIFIED") = "M5_CREATED"
                         /\ Advance(e, "M5_CREATED") = "ESTABLISHED"
  /\ \A e \in Clients : /\ Advance(e, "INIT") = "M1_VERIFIED"
                         /\ Advance(e, "M1_VERIFIED") = "M2_CREATED"
                         /\ Advance(e, "M2_CREATED") = "M3_VERIFIED"
                         /\ Advance(e, "M3_VERIFIED") = "M4_CREATED"
                         /\ Advance(e, "M4_CREATED") = "M5_VERIFIED"
                         /\ Advance(e, "M5_VERIFIED") = "ESTABLISHED"
<1>1. \A e \in Clients : e \notin Servers
  BY RolesAssumption
<1> QED  BY <1>1 DEF Advance, ServerTransitions, ClientTransitions

-----------------------------------------------------------------------------
(* The handlers. *)

\* create_m1 keeps the invariant and a failed session failed.
LEMMA CreateM1Step ==
  ASSUME IndInv, NEW e \in Endpoints, CreateM1(e)
  PROVE  IndInv' /\ FailedStep
<1> DEFINE s == [sess[e] EXCEPT !.state = Advance(e, @), !.sid = Sid(e),
                                !.pkS = Pk(e), !.skS = Sk(e), !.th = TH0(Sid(e))]
           m == M1(Sid(e), Pk(e), ServerKey[e])
           r == [s EXCEPT !.th = Ext(@, m)]
<1>1. sess[e] \in Session /\ sess[e].state = "INIT" /\ exc[e] = Ok /\ sess[e].ss = None
  <2>1. sess[e] = NewSession /\ exc[e] = Ok
    BY DEF IndInv, PhaseOK, FailedOK, LiveOK, CreateM1
  <2> QED  BY <2>1 DEF IndInv, TypeOK, NewSession
<1>2. Sid(e) \in Sids /\ Pk(e) \in Pks /\ Sk(e) \in Sks
  BY DEF Sid, Pk, Sk, Sids, Pks, Sks
<1>3. m \in M1s
  <2>1. ServerKey[e] \in SigningKeys
    BY SigningAssumption
  <2>2. Quote(Pk(e), Sid(e)) \in Quotes
    BY <1>2 DEF Quote, Quotes
  <2>3. Signature(ServerKey[e], Quote(Pk(e), Sid(e))) \in Sigs
    BY <2>1, <2>2 DEF Signature, Sigs
  <2> QED  BY <1>2, <2>2, <2>3 DEF M1, M1s, OrGarbled
<1>4. TH0(Sid(e)) \in {"th0"} \X Sids
  BY <1>2 DEF TH0
<1>5. CASE e \in Servers /\ Return(e, r, m)
  <2>1. Ext(TH0(Sid(e)), m) \in TH1s
    BY <1>3, <1>4 DEF Ext, TH1s
  <2>2. Advance(e, "INIT") = "M1_CREATED"
    BY <1>5, AdvanceValues
  <2>3. /\ r.state = "M1_CREATED" /\ r.sid = Sid(e) /\ r.skS = Sk(e)
        /\ r.ss = None /\ r.th \in TH1s
    BY <1>1, <2>1, <2>2 DEF Session
  <2>4. r \in Session
    BY <1>1, <1>2, <2>1, <2>2, Attributes DEF Session, ServerStates
  <2>5. GoodFor(e, r)
    BY <1>5, <2>3, <2>4, RolesAssumption DEF GoodFor, ServerStates
  <2>6. LiveOK(r)
    <3> HIDE DEF r
    <3> QED  BY <1>2, <2>3, TermsNotNone DEF LiveOK, EntryStates
  <2> QED  BY <1>1, <1>3, <1>5, <2>5, <2>6, ReturnStep DEF Messages
<1>6. CASE e \in Clients /\ Raise(e, s, "AttributeError")
  <2>1. e \notin Servers
    BY <1>6, RolesAssumption
  <2>2. Advance(e, "INIT") = "M1_VERIFIED"
    BY <1>6, AdvanceValues
  <2>3. s.state = "M1_VERIFIED" /\ s.key = sess[e].key
    BY <1>1, <2>2 DEF Session
  <2>4. s \in Session
    BY <1>1, <1>2, <1>4, <2>2, Attributes DEF Session, ClientStates
  <2>5. GoodFor(e, s)
    BY <2>1, <2>3, <2>4 DEF GoodFor, ClientStates
  <2>6. FailedOK(s)
    BY <2>3 DEF FailedOK
  <2> QED  BY <1>6, <2>3, <2>5, <2>6, RaiseStep DEF Exceptions
<1> QED  BY <1>5, <1>6 DEF CreateM1

\* process_m1 keeps the invariant and a failed session failed.
LEMMA ProcessM1Step ==
  ASSUME IndInv, NEW e \in Endpoints, NEW m \in M1s, ProcessM1(e, m)
  PROVE  IndInv' /\ FailedStep
<1> DEFINE s1 == [sess[e] EXCEPT !.state = Advance(e, @)]
           s2 == [s1 EXCEPT !.sid = m.sid, !.th = Ext(TH0(m.sid), m)]
           s3 == [s2 EXCEPT !.state = Advance(e, @)]
           m2 == M2(m.sid, Ciphertext(e, m.pkS), Commit(Tef(e), m.sid))
           r  == [s3 EXCEPT !.ss = SharedSecret(e, m.pkS), !.tefc = Tef(e),
                            !.commitC = m2.CommitC, !.th = Ext(@, m2)]
           x  == VerifyM1(m, ServerKey[e])
<1>1. sess[e] \in Session /\ sess[e].state = "INIT" /\ exc[e] = Ok /\ sess[e] = NewSession
  BY DEF IndInv, TypeOK, PhaseOK, FailedOK, LiveOK, ProcessM1
<1>2. sess[e].skS = None /\ sess[e].ss = None /\ sess[e].sid = None
  BY <1>1 DEF NewSession
<1>3. x \in Exceptions \cup {Ok} /\ (x = Ok => m.sid \in Sids /\ m.pkS \in Pks)
  BY VerifyM1Type
<1>4. e \in Servers => s1.state = "M1_CREATED" /\ e \notin Clients
  BY <1>1, AdvanceValues, RolesAssumption DEF Session
<1>5. e \in Clients => s1.state = "M1_VERIFIED" /\ e \notin Servers
  BY <1>1, AdvanceValues, RolesAssumption DEF Session
<1>6. /\ s1 \in Session /\ GoodFor(e, s1)
      /\ s1.skS = None /\ s1.ss = None /\ s1.sid = None /\ s1.key = sess[e].key
  <2>1. s1.state \in ServerStates \cup ClientStates
    BY <1>4, <1>5 DEF Endpoints, ServerStates, ClientStates
  <2>2. /\ s1 \in Session /\ s1.skS = None /\ s1.ss = None /\ s1.sid = None
        /\ s1.key = sess[e].key
    BY <1>1, <1>2, <2>1 DEF Session
  <2> QED  BY <1>4, <1>5, <2>2 DEF GoodFor, ServerStates, ClientStates
<1>7. CASE x # Ok /\ Raise(e, s1, x)
  <2>1. FailedOK(s1)
    BY <1>4, <1>5, <1>6 DEF FailedOK, Endpoints
  <2> QED  BY <1>3, <1>6, <1>7, <2>1, RaiseStep
<1>8. ASSUME x = Ok PROVE /\ Ext(TH0(m.sid), m) \in TH1s
                          /\ s2 \in Session /\ s2.th = Ext(TH0(m.sid), m) /\ s2.sid = m.sid
                          /\ s2.state = s1.state /\ s2.skS = None /\ s2.ss = None
                          /\ s2.key = sess[e].key
  <2>1. Ext(TH0(m.sid), m) \in TH1s
    BY <1>3, <1>8 DEF Ext, TH0, TH1s
  <2> HIDE DEF s1
  <2> QED  BY <1>3, <1>6, <1>8, <2>1, Attributes DEF Session
<1>9. CASE x = Ok /\ e \in Servers /\ Raise(e, s2, "InvalidStateTransition")
  <2>1. GoodFor(e, s2) /\ FailedOK(s2)
    <3> HIDE DEF s1, s2
    <3> QED  BY <1>4, <1>8, <1>9 DEF GoodFor, FailedOK, ServerStates
  <2> QED  BY <1>8, <1>9, <2>1, RaiseStep DEF Exceptions
<1>10. ASSUME x = Ok, e \in Clients
       PROVE  /\ s3 \in Session /\ s3.state = "M2_CREATED" /\ s3.ss = None
              /\ s3.sid = m.sid /\ s3.th = Ext(TH0(m.sid), m) /\ s3.key = sess[e].key
  <2>1. s2.state = "M1_VERIFIED" /\ Advance(e, s2.state) = "M2_CREATED"
    BY <1>5, <1>8, <1>10, AdvanceValues
  <2> HIDE DEF s2
  <2> QED  BY <1>8, <1>10, <2>1 DEF Session, ClientStates
<1>11. CASE x = Ok /\ e \in Clients /\ Raise(e, s3, "RuntimeError")
  <2>1. GoodFor(e, s3) /\ FailedOK(s3)
    <3> HIDE DEF s3
    <3> QED  BY <1>5, <1>10, <1>11 DEF GoodFor, FailedOK, ClientStates
  <2> QED  BY <1>10, <1>11, <2>1, RaiseStep DEF Exceptions
<1>12. CASE x = Ok /\ e \in Clients /\ Return(e, r, m2)
  <2>1. m.sid \in Sids /\ m.pkS \in Pks /\ Tef(e) \in Tefs
    BY <1>3, <1>12 DEF Tef, Tefs
  <2>2. SharedSecret(e, m.pkS) \in Secrets /\ Ciphertext(e, m.pkS) \in Cts
    BY <1>12, <2>1 DEF SharedSecret, Secrets, Ciphertext, Cts
  <2>3. m2.CommitC \in Commits /\ m2 \in M2s
    BY <2>1, <2>2 DEF Commit, Commits, M2, M2s, OrGarbled
  <2>4. Ext(s3.th, m2) \in TH2s
    BY <1>8, <1>10, <1>12, <2>3 DEF Ext, TH2s
  <2>5. /\ r \in Session /\ r.state = "M2_CREATED" /\ r.sid \in Sids
        /\ r.ss \in Secrets /\ r.tefc \in Tefs /\ r.th \in TH2s
    <3> HIDE DEF s3, m2
    <3> QED  BY <1>10, <1>12, <2>1, <2>2, <2>3, <2>4, Attributes DEF Session
  <2>6. GoodFor(e, r) /\ LiveOK(r)
    <3> HIDE DEF r
    <3> QED  BY <1>5, <1>12, <2>5, TermsNotNone
             DEF GoodFor, LiveOK, EntryStates, ClientStates
  <2> QED  BY <1>1, <1>12, <2>3, <2>6, ReturnStep DEF Messages
<1> QED  BY <1>7, <1>9, <1>11, <1>12 DEF ProcessM1

\* process_m2 keeps the invariant and a failed session failed.
LEMMA ProcessM2Step ==
  ASSUME IndInv, NEW e \in Endpoints, NEW m \in M2s, ProcessM2(e, m)
  PROVE  IndInv' /\ FailedStep
<1> DEFINE s1  == [sess[e] EXCEPT !.state = Advance(e, @)]
           th2 == Ext(s1.th, m)
           s2  == [s1 EXCEPT !.state = Advance(e, @), !.commitC = m.CommitC, !.th = th2]
           ss  == Decapsulate(s1.skS, m.ct)
           m3  == M3(Commit(Tef(e), s1.sid), ss, th2)
           r   == [s2 EXCEPT !.ss = ss, !.tefs = Tef(e), !.commitS = m3.CommitS,
                             !.th = Ext(@, m3)]
           x   == VerifyM2(m, s1.sid)
<1>1. sess[e] \in Session /\ sess[e].state = "M1_CREATED"
  BY DEF IndInv, TypeOK, ProcessM2
<1>2. e \in Servers /\ e \notin Clients
  BY <1>1, RolesAssumption DEF IndInv, TypeOK, ClientStates, Endpoints
<1>3. /\ sess[e].ss = None
      /\ sess[e].sid # None => sess[e].th \in TH1s
      /\ exc[e] # Ok => sess[e].skS = None
  BY <1>1 DEF IndInv, PhaseOK, LiveOK, FailedOK
<1>4. Advance(e, "M1_CREATED") = "M2_VERIFIED" /\ Advance(e, "M2_VERIFIED") = "M3_CREATED"
  BY <1>2, AdvanceValues
<1>5. /\ s1 \in Session /\ s1.state = "M2_VERIFIED"
      /\ s1.ss = None /\ s1.th = sess[e].th /\ s1.sid = sess[e].sid
      /\ s1.skS = sess[e].skS /\ s1.key = sess[e].key
  BY <1>1, <1>3, <1>4 DEF Session, ServerStates
<1>6. x \in Exceptions \cup {Ok} /\ (x = Ok => s1.sid \in Sids /\ s1.sid = m.sid)
  <2>1. x = Ok => s1.sid = m.sid
    BY DEF VerifyM2, Ok
  <2>2. m.sid # None
    BY TermsNotNone DEF M2s, OrGarbled, Garbled, None
  <2>3. s1.sid \in OrNone(Sids)
    BY <1>5 DEF Session
  <2> QED  BY <2>1, <2>2, <2>3 DEF OrNone, VerifyM2, Exceptions
<1>7. CASE x # Ok /\ Raise(e, s1, x)
  <2>1. GoodFor(e, s1) /\ FailedOK(s1)
    <3> HIDE DEF s1
    <3> QED  BY <1>2, <1>5 DEF GoodFor, FailedOK, ServerStates
  <2> QED  BY <1>5, <1>6, <1>7, <2>1, RaiseStep
<1>8. ASSUME x = Ok
      PROVE  /\ th2 \in TH2s /\ s2 \in Session /\ s2.state = "M3_CREATED"
             /\ s2.ss = None /\ s2.sid = s1.sid /\ s2.th = th2 /\ s2.key = sess[e].key
  <2>1. th2 \in TH2s
    BY <1>3, <1>5, <1>6, <1>8, TermsNotNone DEF Ext, TH2s
  <2>2. m.CommitC \in OrNone(OrGarbled(Commits))
    BY Attributes DEF M2s
  <2> HIDE DEF s1, th2
  <2> QED  BY <1>4, <1>5, <2>1, <2>2, Attributes DEF Session, ServerStates
<1>9. ASSUME x = Ok, NEW y \in Exceptions, Raise(e, s2, y)
      PROVE  IndInv' /\ FailedStep
  <2>1. GoodFor(e, s2) /\ FailedOK(s2)
    <3> HIDE DEF s2
    <3> QED  BY <1>2, <1>8, <1>9 DEF GoodFor, FailedOK, ServerStates
  <2> QED  BY <1>8, <1>9, <2>1, RaiseStep
<1>10. CASE x = Ok /\ s1.skS = None /\ Raise(e, s2, "AttributeError")
  BY <1>9, <1>10 DEF Exceptions
<1>11. CASE x = Ok /\ s1.skS # None /\ Raise(e, s2, "RuntimeError")
  BY <1>9, <1>11 DEF Exceptions
<1>12. CASE x = Ok /\ s1.skS # None /\ Return(e, r, m3)
  <2>1. s1.sid \in Sids /\ Tef(e) \in Tefs /\ s1.skS \in Sks
    <3>1. Tef(e) \in Tefs
      BY DEF Tef, Tefs
    <3>2. s1.skS \in OrNone(Sks)
      BY <1>5 DEF Session
    <3> QED  BY <1>6, <1>12, <3>1, <3>2 DEF OrNone
  <2>2. ss \in Secrets
    <3>1. m.ct \in OrGarbled(Cts)
      BY DEF M2s
    <3> QED  BY <2>1, <3>1, DecapsulateType
  <2>3. m3.CommitS \in Commits /\ m3 \in M3s
    <3> HIDE DEF s1, th2, ss
    <3>1. Hmac(DeriveTK(ss), "commit", th2) \in {"hmac"} \X TKs \X {"commit"} \X TH2s
      BY <1>8, <1>12, <2>2 DEF Hmac, DeriveTK, TKs
    <3> QED  BY <2>1, <3>1 DEF Commit, Commits, M3, M3s, OrGarbled
  <2>4. Ext(s2.th, m3) \in TH3s
    <3> HIDE DEF s2, m3
    <3> QED  BY <1>8, <1>12, <2>3 DEF Ext, TH3s
  <2>5. /\ r \in Session /\ r.state = "M3_CREATED" /\ r.sid \in Sids
        /\ r.ss \in Secrets /\ r.tefs \in Tefs /\ r.th \in TH3s
    <3> HIDE DEF s1, s2, m3, ss
    <3> QED  BY <1>8, <1>12, <2>1, <2>2, <2>3, <2>4, Attributes DEF Session
  <2>6. exc[e] = Ok
    BY <1>3, <1>5, <1>12
  <2>7. GoodFor(e, r) /\ LiveOK(r)
    <3> HIDE DEF r
    <3> QED  BY <1>2, <2>5, TermsNotNone DEF GoodFor, LiveOK, EntryStates, ServerStates
  <2> QED  BY <1>12, <2>3, <2>6, <2>7, ReturnStep DEF Messages
<1> QED  BY <1>7, <1>10, <1>11, <1>12 DEF ProcessM2

\* process_m3 keeps the invariant and a failed session failed.
LEMMA ProcessM3Step ==
  ASSUME IndInv, NEW e \in Endpoints, NEW m \in M3s, ProcessM3(e, m)
  PROVE  IndInv' /\ FailedStep
<1> DEFINE s1  == [sess[e] EXCEPT !.state = Advance(e, @)]
           th3 == Ext(s1.th, m)
           m4  == M4(s1.ss, s1.tefc, th3)
           r   == [s1 EXCEPT !.state = Advance(e, @), !.commitS = m.CommitS,
                             !.th = Ext(th3, m4)]
           x   == IF s1.ss = None THEN "TypeError" ELSE VerifyM3(m, s1.ss, s1.th)
<1>1. sess[e] \in Session /\ sess[e].state = "M2_CREATED"
  BY DEF IndInv, TypeOK, ProcessM3
<1>2. e \in Clients /\ e \notin Servers
  BY <1>1, RolesAssumption DEF IndInv, TypeOK, ServerStates, Endpoints
<1>3. Advance(e, "M2_CREATED") = "M3_VERIFIED" /\ Advance(e, "M3_VERIFIED") = "M4_CREATED"
  BY <1>2, AdvanceValues
<1>4. /\ s1 \in Session /\ s1.state = "M3_VERIFIED" /\ s1.ss = sess[e].ss
      /\ s1.tefc = sess[e].tefc /\ s1.th = sess[e].th /\ s1.sid = sess[e].sid
      /\ s1.key = sess[e].key
  BY <1>1, <1>3 DEF Session, ClientStates
<1>5. CASE x # Ok /\ Raise(e, s1, x)
  <2>1. x \in Exceptions
    BY <1>5 DEF VerifyM3, Exceptions, Ok
  <2>2. GoodFor(e, s1) /\ FailedOK(s1)
    <3> HIDE DEF s1
    <3> QED  BY <1>2, <1>4 DEF GoodFor, FailedOK, ClientStates
  <2> QED  BY <1>4, <1>5, <2>1, <2>2, RaiseStep
<1>6. CASE x = Ok /\ Return(e, r, m4)
  <2>1. s1.ss # None
    BY <1>6 DEF Ok
  <2>2. exc[e] = Ok
    BY <1>1, <1>4, <2>1 DEF IndInv, PhaseOK, FailedOK
  <2>3. s1.sid # None /\ s1.tefc # None /\ s1.th \in TH2s
    BY <1>1, <1>4, <2>2 DEF IndInv, PhaseOK, LiveOK
  <2>4. s1.ss \in Secrets /\ s1.tefc \in Tefs /\ s1.sid \in Sids
    <3>1. s1.ss \in OrNone(Secrets) /\ s1.tefc \in OrNone(Tefs) /\ s1.sid \in OrNone(Sids)
      BY <1>4 DEF Session
    <3> QED  BY <2>1, <2>3, <3>1 DEF OrNone
  <2> HIDE DEF s1
  <2>5. th3 \in TH3s
    BY <2>3 DEF Ext, TH3s
  <2>6. m4 \in M4s
    <3> HIDE DEF th3
    <3>1. Encrypt(DeriveKwrapC(s1.ss), s1.tefc, th3)
            \in {"aead"} \X KwrapCs \X Tefs \X TH3s
      BY <2>4, <2>5 DEF Encrypt, DeriveKwrapC, KwrapCs
    <3> QED  BY <3>1 DEF M4, M4s, OrGarbled
  <2>7. Ext(th3, m4) \in TH4s
    <3> HIDE DEF th3, m4
    <3> QED  BY <2>5, <2>6 DEF Ext, TH4s
  <2>8. /\ r \in Session /\ r.state = "M4_CREATED" /\ r.sid = s1.sid
        /\ r.ss = s1.ss /\ r.tefc = s1.tefc /\ r.th \in TH4s
    <3>1. m.CommitS \in OrNone(OrGarbled(Commits))
      BY Attributes DEF M3s
    <3> HIDE DEF th3, m4
    <3> QED  BY <1>3, <1>4, <2>7, <3>1, Attributes DEF Session, ClientStates
  <2>9. GoodFor(e, r) /\ LiveOK(r)
    <3> HIDE DEF r
    <3> QED  BY <1>2, <2>4, <2>8, TermsNotNone DEF GoodFor, LiveOK, EntryStates, ClientStates
  <2> QED  BY <1>6, <2>2, <2>6, <2>9, ReturnStep DEF Messages
<1> QED  BY <1>5, <1>6 DEF ProcessM3

\* process_m4 keeps the invariant and a failed session failed.
LEMMA ProcessM4Step ==
  ASSUME IndInv, NEW e \in Endpoints, NEW m \in M4s, ProcessM4(e, m)
  PROVE  IndInv' /\ FailedStep
<1> DEFINE s1   == [sess[e] EXCEPT !.state = Advance(e, @)]
           x    == IF s1.ss = None THEN "TypeError"
                   ELSE VerifyM4(m, s1.ss, s1.commitC, s1.sid, s1.th)
           tefc == Plaintext(m.wrappedC)
           th4  == Ext(s1.th, m)
           key  == DeriveSessionKey(s1.ss, Fusion(tefc, s1.tefs, s1.sid))
           w    == WrapS(s1.ss, s1.tefs, th4)
           m5   == M5(w, key, Ext(th4, w))
           r    == [s1 EXCEPT !.state = Advance(e, @), !.tefc = tefc, !.key = key,
                              !.m5 = m5, !.th = Ext(th4, w)]
<1>1. sess[e] \in Session /\ sess[e].state = "M3_CREATED"
  BY DEF IndInv, TypeOK, ProcessM4
<1>2. e \in Servers /\ e \notin Clients
  BY <1>1, RolesAssumption DEF IndInv, TypeOK, ClientStates, Endpoints
<1>3. Advance(e, "M3_CREATED") = "M4_VERIFIED" /\ Advance(e, "M4_VERIFIED") = "M5_CREATED"
  BY <1>2, AdvanceValues
<1>4. /\ s1 \in Session /\ s1.state = "M4_VERIFIED" /\ s1.ss = sess[e].ss
      /\ s1.tefs = sess[e].tefs /\ s1.th = sess[e].th /\ s1.sid = sess[e].sid
      /\ s1.key = sess[e].key
  BY <1>1, <1>3 DEF Session, ServerStates
<1>5. x \in Exceptions \cup {Ok} /\ (x = Ok => s1.ss # None /\ tefc \in Tefs)
  BY VerifyM4Type DEF Exceptions, Ok
<1>6. CASE x # Ok /\ Raise(e, s1, x)
  <2>1. GoodFor(e, s1) /\ FailedOK(s1)
    <3> HIDE DEF s1
    <3> QED  BY <1>2, <1>4 DEF GoodFor, FailedOK, ServerStates
  <2> QED  BY <1>4, <1>5, <1>6, <2>1, RaiseStep
<1>7. CASE x = Ok /\ Return(e, r, m5)
  <2>1. s1.ss # None /\ tefc \in Tefs
    BY <1>5, <1>7
  <2>2. exc[e] = Ok
    BY <1>1, <1>4, <2>1 DEF IndInv, PhaseOK, FailedOK
  <2>3. s1.sid # None /\ s1.tefs # None /\ s1.th \in TH3s
    BY <1>1, <1>4, <2>2 DEF IndInv, PhaseOK, LiveOK
  <2>4. s1.ss \in Secrets /\ s1.tefs \in Tefs /\ s1.sid \in Sids
    <3>1. s1.ss \in OrNone(Secrets) /\ s1.tefs \in OrNone(Tefs) /\ s1.sid \in OrNone(Sids)
      BY <1>4 DEF Session
    <3> QED  BY <2>1, <2>3, <3>1 DEF OrNone
  <2> HIDE DEF s1, tefc
  <2>5. th4 \in TH4s
    BY <2>3 DEF Ext, TH4s
  <2>6. key \in Keys
    BY <2>1, <2>4 DEF DeriveSessionKey, Fusion, Keys
  <2>7. w \in WrapSs
    <3> HIDE DEF th4
    <3> QED  BY <2>4, <2>5 DEF WrapS, Encrypt, DeriveKwrapS, KwrapSs, WrapSs
  <2>8. Ext(th4, w) \in TH5s
    <3> HIDE DEF th4, w
    <3> QED  BY <2>5, <2>7 DEF Ext, TH5s
  <2>9. m5 \in M5s
    <3> HIDE DEF th4, w, key
    <3>1. Hmac(key, "confirm-S", Ext(th4, w)) \in {"hmac"} \X Keys \X {"confirm-S"} \X TH5s
      BY <2>6, <2>8 DEF Hmac
    <3> QED  BY <2>7, <3>1 DEF M5, M5s, OrGarbled
  <2>10. /\ r \in Session /\ r.state = "M5_CREATED" /\ r.key = key
         /\ r.m5 = m5 /\ r.th \in TH5s
    <3> HIDE DEF th4, w, key, m5
    <3> QED  BY <1>3, <1>4, <2>1, <2>6, <2>8, <2>9, Attributes DEF Session, ServerStates
  <2>11. GoodFor(e, r) /\ LiveOK(r)
    <3> HIDE DEF r, key, m5
    <3> QED  BY <1>2, <2>6, <2>9, <2>10, TermsNotNone
             DEF GoodFor, LiveOK, EntryStates, ServerStates
  <2> QED  BY <1>7, <2>2, <2>9, <2>11, ReturnStep DEF Messages
<1> QED  BY <1>6, <1>7 DEF ProcessM4

\* A session whose secrets are erased is live in ESTABLISHED.
LEMMA EstablishedLive ==
  ASSUME NEW s \in Session
  PROVE  /\ Established(s) \in Session /\ Established(s).state = "ESTABLISHED"
         /\ LiveOK(Established(s))
<1>1. Established(s) \in Session /\ Established(s).state = "ESTABLISHED"
  BY Attributes DEF Established, Zeroize, Session, ServerStates
<1> QED  BY <1>1 DEF LiveOK

\* process_m5 keeps the invariant and a failed session failed.
LEMMA ProcessM5Step ==
  ASSUME IndInv, NEW e \in Endpoints, NEW m \in M5s, ProcessM5(e, m)
  PROVE  IndInv' /\ FailedStep
<1> DEFINE s1  == [sess[e] EXCEPT !.state = Advance(e, @)]
           x   == VerifyM5(m, s1)
           key == KeyFromM5(m, s1)
           th5 == Ext(s1.th, m.wrappedS)
           s2  == [s1 EXCEPT !.state = Advance(e, @), !.key = key, !.m5 = m, !.th = th5]
           m6  == M6(key, th5, m)
<1>1. sess[e] \in Session /\ sess[e].state = "M4_CREATED"
  BY DEF IndInv, TypeOK, ProcessM5
<1>2. e \in Clients /\ e \notin Servers
  BY <1>1, RolesAssumption DEF IndInv, TypeOK, ServerStates, Endpoints
<1>3. Advance(e, "M4_CREATED") = "M5_VERIFIED" /\ Advance(e, "M5_VERIFIED") = "ESTABLISHED"
  BY <1>2, AdvanceValues
<1>4. /\ s1 \in Session /\ s1.state = "M5_VERIFIED" /\ s1.ss = sess[e].ss
      /\ s1.tefc = sess[e].tefc /\ s1.th = sess[e].th /\ s1.sid = sess[e].sid
      /\ s1.key = sess[e].key
  BY <1>1, <1>3 DEF Session, ClientStates
<1>5. x \in Exceptions \cup {Ok}
      /\ (x = Ok => m.wrappedS \in WrapSs /\ Plaintext(m.wrappedS) \in Tefs)
  BY VerifyM5Type
<1>6. CASE x # Ok /\ Raise(e, s1, x)
  <2>1. GoodFor(e, s1) /\ FailedOK(s1)
    <3> HIDE DEF s1
    <3> QED  BY <1>2, <1>4 DEF GoodFor, FailedOK, ClientStates
  <2> QED  BY <1>4, <1>5, <1>6, <2>1, RaiseStep
<1>7. CASE x = Ok /\ Return(e, Established(s2), m6)
  <2>1. exc[e] = Ok
    BY <1>1 DEF IndInv, PhaseOK, FailedOK
  <2>2. s1.sid # None /\ s1.ss # None /\ s1.tefc # None /\ s1.th \in TH4s
    BY <1>1, <1>4, <2>1 DEF IndInv, PhaseOK, LiveOK
  <2>3. s1.ss \in Secrets /\ s1.tefc \in Tefs /\ s1.sid \in Sids
    <3>1. s1.ss \in OrNone(Secrets) /\ s1.tefc \in OrNone(Tefs) /\ s1.sid \in OrNone(Sids)
      BY <1>4 DEF Session
    <3> QED  BY <2>2, <3>1 DEF OrNone
  <2> HIDE DEF s1
  <2>4. key \in Keys
    BY <1>5, <1>7, <2>3 DEF KeyFromM5, DeriveSessionKey, Fusion, Keys
  <2>5. th5 \in TH5s
    BY <1>5, <1>7, <2>2 DEF Ext, TH5s
  <2>6. m6 \in M6s
    <3> HIDE DEF key, th5
    <3>1. Hmac(key, "confirm-C", Ext(th5, m))
            \in {"hmac"} \X Keys \X {"confirm-C"} \X ({"th"} \X TH5s \X M5s)
      BY <2>4, <2>5 DEF Hmac, Ext
    <3> QED  BY <3>1 DEF M6, M6s, OrGarbled
  <2>7. s2 \in Session /\ s2.state = "ESTABLISHED"
    <3> HIDE DEF key, th5
    <3> QED  BY <1>3, <1>4, <2>4, <2>5, Attributes DEF Session, ClientStates
  <2>8. GoodFor(e, Established(s2)) /\ LiveOK(Established(s2))
    <3> HIDE DEF s2
    <3> QED  BY <1>2, <2>7, EstablishedLive DEF GoodFor, ClientStates
  <2> QED  BY <1>7, <2>1, <2>6, <2>8, ReturnStep DEF Messages
<1> QED  BY <1>6, <1>7 DEF ProcessM5

\* process_m6 keeps the invariant and a failed session failed.
LEMMA ProcessM6Step ==
  ASSUME IndInv, NEW e \in Endpoints, NEW m \in M6s, ProcessM6(e, m)
  PROVE  IndInv' /\ FailedStep
<1> DEFINE s1 == [sess[e] EXCEPT !.state = Advance(e, @)]
           x  == VerifyM6(m, s1.key, s1.m5, s1.th)
<1>1. sess[e] \in Session /\ sess[e].state = "M5_CREATED"
  BY DEF IndInv, TypeOK, ProcessM6
<1>2. e \in Servers /\ e \notin Clients
  BY <1>1, RolesAssumption DEF IndInv, TypeOK, ClientStates, Endpoints
<1>3. s1 \in Session /\ s1.state = "ESTABLISHED" /\ s1.key = sess[e].key
  BY <1>1, <1>2, AdvanceValues DEF Session, ServerStates
<1>4. CASE x # Ok /\ Raise(e, s1, x)
  <2>1. x \in Exceptions
    BY <1>4 DEF VerifyM6, Exceptions, Ok
  <2>2. GoodFor(e, s1) /\ FailedOK(s1)
    <3> HIDE DEF s1
    <3> QED  BY <1>2, <1>3 DEF GoodFor, FailedOK, ServerStates
  <2> QED  BY <1>3, <1>4, <2>1, <2>2, RaiseStep
<1>5. CASE /\ x = Ok
           /\ sess' = [sess EXCEPT ![e] = Established(s1)]
           /\ UNCHANGED <<wire, exc, rejected>>
  <2>1. exc[e] = Ok
    BY <1>1 DEF IndInv, PhaseOK, FailedOK
  <2>2. GoodFor(e, Established(s1)) /\ LiveOK(Established(s1))
    <3> HIDE DEF s1
    <3> QED  BY <1>2, <1>3, EstablishedLive DEF GoodFor, ServerStates
  <2> HIDE DEF s1
  <2>3. TypeOK'
    BY <1>5, <2>2 DEF IndInv, TypeOK, GoodFor, Endpoints
  <2>4. PhaseOK'
    BY <1>5, <2>1, <2>2 DEF IndInv, TypeOK, PhaseOK
  <2>5. FailedStep
    BY <1>5, <2>1, OtherSessions
  <2> QED  BY <2>3, <2>4, <2>5 DEF IndInv
<1> QED  BY <1>4, <1>5 DEF ProcessM6

\* A call out of sequence changes no session.
LEMMA OutOfSequenceStep ==
  ASSUME IndInv, NEW e \in Endpoints, OutOfSequence(e)
  PROVE  IndInv' /\ FailedStep
BY DEF IndInv, TypeOK, PhaseOK, FailedStep, OutOfSequence

-----------------------------------------------------------------------------
(* The theorems. *)

\* New sessions satisfy the invariant.
LEMMA InitIndInv ==
  ASSUME Init
  PROVE  IndInv
<1>1. NewSession \in Session
  BY Attributes DEF NewSession, Session, Transcripts, OrNone, ServerStates
<1>2. TypeOK
  BY <1>1 DEF Init, TypeOK, Endpoints, NewSession, ServerStates, ClientStates, Ok
<1>3. LiveOK(NewSession)
  BY DEF LiveOK, NewSession, EntryStates
<1>4. PhaseOK
  BY <1>3 DEF Init, PhaseOK
<1> QED  BY <1>2, <1>4 DEF IndInv

\* Every call keeps the invariant and failed sessions failed.
LEMMA NextIndInv ==
  ASSUME IndInv, [Next]_vars
  PROVE  IndInv' /\ (Next => FailedStep)
<1>1. CASE UNCHANGED vars
  BY <1>1 DEF vars, IndInv, TypeOK, PhaseOK, FailedStep
<1>2. CASE Next
  <2>1. wire \subseteq Messages
    BY DEF IndInv, TypeOK
  <2>2. PICK e \in Endpoints :
          \/ CreateM1(e)
          \/ \E m \in Inbound("M1") : ProcessM1(e, m)
          \/ \E m \in Inbound("M2") : ProcessM2(e, m)
          \/ \E m \in Inbound("M3") : ProcessM3(e, m)
          \/ \E m \in Inbound("M4") : ProcessM4(e, m)
          \/ \E m \in Inbound("M5") : ProcessM5(e, m)
          \/ \E m \in Inbound("M6") : ProcessM6(e, m)
          \/ OutOfSequence(e)
    BY <1>2 DEF Next
  <2>3. CASE CreateM1(e)
    BY <2>3, CreateM1Step
  <2>4. CASE \E m \in Inbound("M1") : ProcessM1(e, m)
    BY <2>1, <2>4, InboundType, ProcessM1Step
  <2>5. CASE \E m \in Inbound("M2") : ProcessM2(e, m)
    BY <2>1, <2>5, InboundType, ProcessM2Step
  <2>6. CASE \E m \in Inbound("M3") : ProcessM3(e, m)
    BY <2>1, <2>6, InboundType, ProcessM3Step
  <2>7. CASE \E m \in Inbound("M4") : ProcessM4(e, m)
    BY <2>1, <2>7, InboundType, ProcessM4Step
  <2>8. CASE \E m \in Inbound("M5") : ProcessM5(e, m)
    BY <2>1, <2>8, InboundType, ProcessM5Step
  <2>9. CASE \E m \in Inbound("M6") : ProcessM6(e, m)
    BY <2>1, <2>9, InboundType, ProcessM6Step
  <2>10. CASE OutOfSequence(e)
    BY <2>10, OutOfSequenceStep
  <2> QED  BY <2>2, <2>3, <2>4, <2>5, <2>6, <2>7, <2>8, <2>9, <2>10
<1> QED  BY <1>1, <1>2

\* The inductive invariant holds of every behaviour, for every set of sessions.
THEOREM Invariance == Spec => []IndInv
<1>1. Init => IndInv
  BY InitIndInv
<1>2. IndInv /\ [Next]_vars => IndInv'
  BY NextIndInv
<1> QED  BY <1>1, <1>2, PTL DEF Spec

\* Attributes, messages and exceptions keep their types, and no session ever
\* reaches a state of the other role, for every set of sessions (session.py).
THEOREM TypeCorrect == Spec => []TypeOK
<1>1. IndInv => TypeOK
  BY DEF IndInv
<1> QED  BY <1>1, Invariance, PTL

\* Every session is live and complete for its state, or failed and without
\* what it would need to go on, for every set of sessions (session.py 75-199).
THEOREM PhaseCorrect == Spec => []PhaseOK
<1>1. IndInv => PhaseOK
  BY DEF IndInv
<1> QED  BY <1>1, Invariance, PTL

\* No call to a failed session returns a message or derives a key, for every
\* set of sessions and every caller (session.py 83-199).
THEOREM FailureIsFinal == Spec => FailedStaysFailed
<1>1. IndInv /\ [Next]_vars => [FailedStep]_vars
  BY NextIndInv
<1> QED  BY <1>1, Invariance, PTL DEF Spec, FailedStaysFailed
=============================================================================
