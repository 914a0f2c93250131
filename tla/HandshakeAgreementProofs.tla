------------------------ MODULE HandshakeAgreementProofs ------------------------
(***************************************************************************)
(* Proofs about HandshakeAgreement for every set of sessions: the facts     *)
(* the sessions prove to each other hold, so a TEF is revealed only to a    *)
(* peer that is committed, a key is accepted only with its peer, and the    *)
(* sessions implement KeyAgreement.                                         *)
(***************************************************************************)
EXTENDS HandshakeAgreement, HandshakeSessionProofs

AgreementInv == IndInv /\ FactsOK

-----------------------------------------------------------------------------
(* Terms. *)

\* One link of the hash chain determines the chain before it.
LEMMA ExtInjective ==
  ASSUME NEW th1, NEW m1, NEW th2, NEW m2, Ext(th1, m1) = Ext(th2, m2)
  PROVE  th1 = th2 /\ m1 = m2
BY DEF Ext

\* A session id names the server that drew it.
LEMMA SidInjective ==
  /\ \A s, t : Sid(s) = Sid(t) => s = t
  /\ \A s, t : TH0(Sid(s)) = TH0(Sid(t)) => s = t
BY DEF Sid, TH0

\* A commitment names the TEF and the session id in it.
LEMMA CommitInjective ==
  \A c, s, d, t : Commit(Tef(c), Sid(s)) = Commit(Tef(d), Sid(t)) => c = d /\ s = t
BY DEF Commit, Tef, Sid

\* The transcript after M2 determines the server, and the M1 and M2 in it:
\* two transcripts that agree come from the same server and the same M2.
LEMMA TH2Injective ==
  ASSUME NEW s, NEW t, NEW m1, NEW m2, NEW n2,
         \/ TH2Of(s, m2) = Ext(Ext(TH0(Sid(t)), m1), n2)
         \/ TH2Of(s, m2) = TH2Of(t, n2)
  PROVE  /\ s = t /\ m2 = n2
         /\ TH2Of(s, m2) = Ext(Ext(TH0(Sid(t)), m1), n2) => Ext(TH0(Sid(t)), m1) = TH1Of(t)
<1>1. PICK n1 : TH2Of(s, m2) = Ext(Ext(TH0(Sid(t)), n1), n2)
  BY DEF TH2Of, TH1Of
<1>2. TH1Of(s) = Ext(TH0(Sid(t)), n1) /\ m2 = n2
  BY <1>1, ExtInjective DEF TH2Of
<1>3. TH0(Sid(s)) = TH0(Sid(t))
  BY <1>2, ExtInjective DEF TH1Of
<1>4. s = t
  BY <1>3, SidInjective
<1>5. ASSUME TH2Of(s, m2) = Ext(Ext(TH0(Sid(t)), m1), n2)
      PROVE  Ext(TH0(Sid(t)), m1) = TH1Of(t)
  BY <1>4, <1>5, ExtInjective DEF TH2Of
<1> QED  BY <1>2, <1>4, <1>5

\* An M2 names the client and the server it was made for.
LEMMA M2Injective ==
  ASSUME NEW c, NEW s, NEW d, NEW t, M2Of(c, s).CommitC = M2Of(d, t).CommitC
  PROVE  c = d /\ s = t
BY CommitInjective DEF M2Of, M2

\* The fields of an M2, an M3 and an M4 as their senders make them.
LEMMA FieldsOf ==
  /\ \A c, s : M2Of(c, s).CommitC = Commit(Tef(c), Sid(s))
  /\ \A s, m2 : M3Of(s, m2).CommitS = Commit(Tef(s), Sid(s))
  /\ \A s, c : AgreedM3(s, c).CommitS = Commit(Tef(s), Sid(s))
  /\ \A s, m2 : M3Of(s, m2).MAC1 = Hmac(DeriveTK(SsOf(s, m2)), "commit", TH2Of(s, m2))
  /\ \A c, s, m3 : M4Of(c, s, m3).wrappedC
       = Encrypt(DeriveKwrapC(SharedSecret(c, Pk(s))), Tef(c), TH3Of(c, s, m3))
BY DEF M2Of, M2, AgreedM3, M3Of, M3, M4Of, M4

\* Decapsulation of the ciphertext made for it gives the server the secret.
LEMMA SsAgreed ==
  ASSUME NEW c, NEW s
  PROVE  SsOf(s, M2Of(c, s)) = SharedSecret(c, Pk(s))
<1>1. M2Of(c, s).ct = Ciphertext(c, Pk(s))
  BY DEF M2Of, M2
<1>2. /\ Ciphertext(c, Pk(s)) # Garbled
      /\ Ciphertext(c, Pk(s))[2] = c /\ Ciphertext(c, Pk(s))[3] = Pk(s)
  BY DEF Ciphertext, Garbled
<1>3. Sk(s)[2] = s
  BY DEF Sk
<1> QED  BY <1>1, <1>2, <1>3 DEF SsOf, Decapsulate

\* A tag determines its key and its transcript, a wrap all it was made of.
LEMMA TagInjective ==
  /\ \A k1, l1, t1, k2, l2, t2 :
       Hmac(k1, l1, t1) = Hmac(k2, l2, t2) => k1 = k2 /\ t1 = t2
  /\ \A a, b : DeriveTK(a) = DeriveTK(b) => a = b
  /\ \A k, l, t : Hmac(k, l, t) # Garbled
  /\ \A k, p, t : /\ Encrypt(k, p, t) # Garbled /\ Plaintext(Encrypt(k, p, t)) = p
                  /\ \A j, u : Opens(j, Encrypt(k, p, t), u) => j = k /\ u = t
<1>1. \A k1, l1, t1, k2, l2, t2 :
        Hmac(k1, l1, t1) = Hmac(k2, l2, t2) => k1 = k2 /\ t1 = t2
  BY DEF Hmac
<1>2. \A a, b : DeriveTK(a) = DeriveTK(b) => a = b
  BY DEF DeriveTK
<1>3. \A k, l, t : Hmac(k, l, t) # Garbled
  BY DEF Hmac, Garbled
<1>4. \A k, p, t : /\ Encrypt(k, p, t) # Garbled /\ Plaintext(Encrypt(k, p, t)) = p
                   /\ \A j, u : Opens(j, Encrypt(k, p, t), u) => j = k /\ u = t
  BY DEF Encrypt, Garbled, Plaintext, Opens
<1> QED  BY <1>1, <1>2, <1>3, <1>4

\* A session key names the server and the client that contributed to it.
LEMMA KeyInjective ==
  /\ \A s, c, t, d : SessionKeyOf(s, c) = SessionKeyOf(t, d) => s = t /\ c = d
  /\ \A s, c : SessionKeyOf(s, c) # None /\ SessionKeyOf(s, c)[3][2] = Tef(c)
<1>1. \A s, c, t, d : SessionKeyOf(s, c) = SessionKeyOf(t, d) => s = t /\ c = d
  BY DEF SessionKeyOf, DeriveSessionKey, Fusion, SharedSecret, Pk, Tef, Sid
<1>2. \A s, c : SessionKeyOf(s, c) # None /\ SessionKeyOf(s, c)[3][2] = Tef(c)
  BY DEF SessionKeyOf, DeriveSessionKey, Fusion, None
<1> QED  BY <1>1, <1>2

-----------------------------------------------------------------------------
(* What the caller passes. *)

\* A field that a check rests on is undamaged if the check can succeed, and
\* an M4, M5 or M6 without a damaged field is the message that was returned.
LEMMA InboundOrigin ==
  ASSUME wire \subseteq Messages
  PROVE  /\ \A m \in Inbound("M1") : m.quote = Garbled \/
              \E n \in wire : n.type = "M1" /\ n.quote = m.quote
         /\ \A m \in Inbound("M3") : m.MAC1 = Garbled \/
              \E n \in wire : n.type = "M3" /\ n.MAC1 = m.MAC1
         /\ \A m \in Inbound("M4") : m.wrappedC = Garbled \/ (m \in wire /\ m.type = "M4")
         /\ \A m \in Inbound("M5") :
              m.wrappedS = Garbled \/ m.MACS = Garbled \/ (m \in wire /\ m.type = "M5")
         /\ \A m \in Inbound("M6") : m.MACC = Garbled \/ (m \in wire /\ m.type = "M6")
<1>1. \A m \in wire : /\ m.type = "M1" => m \in M1s
                      /\ m.type = "M3" => m \in M3s
                      /\ m.type = "M4" => m \in M4s
                      /\ m.type = "M5" => m \in M5s
                      /\ m.type = "M6" => m \in M6s
  BY DEF Messages, M1s, M2s, M3s, M4s, M5s, M6s
<1>2. \A n \in M1s : \A m \in Damaged(n) : m.quote = Garbled \/ m.quote = n.quote
  BY DEF Damaged, M1s
<1>3. \A n \in M3s : \A m \in Damaged(n) : m.MAC1 = Garbled \/ m.MAC1 = n.MAC1
  BY DEF Damaged, M3s
<1>4. \A n \in M4s : \A m \in Damaged(n) : m.wrappedC = Garbled
  BY DEF Damaged, M4s
<1>5. \A n \in M5s : \A m \in Damaged(n) : m.wrappedS = Garbled \/ m.MACS = Garbled
  BY DEF Damaged, M5s
<1>6. \A n \in M6s : \A m \in Damaged(n) : m.MACC = Garbled
  BY DEF Damaged, M6s
<1>7. \A type, m : m \in Inbound(type) =>
        \/ m \in wire /\ m.type = type
        \/ \E n \in wire : n.type = type /\ m \in Damaged(n)
  BY DEF Inbound
<1> QED  BY <1>1, <1>2, <1>3, <1>4, <1>5, <1>6, <1>7

\* What a caller could pass before a step it can pass after it.
LEMMA InboundGrows ==
  ASSUME wire \subseteq wire'
  PROVE  \A type : Inbound(type) \subseteq Inbound(type)'
BY DEF Inbound, Damaged

-----------------------------------------------------------------------------
(* What a step leaves of the facts. *)

\* A call of session e touches no other session, and of e it keeps what its
\* peer relies on: the session id and both commitments once they are fixed,
\* the secrets until they are used, the key and the transcript once derived.
Kept(e) ==
  LET h == sess[e]
      n == sess'[e]
  IN /\ \A d \in Endpoints \ {e} : sess'[d] = sess[d] /\ exc'[d] = exc[d]
     /\ h.state \in EntryStates /\ n.state # "INIT"
     /\ h.state \in {"M3_CREATED", "M4_CREATED", "M5_CREATED"} =>
          n.sid = h.sid /\ n.commitC = h.commitC /\ n.commitS = h.commitS
     /\ h.state = "M3_CREATED" =>
          /\ n.ss = h.ss
          /\ \/ n.state = "M4_VERIFIED" /\ n.th = h.th /\ n.key = h.key /\ n.tefs = h.tefs
             \/ n.state = "M5_CREATED"
     /\ h.state = "M4_CREATED" =>
          \/ n.state = "M5_VERIFIED" /\ n.th = h.th /\ n.key = h.key /\ n.ss = h.ss
             /\ n.tefc = h.tefc
          \/ n.state = "ESTABLISHED"
     /\ h.state = "M5_CREATED" =>
          /\ n.state = "ESTABLISHED" /\ n.key = h.key /\ n.m5 = h.m5 /\ n.th = h.th
          /\ (exc'[e] = Ok \/ n.ss = h.ss)

\* A call of e that raises returns no message and derives no key.
Failing(e) ==
  /\ wire' = wire /\ exc'[e] # Ok /\ sess'[e].key = sess[e].key
  /\ sess'[e].state \notin {"M4_CREATED", "M5_CREATED"}
  /\ sess'[e].state = "ESTABLISHED" => sess[e].state = "M5_CREATED"
  /\ sess'[e].state = "M5_VERIFIED" => sess[e].state = "M4_CREATED"

\* A fact that holds keeps holding.
LEMMA StableFacts ==
  ASSUME IndInv, NEW e \in Endpoints, Kept(e)
  PROVE  /\ \A s \in Servers : \A m2 : Committed(s, m2) => Committed(s, m2)'
         /\ \A c \in Clients, s \in Servers : \A m3 : Revealed(c, s, m3) => Revealed(c, s, m3)'
         /\ \A c \in Clients, s \in Servers : ServerKeyed(s, c) => ServerKeyed(s, c)'
         /\ \A c \in Clients, s \in Servers : ClientKeyed(c, s) => ClientKeyed(c, s)'
<1>1. ASSUME NEW s \in Servers, NEW m2, Committed(s, m2)
      PROVE  Committed(s, m2)'
  <2>1. CASE s # e
    BY <1>1, <2>1 DEF Kept, Committed, Endpoints
  <2>2. CASE s = e
    BY <1>1, <2>2 DEF Kept, Committed, EntryStates
  <2> QED  BY <2>1, <2>2
<1>2. ASSUME NEW c \in Clients, NEW s \in Servers, NEW m3, Revealed(c, s, m3)
      PROVE  Revealed(c, s, m3)'
  <2>1. Committed(s, M2Of(c, s))'
    BY <1>1, <1>2 DEF Revealed
  <2>2. CASE c # e
    BY <1>2, <2>1, <2>2 DEF Kept, Revealed, Endpoints
  <2>3. CASE c = e
    BY <1>2, <2>1, <2>3 DEF Kept, Revealed, EntryStates
  <2> QED  BY <2>2, <2>3
<1>3. ASSUME NEW c \in Clients, NEW s \in Servers, ServerKeyed(s, c)
      PROVE  ServerKeyed(s, c)'
  <2>1. Revealed(c, s, AgreedM3(s, c))'
    BY <1>2, <1>3 DEF ServerKeyed
  <2>2. CASE s # e
    BY <1>3, <2>1, <2>2 DEF Kept, ServerKeyed, Endpoints
  <2>3. CASE s = e
    BY <1>3, <2>1, <2>3 DEF Kept, ServerKeyed, EntryStates
  <2> QED  BY <2>2, <2>3
<1>4. ASSUME NEW c \in Clients, NEW s \in Servers, ClientKeyed(c, s)
      PROVE  ClientKeyed(c, s)'
  <2>1. ServerKeyed(s, c)'
    BY <1>3, <1>4 DEF ClientKeyed
  <2>2. c # e
    BY <1>4 DEF Kept, ClientKeyed, EntryStates
  <2> QED  BY <1>4, <2>1, <2>2 DEF Kept, ClientKeyed, Endpoints
<1> QED  BY <1>1, <1>2, <1>3, <1>4

\* The facts of the sessions that are not called, and the origin of the
\* messages that are already on the wire, are kept.
LEMMA OthersFacts ==
  ASSUME AgreementInv, NEW e \in Endpoints, Kept(e), wire \subseteq wire'
  PROVE  /\ \A s \in Servers \ {e} : ServerFacts(s)'
         /\ \A c \in Clients \ {e} : ClientFacts(c)'
         /\ \A m \in wire : Origin(m)'
<1>1. IndInv /\ FactsOK
  BY DEF AgreementInv
<1>2. \A type : Inbound(type) \subseteq Inbound(type)'
  BY InboundGrows
<1>3. ASSUME NEW s \in Servers \ {e}
      PROVE  ServerFacts(s)'
  <2>1. sess'[s] = sess[s] /\ exc'[s] = exc[s] /\ ServerFacts(s)
    BY <1>1, <1>3 DEF Kept, Endpoints, FactsOK
  <2> QED  BY <1>1, <1>2, <2>1, StableFacts DEF ServerFacts
<1>4. ASSUME NEW c \in Clients \ {e}
      PROVE  ClientFacts(c)'
  <2>1. sess'[c] = sess[c] /\ exc'[c] = exc[c] /\ ClientFacts(c)
    BY <1>1, <1>4 DEF Kept, Endpoints, FactsOK
  <2> QED  BY <1>1, <1>2, <2>1, StableFacts DEF ClientFacts
<1>5. ASSUME NEW m \in wire
      PROVE  Origin(m)'
  <2>1. Origin(m)
    BY <1>1 DEF FactsOK
  <2> QED  BY <1>1, <1>2, <2>1, StableFacts DEF Origin
<1> QED  BY <1>3, <1>4, <1>5

\* A call that raises proves nothing and takes nothing back.
LEMMA FailingFacts ==
  ASSUME AgreementInv, NEW e \in Endpoints, Kept(e), Failing(e)
  PROVE  FactsOK'
<1>1. IndInv /\ FactsOK
  BY DEF AgreementInv
<1>2. wire \subseteq wire' /\ \A type : Inbound(type) \subseteq Inbound(type)'
  BY InboundGrows DEF Failing
<1>3. ASSUME e \in Servers
      PROVE  ServerFacts(e)'
  <2>1. ServerFacts(e)
    BY <1>1, <1>3 DEF FactsOK
  <2> QED  BY <1>1, <1>3, <2>1, StableFacts DEF ServerFacts, Failing
<1>4. ASSUME e \in Clients
      PROVE  ClientFacts(e)'
  <2>1. ClientFacts(e) /\ sess'[e].state # "ESTABLISHED"
    <3>1. sess[e].state # "M5_CREATED"
      BY <1>1, <1>4 DEF IndInv, TypeOK, ClientStates
    <3> QED  BY <1>1, <1>4, <3>1 DEF FactsOK, Failing
  <2> QED  BY <1>1, <1>2, <1>4, <2>1, StableFacts DEF ClientFacts, Failing
<1>5. wire' = wire
  BY DEF Failing
<1> QED  BY <1>2, <1>3, <1>4, <1>5, OthersFacts DEF FactsOK

\* A call that returns m keeps the facts if those of its session, and the
\* origin of m, hold afterwards.
LEMMA ReturningFacts ==
  ASSUME AgreementInv, NEW e \in Endpoints, Kept(e), NEW m, wire' = wire \cup {m},
         e \in Servers => ServerFacts(e)', e \in Clients => ClientFacts(e)', Origin(m)'
  PROVE  FactsOK'
BY OthersFacts DEF FactsOK

-----------------------------------------------------------------------------
(* What each handler does. *)

\* The session that is called takes its new value, and the others keep theirs.
LEMMA Called ==
  ASSUME IndInv, NEW e \in Endpoints, NEW s, sess' = [sess EXCEPT ![e] = s]
  PROVE  /\ sess'[e] = s
         /\ \A d \in Endpoints \ {e} : sess'[d] = sess[d]
BY DEF IndInv, TypeOK

\* How a handler that raises changes the session.
LEMMA RaiseOutcome ==
  ASSUME IndInv, NEW e \in Endpoints, NEW s, NEW x, Raise(e, s, x)
  PROVE  /\ sess'[e] = s /\ exc'[e] = x /\ wire' = wire
         /\ \A d \in Endpoints \ {e} : sess'[d] = sess[d] /\ exc'[d] = exc[d]
BY DEF IndInv, TypeOK, Raise

\* How a handler that returns a message changes the session.
LEMMA ReturnOutcome ==
  ASSUME IndInv, NEW e \in Endpoints, NEW s, NEW m, Return(e, s, m)
  PROVE  /\ sess'[e] = s /\ exc' = exc /\ wire' = wire \cup {m}
         /\ \A d \in Endpoints \ {e} : sess'[d] = sess[d] /\ exc'[d] = exc[d]
BY DEF IndInv, TypeOK, Return

\* Before a session has proved anything, a call that raises breaks nothing.
LEMMA EarlyRaise ==
  ASSUME IndInv, NEW e \in Endpoints, NEW s, NEW x, Raise(e, s, x), x # Ok,
         s.key = sess[e].key, sess[e].state \in {"INIT", "M1_CREATED", "M2_CREATED"},
         s.state \in {"M1_CREATED", "M1_VERIFIED", "M2_VERIFIED", "M2_CREATED",
                      "M3_VERIFIED", "M3_CREATED"}
  PROVE  Kept(e) /\ Failing(e)
<1>1. Kept(e)
  BY RaiseOutcome DEF Kept, EntryStates
<1> QED  BY <1>1, RaiseOutcome DEF Failing

\* create_m1 (session.py 75-81): a client fails, a server announces itself.
LEMMA CreateM1Outcome ==
  ASSUME IndInv, NEW e \in Endpoints, CreateM1(e)
  PROVE  /\ Kept(e)
         /\ \/ Failing(e)
            \/ /\ e \in Servers /\ exc' = exc
               /\ wire' = wire \cup {M1(Sid(e), Pk(e), ServerKey[e])}
               /\ sess'[e].state = "M1_CREATED" /\ sess'[e].sid = Sid(e)
               /\ sess'[e].skS = Sk(e) /\ sess'[e].th = TH1Of(e)
               /\ sess'[e].key = sess[e].key
<1> DEFINE s == [sess[e] EXCEPT !.state = Advance(e, @), !.sid = Sid(e),
                                !.pkS = Pk(e), !.skS = Sk(e), !.th = TH0(Sid(e))]
           m == M1(Sid(e), Pk(e), ServerKey[e])
           r == [s EXCEPT !.th = Ext(@, m)]
<1>1. sess[e] \in Session /\ sess[e].state = "INIT"
  BY DEF IndInv, TypeOK, CreateM1
<1>2. CASE e \in Servers /\ Return(e, r, m)
  <2>1. Advance(e, "INIT") = "M1_CREATED"
    BY <1>2, AdvanceValues
  <2>2. /\ r.state = "M1_CREATED" /\ r.sid = Sid(e) /\ r.skS = Sk(e)
        /\ r.th = TH1Of(e) /\ r.key = sess[e].key
    BY <1>1, <2>1 DEF Session, TH1Of
  <2> HIDE DEF r, m
  <2>3. Kept(e)
    BY <1>1, <1>2, <2>2, ReturnOutcome DEF Kept, EntryStates
  <2> QED  BY <1>2, <2>2, <2>3, ReturnOutcome DEF m
<1>3. CASE e \in Clients /\ Raise(e, s, "AttributeError")
  <2>1. Advance(e, "INIT") = "M1_VERIFIED"
    BY <1>3, AdvanceValues
  <2>2. s.state = "M1_VERIFIED" /\ s.key = sess[e].key
    BY <1>1, <2>1 DEF Session
  <2> HIDE DEF s
  <2> QED  BY <1>1, <1>3, <2>2, EarlyRaise DEF Ok
<1> QED  BY <1>2, <1>3 DEF CreateM1

\* process_m1 (session.py 137-167): fails, or the client commits to its TEF.
LEMMA ProcessM1Outcome ==
  ASSUME IndInv, NEW e \in Endpoints, NEW m \in M1s, ProcessM1(e, m)
  PROVE  /\ Kept(e)
         /\ \/ Failing(e)
            \/ LET m2 == M2(m.sid, Ciphertext(e, m.pkS), Commit(Tef(e), m.sid))
               IN /\ e \in Clients /\ exc' = exc /\ VerifyM1(m, ServerKey[e]) = Ok
                  /\ wire' = wire \cup {m2}
                  /\ sess'[e].state = "M2_CREATED" /\ sess'[e].sid = m.sid
                  /\ sess'[e].ss = SharedSecret(e, m.pkS) /\ sess'[e].tefc = Tef(e)
                  /\ sess'[e].commitC = Commit(Tef(e), m.sid)
                  /\ sess'[e].th = Ext(Ext(TH0(m.sid), m), m2)
                  /\ sess'[e].key = sess[e].key
<1> DEFINE s1 == [sess[e] EXCEPT !.state = Advance(e, @)]
           s2 == [s1 EXCEPT !.sid = m.sid, !.th = Ext(TH0(m.sid), m)]
           s3 == [s2 EXCEPT !.state = Advance(e, @)]
           m2 == M2(m.sid, Ciphertext(e, m.pkS), Commit(Tef(e), m.sid))
           r  == [s3 EXCEPT !.ss = SharedSecret(e, m.pkS), !.tefc = Tef(e),
                            !.commitC = m2.CommitC, !.th = Ext(@, m2)]
           x  == VerifyM1(m, ServerKey[e])
<1>1. sess[e] \in Session /\ sess[e].state = "INIT"
  BY DEF IndInv, TypeOK, ProcessM1
<1>2. /\ e \in Servers => Advance(e, "INIT") = "M1_CREATED"
      /\ e \in Clients => /\ Advance(e, "INIT") = "M1_VERIFIED"
                          /\ Advance(e, "M1_VERIFIED") = "M2_CREATED"
  BY AdvanceValues
<1>3. /\ s1.state = Advance(e, "INIT") /\ s1.key = sess[e].key
      /\ s2.state = Advance(e, "INIT") /\ s2.key = sess[e].key
      /\ s3.state = Advance(e, Advance(e, "INIT")) /\ s3.key = sess[e].key
  BY <1>1 DEF Session
<1>4. /\ r.state = s3.state /\ r.sid = m.sid /\ r.ss = SharedSecret(e, m.pkS)
      /\ r.tefc = Tef(e) /\ r.commitC = Commit(Tef(e), m.sid)
      /\ r.th = Ext(Ext(TH0(m.sid), m), m2) /\ r.key = sess[e].key
  <2>1. m2.CommitC = Commit(Tef(e), m.sid)
    BY DEF M2
  <2> HIDE DEF m2
  <2> QED  BY <1>1, <2>1 DEF Session
<1> HIDE DEF s1, s2, s3, r, m2
<1>5. CASE x # Ok /\ Raise(e, s1, x)
  BY <1>1, <1>2, <1>3, <1>5, EarlyRaise DEF Endpoints
<1>6. CASE e \in Servers /\ Raise(e, s2, "InvalidStateTransition")
  BY <1>1, <1>2, <1>3, <1>6, EarlyRaise DEF Ok
<1>7. CASE e \in Clients /\ Raise(e, s3, "RuntimeError")
  BY <1>1, <1>2, <1>3, <1>7, EarlyRaise DEF Ok
<1>8. CASE x = Ok /\ e \in Clients /\ Return(e, r, m2)
  <2>1. Kept(e)
    BY <1>1, <1>2, <1>3, <1>4, <1>8, ReturnOutcome DEF Kept, EntryStates
  <2> QED  BY <1>2, <1>3, <1>4, <1>8, <2>1, ReturnOutcome DEF m2
<1> QED  BY <1>5, <1>6, <1>7, <1>8 DEF ProcessM1, s1, s2, s3, r, m2

\* process_m2 (session.py 83-108): fails, or the server commits to its TEF.
LEMMA ProcessM2Outcome ==
  ASSUME AgreementInv, NEW e \in Endpoints, NEW m \in M2s, ProcessM2(e, m)
  PROVE  /\ Kept(e)
         /\ \/ Failing(e)
            \/ /\ e \in Servers /\ exc' = exc /\ exc[e] = Ok
               /\ wire' = wire \cup {M3Of(e, m)}
               /\ sess'[e].state = "M3_CREATED" /\ sess'[e].sid = Sid(e)
               /\ sess'[e].commitC = m.CommitC /\ sess'[e].commitS = Commit(Tef(e), Sid(e))
               /\ sess'[e].ss = SsOf(e, m) /\ sess'[e].tefs = Tef(e)
               /\ sess'[e].th = Ext(TH2Of(e, m), M3Of(e, m)) /\ sess'[e].key = None
               /\ sess[e].key = None
<1> DEFINE s1  == [sess[e] EXCEPT !.state = Advance(e, @)]
           th2 == Ext(s1.th, m)
           s2  == [s1 EXCEPT !.state = Advance(e, @), !.commitC = m.CommitC, !.th = th2]
           ss  == Decapsulate(s1.skS, m.ct)
           m3  == M3(Commit(Tef(e), s1.sid), ss, th2)
           r   == [s2 EXCEPT !.ss = ss, !.tefs = Tef(e), !.commitS = m3.CommitS,
                             !.th = Ext(@, m3)]
           x   == VerifyM2(m, s1.sid)
<1>1. IndInv /\ FactsOK
  BY DEF AgreementInv
<1>2. sess[e] \in Session /\ sess[e].state = "M1_CREATED"
  BY <1>1 DEF IndInv, TypeOK, ProcessM2
<1>3. e \in Servers /\ e \notin Clients
  BY <1>1, <1>2, RolesAssumption DEF IndInv, TypeOK, ClientStates, Endpoints
<1>4. Advance(e, "M1_CREATED") = "M2_VERIFIED" /\ Advance(e, "M2_VERIFIED") = "M3_CREATED"
  BY <1>3, AdvanceValues
<1>5. /\ s1.state = "M2_VERIFIED" /\ s1.key = sess[e].key /\ s1.sid = sess[e].sid
      /\ s1.th = sess[e].th /\ s1.skS = sess[e].skS
      /\ s2.state = "M3_CREATED" /\ s2.key = sess[e].key /\ s2.sid = sess[e].sid
      /\ s2.th = Ext(sess[e].th, m) /\ s2.commitC = m.CommitC
  BY <1>2, <1>4 DEF Session
<1>6. CASE x # Ok /\ Raise(e, s1, x)
  <2> HIDE DEF s1
  <2> QED  BY <1>1, <1>2, <1>5, <1>6, EarlyRaise
<1>7. ASSUME NEW y \in {"AttributeError", "RuntimeError"}, Raise(e, s2, y)
      PROVE  Kept(e) /\ Failing(e)
  <2> HIDE DEF s2
  <2> QED  BY <1>1, <1>2, <1>5, <1>7, EarlyRaise DEF Ok
<1>8. CASE s1.skS # None /\ Return(e, r, m3)
  <2>1. exc[e] = Ok
    BY <1>1, <1>2, <1>5, <1>8 DEF IndInv, PhaseOK, FailedOK
  <2>2. /\ s1.sid = Sid(e) /\ s1.skS = Sk(e) /\ s1.th = TH1Of(e) /\ s1.key = None
    BY <1>1, <1>2, <1>3, <1>5, <2>1 DEF FactsOK, ServerFacts
  <2>3. ss = SsOf(e, m) /\ th2 = TH2Of(e, m)
    <3> HIDE DEF s1
    <3> QED  BY <2>2 DEF SsOf, TH2Of
  <2>4. m3 = M3Of(e, m) /\ m3.CommitS = Commit(Tef(e), Sid(e))
    <3> HIDE DEF s1, th2, ss
    <3> QED  BY <2>2, <2>3 DEF M3Of, M3
  <2>5. /\ r.state = "M3_CREATED" /\ r.sid = s1.sid /\ r.commitC = m.CommitC
        /\ r.commitS = m3.CommitS /\ r.ss = ss /\ r.tefs = Tef(e)
        /\ r.th = Ext(th2, m3) /\ r.key = s1.key
    <3> HIDE DEF m3, ss
    <3> QED  BY <1>2, <1>4 DEF Session
  <2> HIDE DEF r, s1, m3, ss, th2
  <2>6. Kept(e)
    BY <1>1, <1>2, <1>8, <2>5, ReturnOutcome DEF Kept, EntryStates
  <2> QED  BY <1>1, <1>3, <1>5, <1>8, <2>1, <2>2, <2>3, <2>4, <2>5, <2>6, ReturnOutcome
<1> QED  BY <1>6, <1>7, <1>8 DEF ProcessM2

\* process_m3 (session.py 169-181): fails, or the client reveals its TEF.
LEMMA ProcessM3Outcome ==
  ASSUME AgreementInv, NEW e \in Endpoints, NEW m \in M3s, ProcessM3(e, m)
  PROVE  /\ Kept(e)
         /\ \/ Failing(e)
            \/ LET h   == sess[e]
                   th3 == Ext(h.th, m)
                   m4  == M4(h.ss, h.tefc, th3)
               IN /\ e \in Clients /\ exc' = exc /\ exc[e] = Ok
                  /\ h.state = "M2_CREATED" /\ VerifyM3(m, h.ss, h.th) = Ok
                  /\ wire' = wire \cup {m4}
                  /\ sess'[e].state = "M4_CREATED" /\ sess'[e].sid = h.sid
                  /\ sess'[e].commitC = h.commitC /\ sess'[e].commitS = m.CommitS
                  /\ sess'[e].ss = h.ss /\ sess'[e].tefc = h.tefc
                  /\ sess'[e].th = Ext(th3, m4) /\ sess'[e].key = h.key
<1> DEFINE s1  == [sess[e] EXCEPT !.state = Advance(e, @)]
           th3 == Ext(s1.th, m)
           m4  == M4(s1.ss, s1.tefc, th3)
           r   == [s1 EXCEPT !.state = Advance(e, @), !.commitS = m.CommitS,
                             !.th = Ext(th3, m4)]
           x   == IF s1.ss = None THEN "TypeError" ELSE VerifyM3(m, s1.ss, s1.th)
<1>1. IndInv
  BY DEF AgreementInv
<1>2. sess[e] \in Session /\ sess[e].state = "M2_CREATED"
  BY <1>1 DEF IndInv, TypeOK, ProcessM3
<1>3. e \in Clients /\ e \notin Servers
  BY <1>1, <1>2, RolesAssumption DEF IndInv, TypeOK, ServerStates, Endpoints
<1>4. Advance(e, "M2_CREATED") = "M3_VERIFIED" /\ Advance(e, "M3_VERIFIED") = "M4_CREATED"
  BY <1>3, AdvanceValues
<1>5. /\ s1.state = "M3_VERIFIED" /\ s1.key = sess[e].key /\ s1.sid = sess[e].sid
      /\ s1.th = sess[e].th /\ s1.ss = sess[e].ss /\ s1.tefc = sess[e].tefc
      /\ s1.commitC = sess[e].commitC
  BY <1>2, <1>4 DEF Session
<1>6. CASE x # Ok /\ Raise(e, s1, x)
  <2> HIDE DEF s1
  <2> QED  BY <1>1, <1>2, <1>5, <1>6, EarlyRaise
<1>7. CASE x = Ok /\ Return(e, r, m4)
  <2>1. s1.ss # None /\ VerifyM3(m, s1.ss, s1.th) = Ok
    BY <1>7 DEF Ok
  <2>2. exc[e] = Ok
    BY <1>1, <1>2, <1>5, <2>1 DEF IndInv, PhaseOK, FailedOK
  <2>3. /\ r.state = "M4_CREATED" /\ r.sid = s1.sid /\ r.commitC = s1.commitC
        /\ r.commitS = m.CommitS /\ r.ss = s1.ss /\ r.tefc = s1.tefc
        /\ r.th = Ext(th3, m4) /\ r.key = s1.key
    <3> HIDE DEF m4, th3
    <3> QED  BY <1>2, <1>4 DEF Session
  <2> HIDE DEF r, s1
  <2>4. Kept(e)
    BY <1>1, <1>2, <1>7, <2>3, ReturnOutcome DEF Kept, EntryStates
  <2> QED  BY <1>1, <1>2, <1>3, <1>5, <1>7, <2>1, <2>2, <2>3, <2>4, ReturnOutcome
<1> QED  BY <1>6, <1>7 DEF ProcessM3

\* process_m4 (session.py 110-127): fails, or the server derives the key.
LEMMA ProcessM4Outcome ==
  ASSUME AgreementInv, NEW e \in Endpoints, NEW m \in M4s, ProcessM4(e, m)
  PROVE  /\ Kept(e)
         /\ \/ Failing(e)
            \/ LET h   == sess[e]
                   th4 == Ext(h.th, m)
                   key == DeriveSessionKey(h.ss, Fusion(Plaintext(m.wrappedC), h.tefs, h.sid))
                   w   == WrapS(h.ss, h.tefs, th4)
                   m5  == M5(w, key, Ext(th4, w))
               IN /\ e \in Servers /\ exc' = exc /\ exc[e] = Ok
                  /\ h.state = "M3_CREATED" /\ Opens(DeriveKwrapC(h.ss), m.wrappedC, h.th)
                  /\ wire' = wire \cup {m5}
                  /\ sess'[e].state = "M5_CREATED" /\ sess'[e].key = key
                  /\ sess'[e].m5 = m5 /\ sess'[e].th = Ext(th4, w)
<1> DEFINE s1   == [sess[e] EXCEPT !.state = Advance(e, @)]
           x    == IF s1.ss = None THEN "TypeError"
                   ELSE VerifyM4(m, s1.ss, s1.commitC, s1.sid, s1.th)
           tefc == Plaintext(m.wrappedC)
           th4  == Ext(s1.th, m)
           key  == DeriveSessionKey(s1.ss, Fusion(tefc, s1.tefs, s1.sid))
           w    == WrapS(s1.ss, s1.tefs, th4)
           m5   == M5(w, key, Ext(th4, w))
           r    == [s1 EXCEPT !.state = Advance(e, @), !.tefc = tefc, !.key = key,
                              !.m5 = m5, !.th = Ext(th4, w)]
<1>1. IndInv
  BY DEF AgreementInv
<1>2. sess[e] \in Session /\ sess[e].state = "M3_CREATED"
  BY <1>1 DEF IndInv, TypeOK, ProcessM4
<1>3. e \in Servers /\ e \notin Clients
  BY <1>1, <1>2, RolesAssumption DEF IndInv, TypeOK, ClientStates, Endpoints
<1>4. Advance(e, "M3_CREATED") = "M4_VERIFIED" /\ Advance(e, "M4_VERIFIED") = "M5_CREATED"
  BY <1>3, AdvanceValues
<1>5. /\ s1.state = "M4_VERIFIED" /\ s1.key = sess[e].key /\ s1.sid = sess[e].sid
      /\ s1.th = sess[e].th /\ s1.ss = sess[e].ss /\ s1.tefs = sess[e].tefs
      /\ s1.commitC = sess[e].commitC /\ s1.commitS = sess[e].commitS
  BY <1>2, <1>4 DEF Session
<1>6. CASE x # Ok /\ Raise(e, s1, x)
  <2> HIDE DEF s1
  <2>1. Kept(e)
    BY <1>1, <1>2, <1>5, <1>6, RaiseOutcome DEF Kept, EntryStates
  <2>2. Failing(e)
    BY <1>1, <1>2, <1>5, <1>6, RaiseOutcome DEF Failing
  <2> QED  BY <2>1, <2>2
<1>7. CASE x = Ok /\ Return(e, r, m5)
  <2>1. s1.ss # None /\ Opens(DeriveKwrapC(s1.ss), m.wrappedC, s1.th)
    BY <1>7 DEF VerifyM4, Ok
  <2>2. exc[e] = Ok
    BY <1>1, <1>2, <1>5, <2>1 DEF IndInv, PhaseOK, FailedOK
  <2>3. /\ r.state = "M5_CREATED" /\ r.sid = s1.sid /\ r.commitC = s1.commitC
        /\ r.commitS = s1.commitS /\ r.ss = s1.ss
        /\ r.key = key /\ r.m5 = m5 /\ r.th = Ext(th4, w)
    <3> HIDE DEF m5, th4, key, w, tefc
    <3> QED  BY <1>2, <1>4 DEF Session
  <2> HIDE DEF r, s1
  <2>4. Kept(e)
    <3> HIDE DEF m5, th4, key, w, tefc
    <3> QED  BY <1>1, <1>2, <1>5, <1>7, <2>3, ReturnOutcome DEF Kept, EntryStates
  <2> QED  BY <1>1, <1>2, <1>3, <1>5, <1>7, <2>1, <2>2, <2>3, <2>4, ReturnOutcome
<1> QED  BY <1>6, <1>7 DEF ProcessM4

\* The end of process_m5 and process_m6 (session.py 133-135, 196-198, 201-207)
\* erases secrets, assigns the state and nothing else.
LEMMA EstablishedKeeps ==
  ASSUME NEW s \in Session
  PROVE  LET r == Established(s)
         IN /\ r.ss = None /\ r.tefc = None /\ r.tefs = None /\ r.skS = None
            /\ r.state = "ESTABLISHED" /\ r.sid = s.sid
            /\ r.commitC = s.commitC /\ r.commitS = s.commitS
            /\ r.key = s.key /\ r.m5 = s.m5 /\ r.th = s.th
BY DEF Established, Zeroize, Session

\* process_m5 (session.py 183-199): fails, or the client accepts the key.
LEMMA ProcessM5Outcome ==
  ASSUME AgreementInv, NEW e \in Endpoints, NEW m \in M5s, ProcessM5(e, m)
  PROVE  /\ Kept(e)
         /\ \/ Failing(e)
            \/ LET h   == sess[e]
                   key == DeriveSessionKey(h.ss, Fusion(h.tefc, Plaintext(m.wrappedS), h.sid))
                   th5 == Ext(h.th, m.wrappedS)
               IN /\ e \in Clients /\ exc' = exc /\ exc[e] = Ok /\ h.state = "M4_CREATED"
                  /\ Opens(DeriveKwrapS(h.ss), m.wrappedS, h.th)
                  /\ m.MACS = Hmac(key, "confirm-S", th5)
                  /\ wire' = wire \cup {M6(key, th5, m)}
                  /\ sess'[e].state = "ESTABLISHED" /\ sess'[e].key = key
                  /\ sess'[e].m5 = m /\ sess'[e].th = th5
                  /\ sess'[e].sid = h.sid
                  /\ sess'[e].commitC = h.commitC /\ sess'[e].commitS = h.commitS
                  /\ sess'[e].ss = None /\ sess'[e].tefc = None
                  /\ sess'[e].tefs = None /\ sess'[e].skS = None
<1> DEFINE s1  == [sess[e] EXCEPT !.state = Advance(e, @)]
           x   == VerifyM5(m, s1)
           key == KeyFromM5(m, s1)
           th5 == Ext(s1.th, m.wrappedS)
           s2  == [s1 EXCEPT !.state = Advance(e, @), !.key = key, !.m5 = m, !.th = th5]
           m6  == M6(key, th5, m)
           r   == Established(s2)
<1>1. IndInv
  BY DEF AgreementInv
<1>2. sess[e] \in Session /\ sess[e].state = "M4_CREATED"
  BY <1>1 DEF IndInv, TypeOK, ProcessM5
<1>3. e \in Clients /\ e \notin Servers
  BY <1>1, <1>2, RolesAssumption DEF IndInv, TypeOK, ServerStates, Endpoints
<1>4. Advance(e, "M4_CREATED") = "M5_VERIFIED" /\ Advance(e, "M5_VERIFIED") = "ESTABLISHED"
  BY <1>3, AdvanceValues
<1>5. /\ s1.state = "M5_VERIFIED" /\ s1.key = sess[e].key /\ s1.sid = sess[e].sid
      /\ s1.th = sess[e].th /\ s1.ss = sess[e].ss /\ s1.tefc = sess[e].tefc
      /\ s1.commitC = sess[e].commitC /\ s1.commitS = sess[e].commitS
  BY <1>2, <1>4 DEF Session
<1>6. CASE x # Ok /\ Raise(e, s1, x)
  <2> HIDE DEF s1
  <2>1. Kept(e)
    BY <1>1, <1>2, <1>5, <1>6, RaiseOutcome DEF Kept, EntryStates
  <2>2. Failing(e)
    BY <1>1, <1>2, <1>5, <1>6, RaiseOutcome DEF Failing
  <2> QED  BY <2>1, <2>2
<1>7. CASE x = Ok /\ Return(e, r, m6)
  <2>1. exc[e] = Ok
    BY <1>1, <1>2 DEF IndInv, PhaseOK, FailedOK
  <2>2. /\ Opens(DeriveKwrapS(s1.ss), m.wrappedS, s1.th)
        /\ m.MACS = Hmac(key, "confirm-S", th5)
    BY <1>7 DEF VerifyM5, Ok
  <2>3. /\ s2.state = "ESTABLISHED" /\ s2.sid = s1.sid /\ s2.commitC = s1.commitC
        /\ s2.commitS = s1.commitS /\ s2.key = key /\ s2.m5 = m /\ s2.th = th5
        /\ DOMAIN s2 = DOMAIN sess[e]
    <3> HIDE DEF th5, key
    <3> QED  BY <1>2, <1>4 DEF Session
  <2>4. /\ r.state = s2.state /\ r.sid = s2.sid /\ r.commitC = s2.commitC
        /\ r.commitS = s2.commitS /\ r.key = s2.key /\ r.m5 = s2.m5 /\ r.th = s2.th
        /\ r.ss = None /\ r.tefc = None /\ r.tefs = None /\ r.skS = None
    <3> HIDE DEF th5, key
    <3> QED  BY <1>2, <1>4 DEF Session, Established, Zeroize
  <2> HIDE DEF r, s2, s1
  <2>5. Kept(e)
    <3> HIDE DEF th5, key
    <3> QED  BY <1>1, <1>2, <1>5, <1>7, <2>3, <2>4, ReturnOutcome DEF Kept, EntryStates
  <2> QED  BY <1>1, <1>2, <1>3, <1>5, <1>7, <2>1, <2>2, <2>3, <2>4, <2>5, ReturnOutcome
           DEF KeyFromM5
<1> QED  BY <1>6, <1>7 DEF ProcessM5

\* process_m6 (session.py 129-135): fails, or the server is satisfied.
LEMMA ProcessM6Outcome ==
  ASSUME AgreementInv, NEW e \in Endpoints, NEW m \in M6s, ProcessM6(e, m)
  PROVE  /\ Kept(e)
         /\ \/ Failing(e)
            \/ LET h == sess[e]
               IN /\ e \in Servers /\ exc' = exc /\ exc[e] = Ok /\ h.state = "M5_CREATED"
                  /\ m.MACC = Hmac(h.key, "confirm-C", Ext(h.th, h.m5))
                  /\ wire' = wire /\ sess'[e].state = "ESTABLISHED" /\ sess'[e].key = h.key
                  /\ sess'[e].ss = None /\ sess'[e].tefc = None
                  /\ sess'[e].tefs = None /\ sess'[e].skS = None
<1> DEFINE s1 == [sess[e] EXCEPT !.state = Advance(e, @)]
           r  == Established(s1)
           x  == VerifyM6(m, s1.key, s1.m5, s1.th)
<1>1. IndInv
  BY DEF AgreementInv
<1>2. sess[e] \in Session /\ sess[e].state = "M5_CREATED"
  BY <1>1 DEF IndInv, TypeOK, ProcessM6
<1>3. e \in Servers /\ e \notin Clients
  BY <1>1, <1>2, RolesAssumption DEF IndInv, TypeOK, ClientStates, Endpoints
<1>4. Advance(e, "M5_CREATED") = "ESTABLISHED"
  BY <1>3, AdvanceValues
<1>5. /\ s1 \in Session
      /\ s1.state = "ESTABLISHED" /\ s1.key = sess[e].key /\ s1.sid = sess[e].sid
      /\ s1.th = sess[e].th /\ s1.ss = sess[e].ss /\ s1.m5 = sess[e].m5
      /\ s1.commitC = sess[e].commitC /\ s1.commitS = sess[e].commitS
  BY <1>2, <1>4 DEF Session, ServerStates
<1>6. CASE x # Ok /\ Raise(e, s1, x)
  <2> HIDE DEF s1
  <2>1. Kept(e)
    BY <1>1, <1>2, <1>5, <1>6, RaiseOutcome DEF Kept, EntryStates
  <2>2. Failing(e)
    BY <1>1, <1>2, <1>5, <1>6, RaiseOutcome DEF Failing
  <2> QED  BY <2>1, <2>2
<1>7. CASE x = Ok /\ sess' = [sess EXCEPT ![e] = r] /\ UNCHANGED <<wire, exc, rejected>>
  <2>1. exc[e] = Ok
    BY <1>1, <1>2 DEF IndInv, PhaseOK, FailedOK
  <2>2. m.MACC = Hmac(s1.key, "confirm-C", Ext(s1.th, s1.m5))
    BY <1>7 DEF VerifyM6, Ok
  <2>3. sess'[e] = r /\ \A d \in Endpoints \ {e} : sess'[d] = sess[d]
    <3> HIDE DEF r
    <3> QED  BY <1>1, <1>7, Called
  <2>4. /\ r.state = s1.state /\ r.sid = s1.sid /\ r.commitC = s1.commitC
        /\ r.commitS = s1.commitS /\ r.key = s1.key /\ r.m5 = s1.m5 /\ r.th = s1.th
        /\ r.ss = None /\ r.tefc = None /\ r.tefs = None /\ r.skS = None
    <3> HIDE DEF s1
    <3> QED  BY <1>5, EstablishedKeeps
  <2> HIDE DEF r, s1
  <2>5. Kept(e)
    BY <1>2, <1>5, <1>7, <2>1, <2>3, <2>4 DEF Kept, EntryStates
  <2> QED  BY <1>2, <1>3, <1>5, <1>7, <2>1, <2>2, <2>3, <2>4, <2>5
<1> QED  BY <1>6, <1>7 DEF ProcessM6

-----------------------------------------------------------------------------
(* The fact each handler adds. *)

\* create_m1 keeps the facts: the server's M1 carries its own quote.
LEMMA CreateM1Facts ==
  ASSUME AgreementInv, NEW e \in Endpoints, CreateM1(e)
  PROVE  FactsOK'
<1>1. IndInv
  BY DEF AgreementInv
<1>2. Kept(e)
  BY <1>1, CreateM1Outcome
<1>3. CASE Failing(e)
  BY <1>2, <1>3, FailingFacts
<1>4. CASE ~Failing(e)
  <2> DEFINE m == M1(Sid(e), Pk(e), ServerKey[e])
  <2>1. /\ e \in Servers /\ e \notin Clients /\ wire' = wire \cup {m}
        /\ sess'[e].state = "M1_CREATED" /\ sess'[e].sid = Sid(e)
        /\ sess'[e].skS = Sk(e) /\ sess'[e].th = TH1Of(e)
        /\ sess'[e].key = sess[e].key
    BY <1>1, <1>4, CreateM1Outcome, RolesAssumption
  <2>2. sess[e].key = None
    <3>1. sess[e] = NewSession
      BY <1>1 DEF IndInv, PhaseOK, LiveOK, FailedOK, CreateM1
    <3> QED  BY <3>1 DEF NewSession
  <2>3. ServerFacts(e)'
    BY <2>1, <2>2 DEF ServerFacts
  <2>4. Origin(m)'
    <3>1. m.type = "M1" /\ m.quote = Quote(Pk(e), Sid(e))
      BY DEF M1
    <3> QED  BY <2>1, <3>1 DEF Origin
  <2> HIDE DEF m
  <2> QED  BY <1>2, <2>1, <2>3, <2>4, ReturningFacts
<1> QED  BY <1>3, <1>4

\* process_m1 keeps the facts: the quote in the M1 the client accepted names
\* the server whose public key and session id the client goes on with.
LEMMA ProcessM1Facts ==
  ASSUME AgreementInv, NEW e \in Endpoints, NEW m \in Inbound("M1"), ProcessM1(e, m)
  PROVE  FactsOK'
<1>1. IndInv /\ FactsOK /\ wire \subseteq Messages
  BY DEF AgreementInv, IndInv, TypeOK
<1>2. m \in M1s
  BY <1>1, InboundType
<1>3. Kept(e)
  BY <1>1, <1>2, ProcessM1Outcome
<1>4. CASE Failing(e)
  BY <1>3, <1>4, FailingFacts
<1>5. CASE ~Failing(e)
  <2> DEFINE m2 == M2(m.sid, Ciphertext(e, m.pkS), Commit(Tef(e), m.sid))
  <2>1. /\ e \in Clients /\ e \notin Servers /\ VerifyM1(m, ServerKey[e]) = Ok
        /\ wire' = wire \cup {m2}
        /\ sess'[e].state = "M2_CREATED" /\ sess'[e].sid = m.sid
        /\ sess'[e].ss = SharedSecret(e, m.pkS) /\ sess'[e].tefc = Tef(e)
        /\ sess'[e].commitC = Commit(Tef(e), m.sid)
        /\ sess'[e].th = Ext(Ext(TH0(m.sid), m), m2)
        /\ sess'[e].key = sess[e].key
    BY <1>1, <1>2, <1>5, ProcessM1Outcome, RolesAssumption
  <2>2. sess[e].key = None
    <3>1. sess[e] = NewSession
      BY <1>1 DEF IndInv, PhaseOK, LiveOK, FailedOK, ProcessM1
    <3> QED  BY <3>1 DEF NewSession
  <2>3. PICK s \in Servers : m.pkS = Pk(s) /\ m.sid = Sid(s)
    <3>1. m.quote # Garbled /\ m.quote[2] = m.pkS /\ m.quote[3] = m.sid
      BY <2>1 DEF VerifyM1, Ok
    <3>2. PICK n \in wire : n.type = "M1" /\ n.quote = m.quote
      BY <1>1, <3>1, InboundOrigin
    <3>3. PICK s \in Servers : n.quote = Quote(Pk(s), Sid(s))
      BY <1>1, <3>2 DEF FactsOK, Origin
    <3>4. Quote(Pk(s), Sid(s))[2] = Pk(s) /\ Quote(Pk(s), Sid(s))[3] = Sid(s)
      BY DEF Quote
    <3> QED  BY <3>1, <3>2, <3>3, <3>4
  <2>4. m2 = M2Of(e, s) /\ m2.type = "M2"
    BY <2>3 DEF M2Of, M2
  <2> HIDE DEF m2
  <2>5. Inbound("M1") \subseteq Inbound("M1")'
    BY <2>1, InboundGrows
  <2>6. ClientFacts(e)'
    BY <2>1, <2>2, <2>3, <2>4, <2>5 DEF ClientFacts
  <2>7. Origin(m2)'
    BY <2>4 DEF Origin
  <2> QED  BY <1>3, <2>1, <2>6, <2>7, ReturningFacts
<1> QED  BY <1>4, <1>5

\* process_m2 adds that the server is committed.
LEMMA ProcessM2Facts ==
  ASSUME AgreementInv, NEW e \in Endpoints, NEW m \in Inbound("M2"), ProcessM2(e, m)
  PROVE  FactsOK'
<1>1. IndInv /\ FactsOK /\ wire \subseteq Messages
  BY DEF AgreementInv, IndInv, TypeOK
<1>2. m \in M2s
  BY <1>1, InboundType
<1>3. Kept(e)
  BY <1>1, <1>2, ProcessM2Outcome
<1>4. CASE Failing(e)
  BY <1>3, <1>4, FailingFacts
<1>5. CASE ~Failing(e)
  <2>1. /\ e \in Servers /\ e \notin Clients /\ exc' = exc /\ exc[e] = Ok
        /\ wire' = wire \cup {M3Of(e, m)}
        /\ sess'[e].state = "M3_CREATED" /\ sess'[e].sid = Sid(e)
        /\ sess'[e].commitC = m.CommitC /\ sess'[e].commitS = Commit(Tef(e), Sid(e))
        /\ sess'[e].ss = SsOf(e, m) /\ sess'[e].tefs = Tef(e)
        /\ sess'[e].th = Ext(TH2Of(e, m), M3Of(e, m)) /\ sess'[e].key = None
    BY <1>2, <1>5, ProcessM2Outcome, RolesAssumption
  <2>2. Committed(e, m)'
    BY <2>1 DEF Committed
  <2>3. m \in Inbound("M2")'
    BY <2>1, InboundGrows
  <2>4. ServerFacts(e)'
    BY <2>1, <2>2, <2>3 DEF ServerFacts
  <2>5. Origin(M3Of(e, m))'
    <3>1. M3Of(e, m).type = "M3"
      BY DEF M3Of, M3
    <3> QED  BY <2>1, <2>2, <2>3, <3>1 DEF Origin
  <2> QED  BY <1>3, <2>1, <2>4, <2>5, ReturningFacts
<1> QED  BY <1>4, <1>5

\* process_m3 adds that the client has revealed its TEF to a server that is
\* committed: MAC1 is over the transcript of the server that made it.
LEMMA ProcessM3Facts ==
  ASSUME AgreementInv, NEW e \in Endpoints, NEW m \in Inbound("M3"), ProcessM3(e, m)
  PROVE  FactsOK'
<1>1. IndInv /\ FactsOK /\ wire \subseteq Messages
  BY DEF AgreementInv, IndInv, TypeOK
<1>2. m \in M3s
  BY <1>1, InboundType
<1>3. Kept(e)
  BY <1>2, ProcessM3Outcome
<1>4. CASE Failing(e)
  BY <1>3, <1>4, FailingFacts
<1>5. CASE ~Failing(e)
  <2> DEFINE h   == sess[e]
             th3 == Ext(h.th, m)
             m4  == M4(h.ss, h.tefc, th3)
  <2>1. /\ e \in Clients /\ e \notin Servers /\ exc' = exc /\ exc[e] = Ok
        /\ h.state = "M2_CREATED" /\ VerifyM3(m, h.ss, h.th) = Ok
        /\ wire' = wire \cup {m4}
        /\ sess'[e].state = "M4_CREATED" /\ sess'[e].sid = h.sid
        /\ sess'[e].commitC = h.commitC /\ sess'[e].commitS = m.CommitS
        /\ sess'[e].ss = h.ss /\ sess'[e].tefc = h.tefc
        /\ sess'[e].th = Ext(th3, m4) /\ sess'[e].key = h.key
    BY <1>2, <1>5, ProcessM3Outcome, RolesAssumption
  <2>2. PICK s \in Servers, m1 \in Inbound("M1") :
          /\ h.th = Ext(Ext(TH0(Sid(s)), m1), M2Of(e, s)) /\ h.sid = Sid(s)
          /\ h.ss = SharedSecret(e, Pk(s)) /\ h.tefc = Tef(e) /\ h.key = None
          /\ h.commitC = Commit(Tef(e), Sid(s))
    BY <1>1, <2>1 DEF FactsOK, ClientFacts
  <2>3. Committed(s, M2Of(e, s)) /\ h.th = TH2Of(s, M2Of(e, s))
    <3>1. m.MAC1 = Hmac(DeriveTK(h.ss), "commit", h.th)
      BY <2>1 DEF VerifyM3, Ok
    <3>2. PICK n \in wire : n.type = "M3" /\ n.MAC1 = m.MAC1
      BY <1>1, <3>1, InboundOrigin, TagInjective
    <3>3. PICK t \in Servers, n2 \in Inbound("M2") : n = M3Of(t, n2) /\ Committed(t, n2)
      BY <1>1, <3>2 DEF FactsOK, Origin
    <3>4. TH2Of(t, n2) = h.th
      BY <3>1, <3>2, <3>3, FieldsOf, TagInjective
    <3>5. t = s /\ n2 = M2Of(e, s)
      BY <2>2, <3>4, TH2Injective
    <3> QED  BY <3>3, <3>4, <3>5
  <2>4. th3 = TH3Of(e, s, m) /\ m4 = M4Of(e, s, m) /\ Ext(th3, m4) = TH4Of(e, s, m)
    BY <2>2, <2>3 DEF TH3Of, M4Of, TH4Of
  <2>5. Committed(s, M2Of(e, s))'
    BY <1>1, <1>3, <2>3, StableFacts
  <2> HIDE DEF h, th3, m4
  <2>6. Revealed(e, s, m)'
    BY <2>1, <2>2, <2>4, <2>5 DEF Revealed
  <2>7. m \in Inbound("M3")'
    BY <2>1, InboundGrows
  <2>8. ClientFacts(e)'
    BY <2>1, <2>2, <2>6, <2>7 DEF ClientFacts
  <2>9. Origin(M4Of(e, s, m))'
    <3>1. M4Of(e, s, m).type = "M4"
      BY DEF M4Of, M4
    <3> QED  BY <2>1, <2>2, <2>6, <2>7, <3>1 DEF Origin
  <2> QED  BY <1>3, <2>1, <2>4, <2>8, <2>9, ReturningFacts
<1> QED  BY <1>4, <1>5

\* process_m4 adds that the server has derived the key of both: the wrap in
\* M4 opens only under the transcript of the client that made it.
LEMMA ProcessM4Facts ==
  ASSUME AgreementInv, NEW e \in Endpoints, NEW m \in Inbound("M4"), ProcessM4(e, m)
  PROVE  FactsOK'
<1>1. IndInv /\ FactsOK /\ wire \subseteq Messages
  BY DEF AgreementInv, IndInv, TypeOK
<1>2. m \in M4s
  BY <1>1, InboundType
<1>3. Kept(e)
  BY <1>2, ProcessM4Outcome
<1>4. CASE Failing(e)
  BY <1>3, <1>4, FailingFacts
<1>5. CASE ~Failing(e)
  <2> DEFINE h   == sess[e]
             th4 == Ext(h.th, m)
             key == DeriveSessionKey(h.ss, Fusion(Plaintext(m.wrappedC), h.tefs, h.sid))
             w   == WrapS(h.ss, h.tefs, th4)
             m5  == M5(w, key, Ext(th4, w))
  <2>1. /\ e \in Servers /\ e \notin Clients /\ exc' = exc /\ exc[e] = Ok
        /\ h.state = "M3_CREATED" /\ Opens(DeriveKwrapC(h.ss), m.wrappedC, h.th)
        /\ wire' = wire \cup {m5}
        /\ sess'[e].state = "M5_CREATED" /\ sess'[e].key = key
        /\ sess'[e].m5 = m5 /\ sess'[e].th = Ext(th4, w)
    BY <1>2, <1>5, ProcessM4Outcome, RolesAssumption
  <2>2. PICK m2 : Committed(e, m2)
    BY <1>1, <2>1 DEF FactsOK, ServerFacts
  <2>3. /\ h.th = Ext(TH2Of(e, m2), M3Of(e, m2)) /\ h.ss = SsOf(e, m2)
        /\ h.tefs = Tef(e) /\ h.sid = Sid(e)
    BY <2>1, <2>2 DEF Committed
  <2>4. PICK c \in Clients, t \in Servers, m3 \in Inbound("M3") :
          m = M4Of(c, t, m3) /\ Revealed(c, t, m3)
    <3>1. m.wrappedC # Garbled
      BY <2>1 DEF Opens
    <3>2. m \in wire /\ m.type = "M4"
      BY <1>1, <3>1, InboundOrigin
    <3> QED  BY <1>1, <3>2 DEF FactsOK, Origin
  <2>5. t = e /\ m2 = M2Of(c, e) /\ m3 = AgreedM3(e, c)
    <3>1. h.th = TH3Of(c, t, m3)
      BY <2>1, <2>4, FieldsOf, TagInjective
    <3>2. TH2Of(e, m2) = TH2Of(t, M2Of(c, t)) /\ m3 = M3Of(e, m2)
      <4>1. Ext(TH2Of(e, m2), M3Of(e, m2)) = Ext(TH2Of(t, M2Of(c, t)), m3)
        BY <2>3, <3>1 DEF TH3Of
      <4> QED  BY <4>1, ExtInjective
    <3>3. t = e /\ m2 = M2Of(c, t)
      BY <3>2, TH2Injective
    <3> QED  BY <3>2, <3>3 DEF AgreedM3
  <2>6. key = SessionKeyOf(e, c)
    <3>1. Plaintext(m.wrappedC) = Tef(c)
      BY <2>4, FieldsOf, TagInjective
    <3> QED  BY <2>3, <2>5, <3>1, SsAgreed DEF SessionKeyOf
  <2>7. h.ss = SharedSecret(c, Pk(e)) /\ th4 = TH4Of(c, e, AgreedM3(e, c))
    <3>1. h.ss = SharedSecret(c, Pk(e))
      BY <2>3, <2>5, SsAgreed
    <3>2. h.th = TH3Of(c, e, AgreedM3(e, c))
      BY <2>3, <2>5 DEF TH3Of, AgreedM3
    <3> QED  BY <2>4, <2>5, <3>1, <3>2 DEF TH4Of
  <2> HIDE DEF key, th4
  <2>8. w = WrapOf(e, c) /\ Ext(th4, w) = TH5Of(e, c) /\ m5 = M5Of(e, c)
    BY <2>3, <2>6, <2>7 DEF WrapOf, TH5Of, M5Of
  <2> HIDE DEF h, w, m5
  <2>9. ServerKeyed(e, c)'
    <3>1. Revealed(c, e, AgreedM3(e, c))'
      BY <1>1, <1>3, <2>1, <2>4, <2>5, StableFacts
    <3> QED  BY <2>1, <2>6, <2>8, <3>1 DEF ServerKeyed
  <2>10. ServerFacts(e)'
    BY <2>1, <2>6, <2>9, KeyInjective DEF ServerFacts
  <2>11. Origin(M5Of(e, c))'
    <3>1. M5Of(e, c).type = "M5"
      BY DEF M5Of, M5
    <3> QED  BY <2>1, <2>9, <3>1 DEF Origin
  <2> QED  BY <1>3, <2>1, <2>8, <2>10, <2>11, ReturningFacts
<1> QED  BY <1>4, <1>5

\* process_m5 adds that the client has accepted the key: the wrap in M5 opens
\* only under the transcript of the server that made it.
LEMMA ProcessM5Facts ==
  ASSUME AgreementInv, NEW e \in Endpoints, NEW m \in Inbound("M5"), ProcessM5(e, m)
  PROVE  FactsOK'
<1>1. IndInv /\ FactsOK /\ wire \subseteq Messages
  BY DEF AgreementInv, IndInv, TypeOK
<1>2. m \in M5s
  BY <1>1, InboundType
<1>3. Kept(e)
  BY <1>2, ProcessM5Outcome
<1>4. CASE Failing(e)
  BY <1>3, <1>4, FailingFacts
<1>5. CASE ~Failing(e)
  <2> DEFINE h   == sess[e]
             key == DeriveSessionKey(h.ss, Fusion(h.tefc, Plaintext(m.wrappedS), h.sid))
             th5 == Ext(h.th, m.wrappedS)
  <2>1. /\ e \in Clients /\ e \notin Servers /\ exc' = exc /\ exc[e] = Ok
        /\ h.state = "M4_CREATED"
        /\ Opens(DeriveKwrapS(h.ss), m.wrappedS, h.th)
        /\ m.MACS = Hmac(key, "confirm-S", th5)
        /\ wire' = wire \cup {M6(key, th5, m)}
        /\ sess'[e].state = "ESTABLISHED" /\ sess'[e].key = key
        /\ sess'[e].m5 = m /\ sess'[e].th = th5
    BY <1>2, <1>5, ProcessM5Outcome, RolesAssumption
  <2>2. PICK s \in Servers, m3 \in Inbound("M3") : Revealed(e, s, m3)
    BY <1>1, <2>1 DEF FactsOK, ClientFacts
  <2>3. /\ h.th = TH4Of(e, s, m3) /\ h.ss = SharedSecret(e, Pk(s)) /\ h.tefc = Tef(e)
        /\ h.sid = Sid(s)
    BY <2>1, <2>2 DEF Revealed
  <2>4. PICK t \in Servers, c \in Clients : m = M5Of(t, c) /\ ServerKeyed(t, c)
    <3>1. m.wrappedS # Garbled /\ m.MACS # Garbled
      BY <2>1, TagInjective DEF Opens
    <3>2. m \in wire /\ m.type = "M5"
      BY <1>1, <3>1, InboundOrigin
    <3> QED  BY <1>1, <3>2 DEF FactsOK, Origin
  <2>5. m.wrappedS = Encrypt(DeriveKwrapS(SharedSecret(c, Pk(t))), Tef(t),
                             TH4Of(c, t, AgreedM3(t, c)))
    BY <2>4 DEF M5Of, M5, WrapOf, WrapS
  <2>6. t = s /\ c = e /\ m3 = AgreedM3(s, e)
    <3>1. h.th = TH4Of(c, t, AgreedM3(t, c))
      BY <2>1, <2>5, TagInjective
    <3>2. TH3Of(c, t, AgreedM3(t, c)) = TH3Of(e, s, m3)
      <4>1. Ext(TH3Of(c, t, AgreedM3(t, c)), M4Of(c, t, AgreedM3(t, c)))
              = Ext(TH3Of(e, s, m3), M4Of(e, s, m3))
        BY <2>3, <3>1 DEF TH4Of
      <4> QED  BY <4>1, ExtInjective
    <3>3. TH2Of(t, M2Of(c, t)) = TH2Of(s, M2Of(e, s)) /\ AgreedM3(t, c) = m3
      BY <3>2, ExtInjective DEF TH3Of
    <3>4. t = s /\ M2Of(c, t) = M2Of(e, s)
      BY <3>3, TH2Injective
    <3> QED  BY <3>3, <3>4, M2Injective
  <2>7. key = SessionKeyOf(s, e)
    BY <2>3, <2>5, <2>6, TagInjective DEF SessionKeyOf
  <2>8. th5 = TH5Of(s, e) /\ m = M5Of(s, e)
    BY <2>3, <2>4, <2>6 DEF TH5Of, M5Of, M5
  <2>9. M6(key, th5, m) = M6Of(s, e)
    BY <2>7, <2>8 DEF M6Of
  <2> HIDE DEF h, key, th5
  <2>10. ClientKeyed(e, s)'
    <3>1. ServerKeyed(s, e)'
      BY <1>1, <1>3, <2>1, <2>4, <2>6, StableFacts
    <3> QED  BY <2>1, <2>7, <2>8, <3>1 DEF ClientKeyed
  <2>11. ClientFacts(e)'
    BY <2>1, <2>7, <2>10, KeyInjective DEF ClientFacts
  <2>12. Origin(M6Of(s, e))'
    <3>1. M6Of(s, e).type = "M6"
      BY DEF M6Of, M6
    <3> QED  BY <2>1, <2>10, <3>1 DEF Origin
  <2> QED  BY <1>3, <2>1, <2>9, <2>11, <2>12, ReturningFacts
<1> QED  BY <1>4, <1>5

\* process_m6 keeps the facts: MACC is under the key of the server.
LEMMA ProcessM6Facts ==
  ASSUME AgreementInv, NEW e \in Endpoints, NEW m \in Inbound("M6"), ProcessM6(e, m)
  PROVE  FactsOK'
<1>1. IndInv /\ FactsOK /\ wire \subseteq Messages
  BY DEF AgreementInv, IndInv, TypeOK
<1>2. m \in M6s
  BY <1>1, InboundType
<1>3. Kept(e)
  BY <1>2, ProcessM6Outcome
<1>4. CASE Failing(e)
  BY <1>3, <1>4, FailingFacts
<1>5. CASE ~Failing(e)
  <2> DEFINE h == sess[e]
  <2>1. /\ e \in Servers /\ e \notin Clients /\ exc' = exc /\ exc[e] = Ok
        /\ h.state = "M5_CREATED"
        /\ m.MACC = Hmac(h.key, "confirm-C", Ext(h.th, h.m5))
        /\ wire' = wire /\ sess'[e].state = "ESTABLISHED" /\ sess'[e].key = h.key
    BY <1>2, <1>5, ProcessM6Outcome, RolesAssumption
  <2>2. h.key # None
    BY <1>1, <2>1 DEF FactsOK, ServerFacts
  <2>3. PICK d \in Clients : ServerKeyed(e, d)
    BY <1>1, <2>1, <2>2 DEF FactsOK, ServerFacts
  <2>4. PICK t \in Servers, c \in Clients : m = M6Of(t, c) /\ ClientKeyed(c, t)
    <3>1. m.MACC # Garbled
      BY <2>1, TagInjective
    <3>2. m \in wire /\ m.type = "M6"
      BY <1>1, <3>1, InboundOrigin
    <3> QED  BY <1>1, <3>2 DEF FactsOK, Origin
  <2>5. t = e /\ c = d
    <3>1. h.key = SessionKeyOf(e, d)
      BY <2>3 DEF ServerKeyed
    <3>2. \E th : m.MACC = Hmac(SessionKeyOf(t, c), "confirm-C", th)
      BY <2>4 DEF M6Of, M6
    <3>3. SessionKeyOf(t, c) = SessionKeyOf(e, d)
      BY <2>1, <3>1, <3>2, TagInjective
    <3> QED  BY <3>3, KeyInjective
  <2>6. ServerKeyed(e, c)' /\ ClientKeyed(c, e)'
    BY <1>1, <1>3, <2>1, <2>3, <2>4, <2>5, StableFacts
  <2>7. ServerFacts(e)'
    BY <2>1, <2>2, <2>6 DEF ServerFacts
  <2> QED  BY <1>3, <2>1, <2>7, OthersFacts DEF FactsOK
<1> QED  BY <1>4, <1>5

-----------------------------------------------------------------------------
(* The invariant. *)

\* A step that changes no session and puts nothing on the wire keeps the facts.
LEMMA UnchangedFacts ==
  ASSUME FactsOK, sess' = sess, exc' = exc, wire' = wire
  PROVE  FactsOK'
<1>1. \A type : Inbound(type)' = Inbound(type)
  BY DEF Inbound, Damaged
<1>2. \A s \in Servers : \A m2 : Committed(s, m2)' = Committed(s, m2)
  BY DEF Committed
<1>3. \A s \in Servers, c \in Clients : \A m3 : Revealed(c, s, m3)' = Revealed(c, s, m3)
  BY <1>2 DEF Revealed
<1>4. \A s \in Servers, c \in Clients : ServerKeyed(s, c)' = ServerKeyed(s, c)
  BY <1>3 DEF ServerKeyed
<1>5. \A s \in Servers, c \in Clients : ClientKeyed(c, s)' = ClientKeyed(c, s)
  BY <1>4 DEF ClientKeyed
<1>6. \A s \in Servers : ServerFacts(s) => ServerFacts(s)'
  BY <1>1, <1>2, <1>4, <1>5 DEF ServerFacts
<1>7. \A c \in Clients : ClientFacts(c) => ClientFacts(c)'
  BY <1>1, <1>3, <1>5 DEF ClientFacts
<1>8. \A m \in wire : Origin(m) => Origin(m)'
  BY <1>1, <1>2, <1>3, <1>4, <1>5 DEF Origin
<1> QED  BY <1>6, <1>7, <1>8 DEF FactsOK

\* New sessions have proved nothing yet.
LEMMA InitFacts ==
  ASSUME Init
  PROVE  AgreementInv
<1>1. IndInv
  BY InitIndInv
<1>2. \A e \in Endpoints : sess[e].state = "INIT" /\ sess[e].key = None
  BY DEF Init, NewSession
<1>3. FactsOK
  BY <1>2 DEF FactsOK, ServerFacts, ClientFacts, Init, Endpoints
<1> QED  BY <1>1, <1>3 DEF AgreementInv

\* Every call keeps the invariant.
LEMMA NextFacts ==
  ASSUME AgreementInv, [Next]_vars
  PROVE  AgreementInv'
<1>1. IndInv'
  BY NextIndInv DEF AgreementInv
<1>2. CASE UNCHANGED vars
  BY <1>1, <1>2, UnchangedFacts DEF vars, AgreementInv
<1>3. CASE Next
  <2>1. PICK e \in Endpoints :
          \/ CreateM1(e)
          \/ \E m \in Inbound("M1") : ProcessM1(e, m)
          \/ \E m \in Inbound("M2") : ProcessM2(e, m)
          \/ \E m \in Inbound("M3") : ProcessM3(e, m)
          \/ \E m \in Inbound("M4") : ProcessM4(e, m)
          \/ \E m \in Inbound("M5") : ProcessM5(e, m)
          \/ \E m \in Inbound("M6") : ProcessM6(e, m)
          \/ OutOfSequence(e)
    BY <1>3 DEF Next
  <2>2. CASE CreateM1(e)
    BY <1>1, <2>2, CreateM1Facts DEF AgreementInv
  <2>3. CASE \E m \in Inbound("M1") : ProcessM1(e, m)
    BY <1>1, <2>3, ProcessM1Facts DEF AgreementInv
  <2>4. CASE \E m \in Inbound("M2") : ProcessM2(e, m)
    BY <1>1, <2>4, ProcessM2Facts DEF AgreementInv
  <2>5. CASE \E m \in Inbound("M3") : ProcessM3(e, m)
    BY <1>1, <2>5, ProcessM3Facts DEF AgreementInv
  <2>6. CASE \E m \in Inbound("M4") : ProcessM4(e, m)
    BY <1>1, <2>6, ProcessM4Facts DEF AgreementInv
  <2>7. CASE \E m \in Inbound("M5") : ProcessM5(e, m)
    BY <1>1, <2>7, ProcessM5Facts DEF AgreementInv
  <2>8. CASE \E m \in Inbound("M6") : ProcessM6(e, m)
    BY <1>1, <2>8, ProcessM6Facts DEF AgreementInv
  <2>9. CASE OutOfSequence(e)
    BY <1>1, <2>9, UnchangedFacts DEF OutOfSequence, AgreementInv
  <2> QED  BY <2>1, <2>2, <2>3, <2>4, <2>5, <2>6, <2>7, <2>8, <2>9
<1> QED  BY <1>2, <1>3

\* The invariant holds of every behaviour, for every set of sessions.
THEOREM AgreementInvariance == Spec => []AgreementInv
<1>1. Init => AgreementInv
  BY InitFacts
<1>2. AgreementInv /\ [Next]_vars => AgreementInv'
  BY NextFacts
<1> QED  BY <1>1, <1>2, PTL DEF Spec

\* What the state of a session and each message say about its peer is true,
\* for every set of sessions and every caller (session.py 83-199).
THEOREM FactsCorrect == Spec => []FactsOK
<1>1. AgreementInv => FactsOK
  BY DEF AgreementInv
<1> QED  BY <1>1, AgreementInvariance, PTL

-----------------------------------------------------------------------------
(* Who a client talks to. *)

\* A call of a handler with a message some caller may pass.
HandlerCall(e) ==
  \/ CreateM1(e)
  \/ \E m \in Inbound("M1") : ProcessM1(e, m)
  \/ \E m \in Inbound("M2") : ProcessM2(e, m)
  \/ \E m \in Inbound("M3") : ProcessM3(e, m)
  \/ \E m \in Inbound("M4") : ProcessM4(e, m)
  \/ \E m \in Inbound("M5") : ProcessM5(e, m)
  \/ \E m \in Inbound("M6") : ProcessM6(e, m)

\* What a handler call leaves alone.
LEMMA HandlerKeeps ==
  ASSUME AgreementInv, NEW e \in Endpoints, HandlerCall(e)
  PROVE  Kept(e)
<1>1. IndInv /\ wire \subseteq Messages
  BY DEF AgreementInv, IndInv, TypeOK
<1> QED  BY <1>1, InboundType, CreateM1Outcome, ProcessM1Outcome, ProcessM2Outcome,
            ProcessM3Outcome, ProcessM4Outcome, ProcessM5Outcome, ProcessM6Outcome
         DEF HandlerCall

\* The M1 of server s.
M1Of(s) == M1(Sid(s), Pk(s), ServerKey[s])

\* Whose M1 or M2 is on the wire has left its first state, and an M1
\* there is as its server signed it.
Announced ==
  \A m \in wire :
    /\ m.type = "M1" => \E s \in Servers : m = M1Of(s) /\ sess[s].state # "INIT"
    /\ m.type = "M2" => \E c \in Clients : m.ct[2] = c /\ sess[c].state # "INIT"

\* A client takes a session id only from a server with the signing key it trusts.
Trusting ==
  \A c \in Clients, s \in Servers : sess[c].sid = Sid(s) => ServerKey[c] = ServerKey[s]

\* Whoever calls a handler, an M1 or M2 is on the wire only once its sender
\* has left its first state.
LEMMA CallAnnounced ==
  ASSUME AgreementInv, Announced, NEW e \in Endpoints, HandlerCall(e)
  PROVE  Announced'
<1>1. IndInv /\ wire \subseteq Messages
  BY DEF AgreementInv, IndInv, TypeOK
<1>2. Kept(e)
  BY HandlerKeeps
<1>3. \A d \in Endpoints : sess[d].state # "INIT" => sess'[d].state # "INIT"
  BY <1>2 DEF Kept
<1>4. ASSUME NEW m, wire' = wire \/ wire' = wire \cup {m}, m.type \notin {"M1", "M2"}
      PROVE  Announced'
  BY <1>3, <1>4 DEF Announced, Endpoints
<1>5. Failing(e) => Announced'
  BY <1>3 DEF Failing, Announced, Endpoints
<1>6. CASE CreateM1(e)
  <2> DEFINE m == M1(Sid(e), Pk(e), ServerKey[e])
  <2>1. m.type = "M1" /\ m = M1Of(e)
    BY DEF M1, M1Of
  <2> HIDE DEF m
  <2>2. CASE e \in Servers /\ wire' = wire \cup {m} /\ sess'[e].state = "M1_CREATED"
    BY <1>3, <2>1, <2>2 DEF Announced, Endpoints
  <2> QED  BY <1>1, <1>5, <1>6, <2>2, CreateM1Outcome DEF m
<1>7. CASE \E m \in Inbound("M1") : ProcessM1(e, m)
  <2>1. PICK m \in Inbound("M1") : m \in M1s /\ ProcessM1(e, m)
    BY <1>1, <1>7, InboundType
  <2> DEFINE m2 == M2(m.sid, Ciphertext(e, m.pkS), Commit(Tef(e), m.sid))
  <2>2. m2.type = "M2" /\ m2.ct[2] = e
    BY DEF M2, Ciphertext
  <2> HIDE DEF m2
  <2>3. CASE e \in Clients /\ wire' = wire \cup {m2} /\ sess'[e].state = "M2_CREATED"
    BY <1>3, <2>2, <2>3 DEF Announced, Endpoints
  <2> QED  BY <1>1, <1>5, <2>1, <2>3, ProcessM1Outcome DEF m2
<1>8. CASE \E m \in Inbound("M2") : ProcessM2(e, m)
  <2>1. PICK m \in Inbound("M2") : m \in M2s /\ ProcessM2(e, m)
    BY <1>1, <1>8, InboundType
  <2>2. M3Of(e, m).type = "M3"
    BY DEF M3Of, M3
  <2> QED  BY <1>4, <1>5, <2>1, <2>2, ProcessM2Outcome
<1>9. CASE \E m \in Inbound("M3") : ProcessM3(e, m)
  <2>1. PICK m \in Inbound("M3") : m \in M3s /\ ProcessM3(e, m)
    BY <1>1, <1>9, InboundType
  <2>2. \A ss, tef, th : M4(ss, tef, th).type = "M4"
    BY DEF M4
  <2> QED  BY <1>4, <1>5, <2>1, <2>2, ProcessM3Outcome
<1>10. CASE \E m \in Inbound("M4") : ProcessM4(e, m)
  <2>1. PICK m \in Inbound("M4") : m \in M4s /\ ProcessM4(e, m)
    BY <1>1, <1>10, InboundType
  <2>2. \A w, key, th : M5(w, key, th).type = "M5"
    BY DEF M5
  <2> QED  BY <1>4, <1>5, <2>1, <2>2, ProcessM4Outcome
<1>11. CASE \E m \in Inbound("M5") : ProcessM5(e, m)
  <2>1. PICK m \in Inbound("M5") : m \in M5s /\ ProcessM5(e, m)
    BY <1>1, <1>11, InboundType
  <2>2. \A key, th, m5 : M6(key, th, m5).type = "M6"
    BY DEF M6
  <2> QED  BY <1>4, <1>5, <2>1, <2>2, ProcessM5Outcome
<1>12. CASE \E m \in Inbound("M6") : ProcessM6(e, m)
  <2>1. PICK m \in Inbound("M6") : m \in M6s /\ ProcessM6(e, m)
    BY <1>1, <1>12, InboundType
  <2>2. wire' = wire
    BY <2>1, ProcessM6Outcome DEF Failing
  <2> QED  BY <1>3, <2>2 DEF Announced, Endpoints
<1> QED  BY <1>6, <1>7, <1>8, <1>9, <1>10, <1>11, <1>12 DEF HandlerCall

\* create_m1 assigns the session its own id.
LEMMA CreateM1Sid ==
  ASSUME IndInv, NEW e \in Endpoints, CreateM1(e)
  PROVE  sess'[e].sid = Sid(e)
<1>1. sess[e] \in Session
  BY DEF IndInv, TypeOK
<1>2. ASSUME NEW s, s.sid = Sid(e), sess' = [sess EXCEPT ![e] = s]
      PROVE  sess'[e].sid = Sid(e)
  BY <1>2, Called
<1> QED  BY <1>1, <1>2 DEF CreateM1, Raise, Return, Session

\* process_m1 takes the session id of an M1 it verified, or none.
LEMMA ProcessM1Sid ==
  ASSUME IndInv, NEW e \in Endpoints, NEW m, ProcessM1(e, m)
  PROVE  \/ sess'[e].sid = sess[e].sid
         \/ sess'[e].sid = m.sid /\ VerifyM1(m, ServerKey[e]) = Ok
<1>1. sess[e] \in Session
  BY DEF IndInv, TypeOK
<1>2. ASSUME NEW s, sess' = [sess EXCEPT ![e] = s]
      PROVE  sess'[e].sid = s.sid
  BY <1>2, Called
<1>3. CASE VerifyM1(m, ServerKey[e]) = Ok
  <2>1. ASSUME NEW s, sess' = [sess EXCEPT ![e] = s], s.sid = m.sid
        PROVE  sess'[e].sid = m.sid
    BY <1>2, <2>1
  <2> QED  BY <1>1, <1>3, <2>1 DEF ProcessM1, Raise, Return, Session
<1>4. CASE VerifyM1(m, ServerKey[e]) # Ok
  <2>1. ASSUME NEW s, sess' = [sess EXCEPT ![e] = s], s.sid = sess[e].sid
        PROVE  sess'[e].sid = sess[e].sid
    BY <1>2, <2>1
  <2> QED  BY <1>1, <1>4, <2>1 DEF ProcessM1, Raise, Session
<1> QED  BY <1>3, <1>4

\* An M1 that passes names a server with the key it is verified under.
LEMMA VerifiedM1 ==
  ASSUME Announced, NEW m \in Inbound("M1"), NEW key, VerifyM1(m, key) = Ok
  PROVE  \E s \in Servers : m.sid = Sid(s) /\ key = ServerKey[s]
<1>1. PICK n \in wire : n.type = "M1" /\ (m = n \/ m \in Damaged(n))
  BY DEF Inbound
<1>2. PICK s \in Servers : n = M1Of(s)
  BY <1>1 DEF Announced
<1>3. /\ n.quote = Quote(Pk(s), Sid(s)) /\ n.SigS = Signature(ServerKey[s], n.quote)
      /\ n = [type |-> "M1", sid |-> n.sid, TS |-> n.TS, pkS |-> n.pkS, quote |-> n.quote,
              SigS |-> n.SigS]
  BY <1>2 DEF M1Of, M1
<1>4. /\ m.quote = n.quote \/ m.quote = Garbled
      /\ m.SigS = n.SigS \/ m.SigS = Garbled
  BY <1>1, <1>3 DEF Damaged
<1>5. m.quote # Garbled /\ m.SigS = Signature(key, m.quote) /\ m.quote[3] = m.sid
  BY DEF VerifyM1, Ok
<1>6. \A q : Signature(key, q) # Garbled /\ (Signature(key, q) = Signature(ServerKey[s], q)
                                              => key = ServerKey[s])
  BY DEF Signature, Garbled
<1>7. Quote(Pk(s), Sid(s))[3] = Sid(s)
  BY DEF Quote
<1> QED  BY <1>3, <1>4, <1>5, <1>6, <1>7

\* Only create_m1 and process_m1 assign a session id.
LEMMA SidKept ==
  ASSUME IndInv, NEW e \in Endpoints, NEW m,
         \/ ProcessM2(e, m) \/ ProcessM3(e, m) \/ ProcessM4(e, m)
         \/ ProcessM5(e, m) \/ ProcessM6(e, m)
  PROVE  sess'[e].sid = sess[e].sid
<1>1. sess[e] \in Session
  BY DEF IndInv, TypeOK
<1>2. ASSUME NEW s, s.sid = sess[e].sid, sess' = [sess EXCEPT ![e] = s]
      PROVE  sess'[e].sid = sess[e].sid
  BY <1>2, Called
<1>3. \A s \in Session : Established(s).sid = s.sid
  BY EstablishedKeeps
<1>4. CASE ProcessM2(e, m)
  BY <1>1, <1>2, <1>4 DEF ProcessM2, Raise, Return, Session
<1>5. CASE ProcessM3(e, m)
  BY <1>1, <1>2, <1>5 DEF ProcessM3, Raise, Return, Session
<1>6. CASE ProcessM4(e, m)
  BY <1>1, <1>2, <1>6 DEF ProcessM4, Raise, Return, Session
<1>7. CASE ProcessM5(e, m)
  BY <1>1, <1>2, <1>7 DEF ProcessM5, Raise, Return, Session, Established, Zeroize
<1>8. CASE ProcessM6(e, m)
  BY <1>1, <1>2, <1>8 DEF ProcessM6, Raise, Session, Established, Zeroize
<1> QED  BY <1>4, <1>5, <1>6, <1>7, <1>8

\* Whoever calls a handler, a client goes on trusting only the key it was given.
LEMMA CallTrusting ==
  ASSUME AgreementInv, Announced, Trusting, NEW e \in Endpoints, HandlerCall(e)
  PROVE  Trusting'
<1>1. IndInv /\ Kept(e) /\ wire \subseteq Messages
  BY HandlerKeeps DEF AgreementInv, IndInv, TypeOK
<1>2. \A c \in Clients \ {e} : sess'[c] = sess[c]
  BY <1>1 DEF Kept, Endpoints
<1>3. ASSUME e \in Clients, NEW s \in Servers, sess'[e].sid = Sid(s)
      PROVE  ServerKey[e] = ServerKey[s]
  <2>1. CASE CreateM1(e)
    <3>1. sess'[e].sid = Sid(e)
      BY <1>1, <2>1, CreateM1Sid
    <3> QED  BY <1>3, <3>1, SidInjective, RolesAssumption
  <2>2. CASE \E m \in Inbound("M1") : ProcessM1(e, m)
    <3>1. PICK m \in Inbound("M1") : m \in M1s /\ ProcessM1(e, m)
      BY <1>1, <2>2, InboundType
    <3>2. CASE sess'[e].sid = sess[e].sid
      BY <1>3, <3>2 DEF Trusting
    <3>3. CASE sess'[e].sid = m.sid /\ VerifyM1(m, ServerKey[e]) = Ok
      <4>1. PICK t \in Servers : m.sid = Sid(t) /\ ServerKey[e] = ServerKey[t]
        BY <3>1, <3>3, VerifiedM1
      <4> QED  BY <1>3, <3>3, <4>1, SidInjective
    <3> QED  BY <1>1, <1>3, <3>1, <3>2, <3>3, ProcessM1Sid
  <2>3. CASE \E m : \/ ProcessM2(e, m) \/ ProcessM3(e, m) \/ ProcessM4(e, m)
                    \/ ProcessM5(e, m) \/ ProcessM6(e, m)
    BY <1>1, <1>3, <2>3, SidKept DEF Trusting
  <2> QED  BY <2>1, <2>2, <2>3 DEF HandlerCall
<1> QED  BY <1>2, <1>3 DEF Trusting

\* New sessions have met nobody.
LEMMA InitIntroduced ==
  ASSUME Init
  PROVE  Announced /\ Trusting
<1>1. wire = {} /\ \A e \in Endpoints : sess[e].sid = None
  BY DEF Init, NewSession
<1>2. \A s : Sid(s) # None
  BY DEF Sid, None
<1> QED  BY <1>1, <1>2 DEF Announced, Trusting, Endpoints

\* Every session id a client takes is that of a server it trusts, and every M1
\* is as its server signed it, for every set of sessions (m1.py 22-32).
THEOREM Introductions == Spec => [](Announced /\ Trusting)
<1>1. Init => Announced /\ Trusting
  BY InitIntroduced
<1>2. AgreementInv /\ Announced /\ Trusting /\ [Next]_vars => (Announced /\ Trusting)'
  <2> SUFFICES ASSUME AgreementInv, Announced, Trusting, [Next]_vars
               PROVE  (Announced /\ Trusting)'
    OBVIOUS
  <2>1. CASE sess' = sess /\ wire' = wire
    BY <2>1 DEF Announced, Trusting
  <2>2. ASSUME NEW e \in Endpoints, HandlerCall(e)
        PROVE  (Announced /\ Trusting)'
    BY <2>2, CallAnnounced, CallTrusting
  <2> QED  BY <2>1, <2>2 DEF Next, HandlerCall, OutOfSequence, vars
<1> QED  BY <1>1, <1>2, AgreementInvariance, PTL DEF Spec

\* The server that shares a client's key has the signing key the client trusts.
LEMMA KeyedAndTrusted ==
  ASSUME Trusting, NEW c \in Clients, NEW s \in Servers, ClientKeyed(c, s)
  PROVE  ServerKey[c] = ServerKey[s]
<1>1. sess[c].sid = Sid(s)
  BY DEF ClientKeyed, ServerKeyed, Revealed
<1> QED  BY <1>1 DEF Trusting

\* A session has not yet returned what its state will make it return next.
LEMMA NotYetSaid ==
  ASSUME AgreementInv, Announced, NEW e \in Endpoints
  PROVE  /\ sess[e].state = "INIT" =>
              M1Of(e) \notin wire /\ \A m \in wire : m.type = "M2" => m.ct[2] # e
         /\ sess[e].state = "M1_CREATED" => \A m2 : M3Of(e, m2) \notin wire
         /\ sess[e].state = "M2_CREATED" =>
              \A ss, th : M4(ss, Tef(e), th) \notin wire
         /\ sess[e].state = "M3_CREATED" =>
              \A ss, th, key, th5 : M5(WrapS(ss, Tef(e), th), key, th5) \notin wire
         /\ sess[e].state = "M4_CREATED" =>
              \A key, th, m5 : key[3][2] = Tef(e) => M6(key, th, m5) \notin wire
<1>1. \A m \in wire : Origin(m)
  BY DEF AgreementInv, FactsOK
<1>2. \A d : Tef(d) = Tef(e) => d = e
  BY DEF Tef
<1>3. sess[e].state = "INIT" =>
        M1Of(e) \notin wire /\ \A m \in wire : m.type = "M2" => m.ct[2] # e
  <2>1. \A t : M1Of(t).type = "M1" /\ M1Of(t).sid = Sid(t)
    BY DEF M1, M1Of
  <2> QED  BY <2>1, SidInjective DEF Announced
<1>4. ASSUME sess[e].state = "M1_CREATED", NEW m2, M3Of(e, m2) \in wire
      PROVE  FALSE
  <2>1. M3Of(e, m2).type = "M3"
    BY DEF M3Of, M3
  <2>2. PICK s \in Servers, n \in Inbound("M2") : M3Of(e, m2) = M3Of(s, n) /\ Committed(s, n)
    BY <1>1, <1>4, <2>1 DEF Origin
  <2>3. Commit(Tef(e), Sid(e)) = Commit(Tef(s), Sid(s))
    BY <2>2, FieldsOf
  <2>4. s = e
    BY <2>3, CommitInjective
  <2> QED  BY <1>4, <2>2, <2>4 DEF Committed
<1>5. ASSUME sess[e].state = "M2_CREATED", NEW ss, NEW th, M4(ss, Tef(e), th) \in wire
      PROVE  FALSE
  <2>1. /\ M4(ss, Tef(e), th).type = "M4"
        /\ M4(ss, Tef(e), th).wrappedC = Encrypt(DeriveKwrapC(ss), Tef(e), th)
    BY DEF M4
  <2>2. PICK c \in Clients, s \in Servers, m3 \in Inbound("M3") :
               M4(ss, Tef(e), th) = M4Of(c, s, m3) /\ Revealed(c, s, m3)
    BY <1>1, <1>5, <2>1 DEF Origin
  <2>3. Encrypt(DeriveKwrapC(ss), Tef(e), th)
          = Encrypt(DeriveKwrapC(SharedSecret(c, Pk(s))), Tef(c), TH3Of(c, s, m3))
    BY <2>1, <2>2, FieldsOf
  <2>4. Tef(c) = Tef(e)
    BY <2>3, TagInjective
  <2> QED  BY <1>2, <1>5, <2>2, <2>4 DEF Revealed
<1>6. ASSUME sess[e].state = "M3_CREATED", NEW ss, NEW th, NEW key, NEW th5,
             M5(WrapS(ss, Tef(e), th), key, th5) \in wire
      PROVE  FALSE
  <2> DEFINE n == M5(WrapS(ss, Tef(e), th), key, th5)
  <2>1. n.type = "M5" /\ n.wrappedS = WrapS(ss, Tef(e), th)
    BY DEF M5
  <2>2. PICK s \in Servers, c \in Clients : n = M5Of(s, c) /\ ServerKeyed(s, c)
    BY <1>1, <1>6, <2>1 DEF Origin
  <2>3. M5Of(s, c).wrappedS = WrapOf(s, c)
    BY DEF M5Of, M5
  <2>4. Encrypt(DeriveKwrapS(ss), Tef(e), th)
          = Encrypt(DeriveKwrapS(SharedSecret(c, Pk(s))), Tef(s), TH4Of(c, s, AgreedM3(s, c)))
    BY <2>1, <2>2, <2>3 DEF WrapOf, WrapS
  <2>5. Tef(s) = Tef(e)
    BY <2>4, TagInjective
  <2> QED  BY <1>2, <1>6, <2>2, <2>5 DEF ServerKeyed
<1>7. ASSUME sess[e].state = "M4_CREATED", NEW key, NEW th, NEW m5, key[3][2] = Tef(e),
             M6(key, th, m5) \in wire
      PROVE  FALSE
  <2>1. /\ M6(key, th, m5).type = "M6"
        /\ M6(key, th, m5).MACC = Hmac(key, "confirm-C", Ext(th, m5))
    BY DEF M6
  <2>2. PICK s \in Servers, c \in Clients : M6(key, th, m5) = M6Of(s, c) /\ ClientKeyed(c, s)
    BY <1>1, <1>7, <2>1 DEF Origin
  <2>3. Hmac(key, "confirm-C", Ext(th, m5))
          = Hmac(SessionKeyOf(s, c), "confirm-C", Ext(TH5Of(s, c), M5Of(s, c)))
    BY <2>1, <2>2 DEF M6Of, M6
  <2>4. key = SessionKeyOf(s, c)
    BY <2>3, TagInjective
  <2>5. c = e
    BY <1>2, <1>7, <2>4, KeyInjective
  <2> QED  BY <1>7, <2>2, <2>5 DEF ClientKeyed
<1> QED  BY <1>3, <1>4, <1>5, <1>6, <1>7

\* Each server has a signing key of its own.
OwnKeys == \A s, t \in Servers : ServerKey[s] = ServerKey[t] => s = t

\* Then both sides of a handshake that are established share their key, and
\* with each other: the client trusts no other server, and the key is for it.
LEMMA KeyedByPeer ==
  ASSUME OwnKeys, AgreementInv, Trusting, NEW s \in Servers, NEW c \in Clients,
         ServerKey[c] = ServerKey[s], sess[s].state = "ESTABLISHED", exc[s] = Ok,
         sess[c].state = "ESTABLISHED"
  PROVE  ClientKeyed(c, s)
<1>1. PICK t \in Servers : ClientKeyed(c, t)
  BY DEF AgreementInv, FactsOK, ClientFacts
<1>2. ServerKey[t] = ServerKey[s]
  BY <1>1, KeyedAndTrusted
<1>3. s = t
  BY <1>2 DEF OwnKeys
<1> QED  BY <1>1, <1>3

-----------------------------------------------------------------------------
(* What an established session keeps.                                        *)

\* No ephemeral secret is left.
Wiped(s) == s.ss = None /\ s.tefc = None /\ s.tefs = None /\ s.skS = None

\* What a handler call leaves alone, and that the two which establish a
\* session erase its secrets (session.py 129-135, 183-207).
LEMMA HandlerErases ==
  ASSUME AgreementInv, NEW e \in Endpoints, HandlerCall(e)
  PROVE  /\ Kept(e)
         /\ sess'[e].state = "ESTABLISHED" /\ exc'[e] = Ok => Wiped(sess'[e])
<1>1. IndInv /\ wire \subseteq Messages
  BY DEF AgreementInv, IndInv, TypeOK
<1>2. Failing(e) => exc'[e] # Ok
  BY DEF Failing
<1>3. CASE CreateM1(e)
  BY <1>1, <1>2, <1>3, CreateM1Outcome
<1>4. CASE \E m \in Inbound("M1") : ProcessM1(e, m)
  BY <1>1, <1>2, <1>4, InboundType, ProcessM1Outcome
<1>5. CASE \E m \in Inbound("M2") : ProcessM2(e, m)
  BY <1>1, <1>2, <1>5, InboundType, ProcessM2Outcome
<1>6. CASE \E m \in Inbound("M3") : ProcessM3(e, m)
  BY <1>1, <1>2, <1>6, InboundType, ProcessM3Outcome
<1>7. CASE \E m \in Inbound("M4") : ProcessM4(e, m)
  BY <1>1, <1>2, <1>7, InboundType, ProcessM4Outcome
<1>8. CASE \E m \in Inbound("M5") : ProcessM5(e, m)
  BY <1>1, <1>2, <1>8, InboundType, ProcessM5Outcome DEF Wiped
<1>9. CASE \E m \in Inbound("M6") : ProcessM6(e, m)
  BY <1>1, <1>2, <1>9, InboundType, ProcessM6Outcome DEF Wiped
<1> QED  BY <1>3, <1>4, <1>5, <1>6, <1>7, <1>8, <1>9 DEF HandlerCall

\* A session that verified everything its peer sent holds no ephemeral secret.
SecretsWiped ==
  \A e \in Endpoints : sess[e].state = "ESTABLISHED" /\ exc[e] = Ok => Wiped(sess[e])

\* Established and without an exception means erased, whoever calls the session
\* before and after, for every set of sessions (session.py 129-135, 183-207).
THEOREM SecretsErased == Spec => []SecretsWiped
<1>1. Init => SecretsWiped
  BY DEF Init, NewSession, SecretsWiped
<1>2. AgreementInv /\ SecretsWiped /\ [Next]_vars => SecretsWiped'
  <2> SUFFICES ASSUME AgreementInv, SecretsWiped, [Next]_vars
               PROVE  SecretsWiped'
    OBVIOUS
  <2>1. ASSUME NEW e \in Endpoints, HandlerCall(e)
        PROVE  SecretsWiped'
    <3>1. /\ \A d \in Endpoints \ {e} : sess'[d] = sess[d] /\ exc'[d] = exc[d]
          /\ sess'[e].state = "ESTABLISHED" /\ exc'[e] = Ok => Wiped(sess'[e])
      BY <2>1, HandlerErases DEF Kept
    <3> QED  BY <3>1 DEF SecretsWiped, Wiped
  <2>2. ASSUME UNCHANGED <<sess, exc>>
        PROVE  SecretsWiped'
    BY <2>2 DEF SecretsWiped
  <2> QED  BY <2>1, <2>2, Zenon DEF Next, HandlerCall, OutOfSequence, vars
<1> QED  BY <1>1, <1>2, AgreementInvariance, PTL DEF Spec

-----------------------------------------------------------------------------
(* The theorems. *)

\* A client puts TEFC on the wire only if a server with its session id and shared
\* secret holds its CommitC, for every set of sessions (session.py 169-181).
THEOREM ClientCommitBeforeReveal == Spec => []ClientRevealsToCommitted
<1>1. ASSUME AgreementInv
      PROVE  ClientRevealsToCommitted
  <2> SUFFICES ASSUME NEW c \in Clients, sess[c].state \in {"M4_CREATED", "M5_VERIFIED"}
               PROVE  \E s \in Servers : /\ sess[s].commitC = Commit(sess[c].tefc, sess[c].sid)
                                         /\ sess[s].sid = sess[c].sid
                                         /\ sess[s].ss = sess[c].ss
    BY DEF ClientRevealsToCommitted
  <2>1. FactsOK
    BY <1>1 DEF AgreementInv
  <2>2. PICK s \in Servers, m3 \in Inbound("M3") : Revealed(c, s, m3)
    BY <2>1 DEF FactsOK, ClientFacts
  <2>3. /\ Committed(s, M2Of(c, s)) /\ sess[c].sid = Sid(s) /\ sess[c].tefc = Tef(c)
        /\ sess[c].ss = SharedSecret(c, Pk(s))
    BY <2>2 DEF Revealed
  <2>4. sess[s].sid = Sid(s) /\ sess[s].commitC = Commit(Tef(c), Sid(s))
    BY <2>3, FieldsOf DEF Committed
  \* The server has not erased the secret: only the client whose TEF it
  \* opened, and that is c, can have made it do so.
  <2>5. ~(sess[s].state = "ESTABLISHED" /\ exc[s] = Ok)
    <3> SUFFICES ASSUME sess[s].state = "ESTABLISHED", exc[s] = Ok
                 PROVE  FALSE
      OBVIOUS
    <3>1. PICK d \in Clients : ClientKeyed(d, s)
      BY <2>1 DEF FactsOK, ServerFacts
    <3>2. sess[d].state = "ESTABLISHED" /\ Committed(s, M2Of(d, s))
      BY <3>1 DEF ClientKeyed, ServerKeyed, Revealed
    <3>3. sess[s].commitC = Commit(Tef(d), Sid(s))
      BY <3>2, FieldsOf DEF Committed
    <3>4. Commit(Tef(c), Sid(s)) = Commit(Tef(d), Sid(s))
      BY <2>4, <3>3
    <3>5. c = d
      BY <3>4, CommitInjective
    <3> QED  BY <3>2, <3>5
  <2>6. sess[s].ss = SharedSecret(c, Pk(s))
    BY <2>3, <2>5, SsAgreed DEF Committed
  <2> QED  BY <2>3, <2>4, <2>6
<1> QED  BY <1>1, AgreementInvariance, PTL

\* A server that opened a TEFC, and so derives a key and reveals TEFS, has
\* its CommitS accepted by the client of that TEFC, for every set of sessions
\* (session.py 110-127).
THEOREM ServerCommitBeforeReveal == Spec => []ServerRevealsToCommitted
<1>1. ASSUME AgreementInv
      PROVE  ServerRevealsToCommitted
  <2> SUFFICES ASSUME NEW s \in Servers, sess[s].key # None
               PROVE  \E c \in Clients : /\ sess[s].key[3][2] = Tef(c)
                                         /\ sess[c].commitS = sess[s].commitS
                                         /\ sess[c].commitC = sess[s].commitC
    BY DEF ServerRevealsToCommitted
  <2>1. PICK c \in Clients : ServerKeyed(s, c)
    BY <1>1 DEF AgreementInv, FactsOK, ServerFacts
  <2>2. /\ sess[s].key[3][2] = Tef(c)
        /\ Revealed(c, s, AgreedM3(s, c)) /\ Committed(s, M2Of(c, s))
    BY <2>1, KeyInjective DEF ServerKeyed, Revealed
  <2>3. sess[c].commitS = sess[s].commitS /\ sess[c].commitC = sess[s].commitC
    BY <2>2, FieldsOf DEF Revealed, Committed
  <2> QED  BY <2>2, <2>3
<1> QED  BY <1>1, AgreementInvariance, PTL

\* A client that holds a session key shares it and the transcript with a
\* server session, for every set of sessions (session.py 183-199).
THEOREM ClientConfirmed == Spec => []ClientKeyConfirmed
<1>1. AgreementInv => ClientKeyConfirmed
  BY DEF AgreementInv, FactsOK, ClientFacts, ClientKeyed, ServerKeyed, ClientKeyConfirmed
<1> QED  BY <1>1, AgreementInvariance, PTL

\* A client that holds a session key shares it with a server session that has
\* the long-term key the client was built with.
ClientAuthenticates ==
  \A c \in Clients : sess[c].key # None =>
    \E s \in Servers : ServerKey[s] = ServerKey[c] /\ sess[s].key = sess[c].key

\* No session of a server with another signing key ever ends up with a client's
\* key, for every set of sessions and keys (m1.py 22-32, session.py 137-199).
THEOREM ServerAuthenticated == Spec => []ClientAuthenticates
<1>1. AgreementInv /\ Trusting => ClientAuthenticates
  BY KeyedAndTrusted DEF AgreementInv, FactsOK, ClientFacts, ClientKeyed, ServerKeyed,
     ClientAuthenticates
<1> QED  BY <1>1, AgreementInvariance, Introductions, PTL

\* A server that process_m6 let through shares its key and transcript with a
\* client that had established its side (session.py 129-135).
THEOREM ServerConfirmed == Spec => []ServerEstablishedMatched
<1>1. AgreementInv => ServerEstablishedMatched
  BY DEF AgreementInv, FactsOK, ServerFacts, ClientKeyed, ServerKeyed, ServerEstablishedMatched
<1> QED  BY <1>1, AgreementInvariance, PTL

\* A key belongs to one server session and one client session.
KeysUnshared ==
  \A d, e \in Endpoints : d # e /\ sess[d].key # None /\ sess[e].key = sess[d].key =>
    (d \in Servers <=> e \in Clients)

\* No two servers and no two clients hold the same key, however the messages of
\* their handshakes were mixed, for every set of sessions (session.py 110-199).
THEOREM KeysBelongToPairs == Spec => []KeysUnshared
<1>1. ASSUME AgreementInv
      PROVE  KeysUnshared
  <2>1. /\ \A s \in Servers : sess[s].key # None =>
             \E c \in Clients : sess[s].key = SessionKeyOf(s, c)
        /\ \A c \in Clients : sess[c].key # None =>
             \E s \in Servers : sess[c].key = SessionKeyOf(s, c)
    BY <1>1 DEF AgreementInv, FactsOK, ServerFacts, ClientFacts, ServerKeyed, ClientKeyed
  <2>2. \A d, e \in Servers : sess[d].key # None /\ sess[e].key = sess[d].key => d = e
    BY <2>1, KeyInjective
  <2>3. \A d, e \in Clients : sess[d].key # None /\ sess[e].key = sess[d].key => d = e
    BY <2>1, KeyInjective
  <2> QED  BY <2>2, <2>3, RolesAssumption DEF KeysUnshared, Endpoints
<1> QED  BY <1>1, AgreementInvariance, PTL

-----------------------------------------------------------------------------
(* The refinement of KeyAgreement. *)

\* What the mapping shows of a session, before and after a step.
LEMMA BarValues ==
  /\ keyBar = [e \in Endpoints |-> keyBar[e]]
  /\ statusBar = [e \in Endpoints |-> statusBar[e]]
  /\ keyBar' = [e \in Endpoints |-> keyBar'[e]]
  /\ statusBar' = [e \in Endpoints |-> statusBar'[e]]
  /\ \A e \in Endpoints :
       /\ keyBar[e] = sess[e].key
       /\ exc[e] # Ok => statusBar[e] = "aborted"
       /\ exc[e] = Ok => statusBar[e]
                           = IF sess[e].state = "ESTABLISHED" THEN "established" ELSE "open"
       /\ keyBar'[e] = sess'[e].key
       /\ exc'[e] # Ok => statusBar'[e] = "aborted"
       /\ exc'[e] = Ok => statusBar'[e]
                            = IF sess'[e].state = "ESTABLISHED" THEN "established" ELSE "open"
BY DEF keyBar, statusBar, Ok

\* A step shows only at the session that is called.
LEMMA BarStep ==
  ASSUME NEW e \in Endpoints,
         \A d \in Endpoints \ {e} : sess'[d] = sess[d] /\ exc'[d] = exc[d]
  PROVE  /\ keyBar' = [keyBar EXCEPT ![e] = keyBar'[e]]
         /\ statusBar' = [statusBar EXCEPT ![e] = statusBar'[e]]
         /\ keyBar'[e] = keyBar[e] => keyBar' = keyBar
         /\ statusBar'[e] = statusBar[e] => statusBar' = statusBar
<1>1. \A d \in Endpoints \ {e} : keyBar'[d] = keyBar[d] /\ statusBar'[d] = statusBar[d]
  BY BarValues
<1> QED  BY <1>1, BarValues

\* A call that raises gives the handshake up, if it was not given up before.
LEMMA FailingAborts ==
  ASSUME NEW e \in Endpoints, Kept(e), Failing(e)
  PROVE  [Agreement!Next]_(Agreement!vars)
<1>1. sess[e].state # "ESTABLISHED"
  BY DEF Kept, EntryStates
<1>2. keyBar' = keyBar /\ statusBar'[e] = "aborted"
  BY BarValues, BarStep DEF Kept, Failing
<1>3. CASE exc[e] = Ok
  <2>1. statusBar[e] = "open"
    BY <1>1, <1>3, BarValues
  <2>2. statusBar' = [statusBar EXCEPT ![e] = "aborted"]
    BY <1>2, BarStep DEF Kept
  <2>3. Agreement!Abort(e)
    BY <1>2, <2>1, <2>2 DEF Agreement!Abort
  <2> QED  BY <2>3 DEF Agreement!Next, Agreement!Parties, Endpoints
<1>4. CASE exc[e] # Ok
  <2>1. statusBar[e] = "aborted"
    BY <1>4, BarValues
  <2>2. statusBar' = statusBar
    BY <1>2, <2>1, BarStep DEF Kept
  <2> QED  BY <1>2, <2>2 DEF Agreement!vars
<1> QED  BY <1>3, <1>4

\* A call that only exchanges messages does not show.
LEMMA ExchangeStutters ==
  ASSUME NEW e \in Endpoints, Kept(e), exc' = exc,
         sess'[e].key = sess[e].key, sess'[e].state # "ESTABLISHED"
  PROVE  [Agreement!Next]_(Agreement!vars)
<1>1. sess[e].state # "ESTABLISHED"
  BY DEF Kept, EntryStates
<1>2. keyBar'[e] = keyBar[e] /\ statusBar'[e] = statusBar[e]
  <2>1. CASE exc[e] = Ok
    BY <1>1, <2>1, BarValues
  <2>2. CASE exc[e] # Ok
    BY <2>2, BarValues
  <2> QED  BY <2>1, <2>2
<1>3. keyBar' = keyBar /\ statusBar' = statusBar
  BY <1>2, BarStep DEF Kept
<1> QED  BY <1>3 DEF Agreement!vars

\* process_m4 that returns is Derive: the server makes the key of its client.
LEMMA ProcessM4Derives ==
  ASSUME AgreementInv, AgreementInv', NEW e \in Endpoints, NEW m \in Inbound("M4"),
         ProcessM4(e, m)
  PROVE  [Agreement!Next]_(Agreement!vars)
<1>1. m \in M4s /\ FactsOK /\ FactsOK'
  BY InboundType DEF AgreementInv, IndInv, TypeOK
<1>2. Kept(e)
  BY <1>1, ProcessM4Outcome
<1>3. CASE Failing(e)
  BY <1>2, <1>3, FailingAborts
<1>4. CASE ~Failing(e)
  <2>1. /\ e \in Servers /\ exc' = exc /\ exc[e] = Ok
        /\ sess[e].state = "M3_CREATED" /\ sess'[e].state = "M5_CREATED"
    BY <1>1, <1>4, ProcessM4Outcome
  <2>2. sess[e].key = None
    BY <1>1, <2>1 DEF FactsOK, ServerFacts, Committed
  <2>3. PICK c \in Clients : sess'[e].key = SessionKeyOf(e, c)
    BY <1>1, <2>1 DEF FactsOK, ServerFacts, ServerKeyed
  <2>4. keyBar[e] = None /\ statusBar[e] = "open" /\ statusBar'[e] = "open"
        /\ keyBar'[e] = SessionKeyOf(e, c)
    BY <2>1, <2>2, <2>3, BarValues
  <2>5. /\ keyBar' = [keyBar EXCEPT ![e] = SessionKeyOf(e, c)]
        /\ statusBar' = statusBar
    BY <1>2, <2>4, BarStep DEF Kept
  <2>6. Agreement!Derive(e)
    BY <2>4, <2>5 DEF Agreement!Derive
  <2> QED  BY <2>1, <2>6 DEF Agreement!Next
<1> QED  BY <1>3, <1>4

\* process_m5 that returns is Confirm: the client takes the server's key.
LEMMA ProcessM5Confirms ==
  ASSUME AgreementInv, AgreementInv', NEW e \in Endpoints, NEW m \in Inbound("M5"),
         ProcessM5(e, m)
  PROVE  [Agreement!Next]_(Agreement!vars)
<1>1. m \in M5s /\ FactsOK /\ FactsOK'
  BY InboundType DEF AgreementInv, IndInv, TypeOK
<1>2. Kept(e)
  BY <1>1, ProcessM5Outcome
<1>3. CASE Failing(e)
  BY <1>2, <1>3, FailingAborts
<1>4. CASE ~Failing(e)
  <2>1. /\ e \in Clients /\ exc' = exc /\ exc[e] = Ok
        /\ sess[e].state = "M4_CREATED" /\ sess'[e].state = "ESTABLISHED"
    BY <1>1, <1>4, ProcessM5Outcome
  <2>2. PICK s \in Servers : ClientKeyed(e, s)'
    BY <1>1, <2>1 DEF FactsOK, ClientFacts
  <2>3. sess'[e].key = SessionKeyOf(s, e) /\ sess'[s].key = SessionKeyOf(s, e)
    BY <2>2 DEF ClientKeyed, ServerKeyed
  <2>4. s # e /\ sess[s].key = SessionKeyOf(s, e)
    BY <1>2, <2>1, <2>3, RolesAssumption DEF Kept, Endpoints
  <2>5. /\ statusBar[e] = "open" /\ statusBar'[e] = "established"
        /\ keyBar[s] = SessionKeyOf(s, e) /\ keyBar'[e] = keyBar[s]
    BY <2>1, <2>3, <2>4, BarValues DEF Endpoints
  <2>6. /\ keyBar' = [keyBar EXCEPT ![e] = keyBar[s]]
        /\ statusBar' = [statusBar EXCEPT ![e] = "established"]
    BY <1>2, <2>5, BarStep DEF Kept
  <2>7. Agreement!Confirm(e)
    BY <2>5, <2>6 DEF Agreement!Confirm
  <2> QED  BY <2>1, <2>7 DEF Agreement!Next
<1> QED  BY <1>3, <1>4

\* process_m6 that does not raise is Accept.
LEMMA ProcessM6Accepts ==
  ASSUME AgreementInv, AgreementInv', NEW e \in Endpoints, NEW m \in Inbound("M6"),
         ProcessM6(e, m)
  PROVE  [Agreement!Next]_(Agreement!vars)
<1>1. m \in M6s /\ FactsOK /\ FactsOK'
  BY InboundType DEF AgreementInv, IndInv, TypeOK
<1>2. Kept(e)
  BY <1>1, ProcessM6Outcome
<1>3. CASE Failing(e)
  BY <1>2, <1>3, FailingAborts
<1>4. CASE ~Failing(e)
  <2>1. /\ e \in Servers /\ exc' = exc /\ exc[e] = Ok /\ sess[e].state = "M5_CREATED"
        /\ sess'[e].state = "ESTABLISHED" /\ sess'[e].key = sess[e].key
    BY <1>1, <1>4, ProcessM6Outcome
  <2>2. PICK c \in Clients : ClientKeyed(c, e)'
    BY <1>1, <2>1 DEF FactsOK, ServerFacts
  <2>3. /\ sess'[e].key = SessionKeyOf(e, c) /\ sess'[c].key = SessionKeyOf(e, c)
        /\ sess'[c].state = "ESTABLISHED" /\ exc'[c] = Ok
    BY <2>2 DEF ClientKeyed, ServerKeyed
  <2>4. c # e /\ sess[c] = sess'[c] /\ exc[c] = Ok
    BY <1>2, <2>1, <2>3, RolesAssumption DEF Kept, Endpoints
  <2>5. /\ statusBar[e] = "open" /\ statusBar'[e] = "established"
        /\ keyBar[e] = SessionKeyOf(e, c) /\ keyBar'[e] = keyBar[e]
        /\ keyBar[c] = keyBar[e] /\ statusBar[c] = "established"
    BY <2>1, <2>3, <2>4, BarValues, ZenonT(40) DEF Endpoints
  <2>6. keyBar' = keyBar /\ statusBar' = [statusBar EXCEPT ![e] = "established"]
    BY <1>2, <2>5, BarStep DEF Kept
  <2>7. Agreement!Accept(e)
    BY <2>5, <2>6 DEF Agreement!Accept
  <2> QED  BY <2>1, <2>7 DEF Agreement!Next
<1> QED  BY <1>3, <1>4

\* Every call is a step of KeyAgreement or none.
LEMMA NextRefines ==
  ASSUME AgreementInv, AgreementInv', [Next]_vars
  PROVE  [Agreement!Next]_(Agreement!vars)
<1>1. IndInv /\ wire \subseteq Messages
  BY DEF AgreementInv, IndInv, TypeOK
<1>2. CASE sess' = sess /\ exc' = exc
  BY <1>2 DEF Agreement!vars, keyBar, statusBar
<1>3. CASE Next
  <2>1. PICK e \in Endpoints :
          \/ CreateM1(e)
          \/ \E m \in Inbound("M1") : ProcessM1(e, m)
          \/ \E m \in Inbound("M2") : ProcessM2(e, m)
          \/ \E m \in Inbound("M3") : ProcessM3(e, m)
          \/ \E m \in Inbound("M4") : ProcessM4(e, m)
          \/ \E m \in Inbound("M5") : ProcessM5(e, m)
          \/ \E m \in Inbound("M6") : ProcessM6(e, m)
          \/ OutOfSequence(e)
    BY <1>3 DEF Next
  <2>2. CASE CreateM1(e)
    BY <1>1, <2>2, CreateM1Outcome, FailingAborts, ExchangeStutters
  <2>3. ASSUME NEW m \in Inbound("M1"), ProcessM1(e, m)
        PROVE  [Agreement!Next]_(Agreement!vars)
    <3>1. m \in M1s
      BY <1>1, InboundType
    <3> QED  BY <1>1, <2>3, <3>1, ProcessM1Outcome, FailingAborts, ExchangeStutters
  <2>4. ASSUME NEW m \in Inbound("M2"), ProcessM2(e, m)
        PROVE  [Agreement!Next]_(Agreement!vars)
    <3>1. m \in M2s
      BY <1>1, InboundType
    <3> QED  BY <2>4, <3>1, ProcessM2Outcome, FailingAborts, ExchangeStutters
  <2>5. ASSUME NEW m \in Inbound("M3"), ProcessM3(e, m)
        PROVE  [Agreement!Next]_(Agreement!vars)
    <3>1. m \in M3s
      BY <1>1, InboundType
    <3> QED  BY <2>5, <3>1, ProcessM3Outcome, FailingAborts, ExchangeStutters
  <2>6. CASE \E m \in Inbound("M4") : ProcessM4(e, m)
    BY <2>6, ProcessM4Derives
  <2>7. CASE \E m \in Inbound("M5") : ProcessM5(e, m)
    BY <2>7, ProcessM5Confirms
  <2>8. CASE \E m \in Inbound("M6") : ProcessM6(e, m)
    BY <2>8, ProcessM6Accepts
  <2>9. CASE OutOfSequence(e)
    BY <1>2, <2>9 DEF OutOfSequence
  <2> QED  BY <2>1, <2>2, <2>3, <2>4, <2>5, <2>6, <2>7, <2>8, <2>9
<1> QED  BY <1>2, <1>3 DEF vars

\* The sessions implement KeyAgreement for every set of sessions, whatever
\* their callers do with the messages (session.py 75-199).
THEOREM Refinement == Spec => AgreementSpec
<1>1. Init => Agreement!Init
  BY DEF Init, Agreement!Init, Agreement!Parties, keyBar, statusBar, NewSession, Endpoints, Ok
<1>2. AgreementInv /\ AgreementInv' /\ [Next]_vars => [Agreement!Next]_(Agreement!vars)
  BY NextRefines
<1> QED  BY <1>1, <1>2, AgreementInvariance, PTL DEF Spec, AgreementSpec, Agreement!Spec
=============================================================================
