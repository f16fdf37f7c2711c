-------------------------- MODULE Compliance_proofs --------------------------
(***************************************************************************)
(* What the law asks of the program.  For any people, papers, clerks,      *)
(* requests and bounds: what is erased stays erased but for what is        *)
(* written back or anew, and points are never owed and agree with their    *)
(* entries where no old balance was written.  For any packs, rules,        *)
(* approvals, forms and questions: a deadline follows from rules a human   *)
(* approved, and one version of a regulation governs.                      *)
(***************************************************************************)
EXTENDS Customers, RulePacks, FiniteSetTheorems, WellFoundedInduction, TLAPS

(* Customers: erasure and loyalty points.                                  *)
\* What is written about customers, and what is booked to their accounts.
AboutOK ==
  /\ row \in [People -> [state : RowState, person : BOOLEAN]]
  /\ \A c \in People : row[c].state = "live" => row[c].person
  /\ paper \in [Papers -> People \cup {Nobody}]
  /\ consent \in [People -> {"none", "given", "withdrawn"}]
  /\ noted \in SUBSET People
  /\ renewed \in SUBSET (People \X Facets)
  /\ ErasedStaysErased
PointsOK ==
  /\ account \in [People -> [balance : Int, entries : Int]]
  /\ skewed \in SUBSET People
  /\ NeverOwed /\ BalanceIsEntries

\* A request that names nobody was neither approved nor carried out.
RequestsNameSomebody ==
  \A r \in Requests : request[r].of = Nobody =>
    ~request[r].approved /\ request[r].status = "received"

\* A handler holds requests that name somebody, and balances that are not owed.
CopiesSound ==
  \A k \in Clerks :
    /\ Holds(k, "request") => request[desk[k].of].of # Nobody
    /\ Holds(k, "account") => desk[k].balance >= 0

Inv == /\ TypeOK /\ RequestsNameSomebody /\ CopiesSound
       /\ ErasedStaysErased /\ NeverOwed /\ BalanceIsEntries

LEMMA DeskIs ==
  ASSUME TypeOK, NEW k \in Clerks
  PROVE  /\ Holds(k, "row") \/ Holds(k, "consent") \/ Holds(k, "note") => desk[k].of \in People
         /\ Holds(k, "paper") => desk[k].of \in Papers /\ desk[k].names \in People \cup {Nobody}
         /\ Holds(k, "account") => desk[k].of \in People /\ desk[k].balance \in Int
         /\ Holds(k, "request") => desk[k].of \in Requests
BY DEF TypeOK, Desk, Holds

LEMMA PointsUntouched ==
  ASSUME UNCHANGED pointsVars
  PROVE  (NeverOwed => NeverOwed') /\ (BalanceIsEntries => BalanceIsEntries')
BY DEF pointsVars, NeverOwed, BalanceIsEntries

LEMMA FileUntouched ==
  ASSUME UNCHANGED fileVars
  PROVE  /\ ErasedStaysErased => ErasedStaysErased'
         /\ RequestsNameSomebody => RequestsNameSomebody'
BY DEF fileVars, ErasedStaysErased, Erased, RequestsNameSomebody

\* A desk that is left, or not touched, keeps the copies sound while requests
\* keep the person they name.
LEMMA DesksLeft ==
  ASSUME TypeOK, CopiesSound,
         UNCHANGED desk \/ \E k \in Clerks : Leave(k),
         \A r \in Requests : request[r].of # Nobody => request'[r].of # Nobody
  PROVE  CopiesSound' /\ desk' \in [Clerks -> Desk]
<1>1. CASE UNCHANGED desk
  BY <1>1, DeskIs DEF CopiesSound, Holds, TypeOK
<1>2. ASSUME NEW k \in Clerks, Leave(k) PROVE CopiesSound' /\ desk' \in [Clerks -> Desk]
  <2>1. desk' = [desk EXCEPT ![k] = Nothing] /\ Nothing \in Desk
    BY <1>2 DEF Leave, Nothing, Desk
  <2>2. desk' \in [Clerks -> Desk]
    BY <2>1 DEF TypeOK
  <2>3. \A x \in Clerks : x = k \/ desk'[x] = desk[x]
    BY <2>1 DEF TypeOK
  <2>4. desk'[k].holds = "nothing"
    BY <2>1 DEF TypeOK, Nothing
  <2> QED BY <2>2, <2>3, <2>4, DeskIs DEF CopiesSound, Holds
<1> QED BY <1>1, <1>2

LEMMA RenewType ==
  ASSUME TypeOK, NEW c \in People \cup {Nobody}, NEW f \in Facets, Renew(c, f)
  PROVE  renewed' \in SUBSET (People \X Facets) /\ renewed \subseteq renewed'
BY DEF TypeOK, Renew
-----------------------------------------------------------------------------
LEMMA InitInv == Init => Inv
<1> SUFFICES ASSUME Init PROVE Inv
  OBVIOUS
<1>1. TypeOK
  BY DEF Init, TypeOK, RowState, Desk, Nothing
<1>2. RequestsNameSomebody /\ CopiesSound
  BY DEF Init, RequestsNameSomebody, CopiesSound, Holds, Nothing
<1>3. ErasedStaysErased /\ NeverOwed /\ BalanceIsEntries
  BY DEF Init, ErasedStaysErased, Erased, NeverOwed, BalanceIsEntries
<1> QED BY <1>1, <1>2, <1>3 DEF Inv

LEMMA ReadStep ==
  ASSUME Inv, NEW k \in Clerks, Read(k)
  PROVE  Inv'
<1>1. PICK copy : /\ desk' = [desk EXCEPT ![k] = copy]
                  /\ copy \in Desk
                  /\ copy.holds = "account" => copy.balance >= 0
                  /\ copy.holds = "request" => request[copy.of].of # Nobody
  <2>1. PICK copy :
           /\ desk' = [desk EXCEPT ![k] = copy]
           /\ \/ \E c \in People : copy = [holds |-> "row", of |-> c]
              \/ \E c \in People : copy = [holds |-> "consent", of |-> c]
              \/ \E c \in noted : copy = [holds |-> "note", of |-> c]
              \/ \E d \in Papers : copy = [holds |-> "paper", of |-> d, names |-> paper[d]]
              \/ \E c \in People : copy = [holds |-> "account", of |-> c, balance |-> account[c].balance]
              \/ \E r \in Requests : copy = [holds |-> "request", of |-> r] /\ request[r].approved
    BY ZenonT(30) DEF Read
  <2>2. copy \in Desk
    BY <2>1 DEF Desk, Inv, TypeOK
  <2>3. copy.holds = "account" => copy.balance >= 0
    BY <2>1 DEF Inv, NeverOwed
  <2>4. copy.holds = "request" => request[copy.of].of # Nobody
    BY <2>1 DEF Inv, RequestsNameSomebody
  <2> QED BY <2>1, <2>2, <2>3, <2>4
<1>2. UNCHANGED <<fileVars, pointsVars>>
  BY DEF Read
<1>3. desk' \in [Clerks -> Desk]
  BY <1>1 DEF Inv, TypeOK
<1>4. TypeOK'
  BY <1>2, <1>3 DEF Inv, TypeOK, fileVars, pointsVars
<1>5. CopiesSound'
  BY <1>1, <1>2 DEF Inv, TypeOK, CopiesSound, Holds, fileVars
<1> QED BY <1>2, <1>4, <1>5, PointsUntouched, FileUntouched DEF Inv

\* Steps that write a row, a paper, a consent or a note.
LEMMA WriteStep ==
  ASSUME Inv, CustomersAssumption,
         \/ \E k \in Clerks :
              \/ SaveRow(k) \/ SaveNote(k)
              \/ \E c \in People : Name(k, c)
              \/ \E d \in Papers : SavePaper(k, d)
              \/ \E to \in {"given", "withdrawn"} : SaveConsent(k, to)
         \/ \E c \in People : GiveConsent(c) \/ AddNote(c)
  PROVE  Inv'
<1>1. UNCHANGED <<request, pointsVars>> /\ (UNCHANGED desk \/ \E k \in Clerks : Leave(k))
  BY DEF SaveRow, SaveNote, Name, SavePaper, SaveConsent, GiveConsent, AddNote, pointsVars
<1>2. CopiesSound' /\ desk' \in [Clerks -> Desk] /\ RequestsNameSomebody'
  BY <1>1, DesksLeft DEF Inv, RequestsNameSomebody
<1>3. NeverOwed' /\ BalanceIsEntries'
  BY <1>1, PointsUntouched DEF Inv
<1>4. AboutOK'
  <2>1. ASSUME NEW k \in Clerks, SaveRow(k) PROVE AboutOK'
    <3>1. desk[k].of \in People BY <2>1, DeskIs DEF SaveRow, Inv
    <3>2. renewed' \in SUBSET (People \X Facets)
      BY <2>1, <3>1, RenewType DEF SaveRow, Inv, Facets
    <3>3. ErasedStaysErased'
      BY <2>1, <3>1, CustomersAssumption
         DEF SaveRow, Renew, Erased, ErasedStaysErased, Inv, TypeOK, CustomersAssumption
    <3> QED BY <2>1, <3>1, <3>2, <3>3 DEF AboutOK, SaveRow, Inv, TypeOK, RowState
  <2>2. ASSUME NEW k \in Clerks, SaveNote(k) PROVE AboutOK'
    <3>1. desk[k].of \in People BY <2>2, DeskIs DEF SaveNote, Inv
    <3>2. renewed' \in SUBSET (People \X Facets)
      BY <2>2, <3>1, RenewType DEF SaveNote, Inv, Facets, TypeOK
    <3>3. ErasedStaysErased'
      BY <2>2, <3>1, CustomersAssumption
         DEF SaveNote, Renew, Erased, ErasedStaysErased, Inv, TypeOK, CustomersAssumption
    <3> QED BY <2>2, <3>1, <3>2, <3>3 DEF AboutOK, SaveNote, Inv, TypeOK
  <2>3. ASSUME NEW k \in Clerks, NEW c \in People, Name(k, c) PROVE AboutOK'
    <3>1. desk[k].of \in Papers BY <2>3, DeskIs DEF Name, Inv
    <3>2. renewed' \in SUBSET (People \X Facets)
      BY <2>3, RenewType DEF Name, Inv, Facets
    <3>3. ErasedStaysErased'
      BY <2>3, <3>1, CustomersAssumption
         DEF Name, Renew, Erased, ErasedStaysErased, Inv, TypeOK, CustomersAssumption
    <3> QED BY <2>3, <3>1, <3>2, <3>3 DEF AboutOK, Name, Inv, TypeOK
  <2>4. ASSUME NEW k \in Clerks, NEW d \in Papers, SavePaper(k, d) PROVE AboutOK'
    <3>1. desk[k].names \in People \cup {Nobody} BY <2>4, DeskIs DEF SavePaper, Inv
    <3>2. renewed' \in SUBSET (People \X Facets)
      BY <2>4, <3>1, RenewType DEF SavePaper, Inv, Facets, TypeOK
    <3>3. ErasedStaysErased'
      <4> SUFFICES ASSUME NEW c \in People, Erased(c)'
                   PROVE  /\ row'[c].person => <<c, "row">> \in renewed'
                          /\ (\E x \in Papers : paper'[x] = c) => <<c, "paper">> \in renewed'
                          /\ consent'[c] = "given" => <<c, "consent">> \in renewed'
                          /\ c \in noted' => <<c, "note">> \in renewed'
        BY DEF ErasedStaysErased
      <4>1. Erased(c) /\ renewed \subseteq renewed' /\ UNCHANGED <<row, consent, noted>>
        BY <2>4 DEF SavePaper, Erased, Renew
      <4>2. ASSUME NEW x \in Papers, paper'[x] = c PROVE <<c, "paper">> \in renewed'
        <5>1. CASE paper[x] = c
          BY <4>1, <5>1 DEF Inv, ErasedStaysErased
        <5>2. CASE paper[x] # c
          <6>1. x = d /\ c = desk[k].names /\ c # paper[d]
            BY <2>4, <4>2, <5>2 DEF SavePaper, Inv, TypeOK
          <6> QED BY <2>4, <4>1, <6>1, CustomersAssumption
                  DEF SavePaper, Renew, CustomersAssumption
        <5> QED BY <5>1, <5>2
      <4> QED BY <4>1, <4>2 DEF Inv, ErasedStaysErased
    <3> QED BY <2>4, <3>1, <3>2, <3>3 DEF AboutOK, SavePaper, Inv, TypeOK
  <2>5. ASSUME NEW k \in Clerks, NEW to \in {"given", "withdrawn"}, SaveConsent(k, to)
        PROVE AboutOK'
    <3>1. desk[k].of \in People BY <2>5, DeskIs DEF SaveConsent, Inv
    <3>2. renewed' \in SUBSET (People \X Facets)
      BY <2>5, <3>1, RenewType DEF SaveConsent, Inv, Facets, TypeOK
    <3>3. ErasedStaysErased'
      BY <2>5, <3>1, CustomersAssumption
         DEF SaveConsent, Renew, Erased, ErasedStaysErased, Inv, TypeOK, CustomersAssumption
    <3> QED BY <2>5, <3>1, <3>2, <3>3 DEF AboutOK, SaveConsent, Inv, TypeOK
  <2>6. ASSUME NEW c \in People, GiveConsent(c) \/ AddNote(c) PROVE AboutOK'
    <3>1. renewed' \in SUBSET (People \X Facets)
      BY <2>6, RenewType DEF GiveConsent, AddNote, Inv, Facets
    <3>2. CASE GiveConsent(c)
      <4>1. ErasedStaysErased'
        BY <3>2, CustomersAssumption
           DEF GiveConsent, Renew, Erased, ErasedStaysErased, Inv, TypeOK, CustomersAssumption
      <4> QED BY <3>1, <3>2, <4>1 DEF AboutOK, GiveConsent, Inv, TypeOK
    <3>3. CASE AddNote(c)
      <4>1. ErasedStaysErased'
        BY <3>3, CustomersAssumption
           DEF AddNote, Renew, Erased, ErasedStaysErased, Inv, TypeOK, CustomersAssumption
      <4> QED BY <3>1, <3>3, <4>1 DEF AboutOK, AddNote, Inv, TypeOK
    <3> QED BY <2>6, <3>2, <3>3
  <2> QED BY <2>1, <2>2, <2>3, <2>4, <2>5, <2>6
<1>5. TypeOK'
  BY <1>1, <1>2, <1>4 DEF Inv, TypeOK, AboutOK, pointsVars
<1> QED BY <1>2, <1>3, <1>4, <1>5 DEF Inv, AboutOK

\* Steps of an erasure.
LEMMA ErasureStep ==
  ASSUME Inv, CustomersAssumption,
         \/ \E k \in Clerks : Anonymize(k) \/ \E r \in Requests : RequestErasure(k, r)
         \/ \E r \in Requests : Approve(r)
  PROVE  Inv'
<1>1. ASSUME NEW k \in Clerks, Anonymize(k) PROVE Inv'
  <2> DEFINE q == desk[k].of
             c == request[q].of
  <2>1. q \in Requests /\ c \in People
    BY <1>1, DeskIs DEF Anonymize, Inv, TypeOK, CopiesSound
  <2>2. /\ row' = [row EXCEPT ![c] = [state |-> "archived", person |-> FALSE]]
        /\ paper' = [d \in Papers |-> IF paper[d] = c THEN Nobody ELSE paper[d]]
        /\ consent' = [consent EXCEPT ![c] = IF consent[c] = "none" THEN consent[c] ELSE "withdrawn"]
        /\ noted' = noted \ {c}
        /\ request' = [request EXCEPT ![q] = [request[q] EXCEPT !.status = "completed"]]
        /\ UNCHANGED <<renewed, pointsVars>> /\ Leave(k)
    BY <1>1 DEF Anonymize
  <2>3. c # Nobody BY <2>1, CustomersAssumption DEF CustomersAssumption
  <2> HIDE DEF c, q
  <2>4. /\ request' \in [Requests -> [of : People \cup {Nobody}, approved : BOOLEAN,
                                      status : {"received", "completed"}]]
        /\ \A r \in Requests : request'[r].of = request[r].of /\ request'[r].approved = request[r].approved
        /\ \A r \in Requests : r # q => request'[r] = request[r]
    BY <2>1, <2>2 DEF Inv, TypeOK
  <2>5. CopiesSound' /\ desk' \in [Clerks -> Desk]
    BY <2>2, <2>4, DesksLeft DEF Inv
  <2>6. TypeOK'
    <3>1. /\ row' \in [People -> [state : RowState, person : BOOLEAN]]
          /\ \A x \in People : row'[x].state = "live" => row'[x].person
      BY <2>1, <2>2 DEF Inv, TypeOK, RowState
    <3>2. /\ paper' \in [Papers -> People \cup {Nobody}]
          /\ consent' \in [People -> {"none", "given", "withdrawn"}]
      BY <2>1, <2>2 DEF Inv, TypeOK
    <3> QED BY <2>2, <2>4, <2>5, <3>1, <3>2 DEF Inv, TypeOK, pointsVars
  <2>7. RequestsNameSomebody'
    BY <2>1, <2>3, <2>4 DEF Inv, RequestsNameSomebody, c
  <2>8. ErasedStaysErased'
    <3> SUFFICES ASSUME NEW x \in People, Erased(x)'
                 PROVE  /\ row'[x].person => <<x, "row">> \in renewed'
                        /\ (\E d \in Papers : paper'[d] = x) => <<x, "paper">> \in renewed'
                        /\ consent'[x] = "given" => <<x, "consent">> \in renewed'
                        /\ x \in noted' => <<x, "note">> \in renewed'
      BY DEF ErasedStaysErased
    <3>1. CASE x = c
      <4>1. ~row'[x].person /\ consent'[x] # "given" /\ x \notin noted'
        BY <2>1, <2>2, <3>1 DEF Inv, TypeOK
      <4>2. \A d \in Papers : paper'[d] # x
        BY <2>2, <2>3, <3>1
      <4> QED BY <4>1, <4>2
    <3>2. CASE x # c
      <4>1. Erased(x)
        BY <2>1, <2>4, <3>2 DEF Erased, c
      <4>2. row'[x] = row[x] /\ consent'[x] = consent[x] /\ (x \in noted' => x \in noted)
        BY <2>1, <2>2, <3>2 DEF Inv, TypeOK
      <4>3. \A d \in Papers : paper'[d] = x => paper[d] = x
        BY <2>2, <3>2, CustomersAssumption DEF CustomersAssumption
      <4> QED BY <2>2, <4>1, <4>2, <4>3 DEF Inv, ErasedStaysErased
    <3> QED BY <3>1, <3>2
  <2> QED BY <2>2, <2>5, <2>6, <2>7, <2>8, PointsUntouched DEF Inv
<1>2. ASSUME NEW r \in Requests, Approve(r) \/ \E k \in Clerks : RequestErasure(k, r)
      PROVE  Inv'
  <2> DEFINE RequestsKept ==
        /\ request' \in [Requests -> [of : People \cup {Nobody}, approved : BOOLEAN,
                                      status : {"received", "completed"}]]
        /\ \A x \in Requests : request[x].of # Nobody => request'[x].of = request[x].of
        /\ \A x \in Requests : request'[x].status = request[x].status
        /\ RequestsNameSomebody'
  <2>1. RequestsKept
    <3>1. CASE Approve(r)
      <4>1. /\ request' = [request EXCEPT ![r] = [request[r] EXCEPT !.approved = TRUE]]
            /\ request[r].of # Nobody
        BY <3>1 DEF Approve
      <4> QED BY <4>1 DEF Inv, TypeOK, RequestsNameSomebody
    <3>2. ASSUME NEW k \in Clerks, RequestErasure(k, r) PROVE RequestsKept
      <4>1. desk[k].of \in People /\ desk[k].of # Nobody /\ request[r].of = Nobody
        BY <3>2, DeskIs, CustomersAssumption DEF RequestErasure, Inv, CustomersAssumption
      <4>2. request' = [request EXCEPT ![r] = [request[r] EXCEPT !.of = desk[k].of]]
        BY <3>2 DEF RequestErasure
      <4> QED BY <4>1, <4>2 DEF Inv, TypeOK, RequestsNameSomebody
    <3> QED BY <1>2, <3>1, <3>2
  <2>2. /\ UNCHANGED <<row, paper, consent, noted, renewed, pointsVars>>
        /\ UNCHANGED desk \/ \E k \in Clerks : Leave(k)
    BY <1>2 DEF Approve, RequestErasure
  <2>3. CopiesSound' /\ desk' \in [Clerks -> Desk]
    BY <2>1, <2>2, DesksLeft DEF Inv
  <2>4. TypeOK'
    BY <2>1, <2>2, <2>3 DEF Inv, TypeOK, pointsVars
  <2>5. \A c \in People : Erased(c)' => Erased(c)
    BY <2>1 DEF Erased, Inv, RequestsNameSomebody
  <2>6. ErasedStaysErased'
    BY <2>2, <2>5 DEF Inv, ErasedStaysErased
  <2> QED BY <2>1, <2>2, <2>3, <2>4, <2>6, PointsUntouched DEF Inv
<1> QED BY <1>1, <1>2

\* Steps that move points.
LEMMA PointsStep ==
  ASSUME Inv, CustomersAssumption,
         \/ \E k \in Clerks : SaveAccount(k)
              \/ \E p \in 1 .. MaxPoints : Award(k, p) \/ Redeem(k, p)
         \/ \E c \in People, p \in {-1, 1} : WriteEntry(c, p)
  PROVE  Inv'
<1>1. UNCHANGED fileVars /\ (UNCHANGED desk \/ \E k \in Clerks : Leave(k))
  BY DEF SaveAccount, Award, Redeem, WriteEntry
<1>2. CopiesSound' /\ desk' \in [Clerks -> Desk]
  BY <1>1, DesksLeft DEF Inv, fileVars
<1>3. ErasedStaysErased' /\ RequestsNameSomebody'
  BY <1>1, FileUntouched DEF Inv
<1>4. PointsOK'
  <2>0. 1 .. MaxPoints \subseteq Int
    OBVIOUS
  <2>1. ASSUME NEW c \in People, NEW to \in Int, NEW p \in Int, Move(c, to, p), to >= 0,
               \/ UNCHANGED skewed /\ to = account[c].balance + p
               \/ skewed' = skewed \cup {c}
        PROVE  PointsOK'
    <3>1. account' = [account EXCEPT ![c] = [balance |-> to, entries |-> account[c].entries + p]]
      BY <2>1 DEF Move
    <3>2. account' \in [People -> [balance : Int, entries : Int]]
      BY <3>1 DEF Inv, TypeOK
    <3>3. /\ \A x \in People : x # c => account'[x] = account[x]
          /\ account'[c].balance = to /\ account'[c].entries = account[c].entries + p
      BY <3>1 DEF Inv, TypeOK
    <3>4. NeverOwed'
      BY <2>1, <3>3 DEF Inv, NeverOwed
    <3>5. BalanceIsEntries'
      BY <2>1, <3>3 DEF Inv, TypeOK, BalanceIsEntries
    <3>6. skewed' \in SUBSET People
      BY <2>1 DEF Inv, TypeOK
    <3> QED BY <3>2, <3>4, <3>5, <3>6 DEF PointsOK
  <2>2. ASSUME NEW k \in Clerks, SaveAccount(k) PROVE PointsOK'
    <3>1. desk[k].of \in People /\ desk[k].balance \in Int /\ desk[k].balance >= 0
      BY <2>2, DeskIs DEF SaveAccount, Inv, CopiesSound
    <3>2. Move(desk[k].of, desk[k].balance, 0)
      BY <2>2 DEF SaveAccount
    <3>3. \/ UNCHANGED skewed /\ desk[k].balance = account[desk[k].of].balance + 0
          \/ skewed' = skewed \cup {desk[k].of}
      BY <2>2, <3>1 DEF SaveAccount, Skew, Inv, TypeOK
    <3> QED BY <2>1, <3>1, <3>2, <3>3
  <2>3. ASSUME NEW k \in Clerks, NEW p \in 1 .. MaxPoints, Award(k, p) PROVE PointsOK'
    <3>1. desk[k].names \in People
      BY <2>3, DeskIs DEF Award, Inv
    <3>2. account[desk[k].names].balance \in Int /\ account[desk[k].names].balance >= 0
      BY <3>1 DEF Inv, TypeOK, NeverOwed
    <3>3. Move(desk[k].names, account[desk[k].names].balance + p, p) /\ UNCHANGED skewed
      BY <2>3 DEF Award
    <3>4. account[desk[k].names].balance + p \in Int /\ account[desk[k].names].balance + p >= 0
      BY <3>2
    <3> QED BY <2>0, <2>1, <3>1, <3>3, <3>4
  <2>4. ASSUME NEW k \in Clerks, NEW p \in 1 .. MaxPoints, Redeem(k, p) PROVE PointsOK'
    <3>1. desk[k].of \in People /\ desk[k].balance \in Int
      BY <2>4, DeskIs DEF Redeem, Inv
    <3>2. Move(desk[k].of, desk[k].balance - p, -p) /\ desk[k].balance - p >= 0
      BY <2>4, <3>1 DEF Redeem
    <3>3. \/ UNCHANGED skewed /\ desk[k].balance - p = account[desk[k].of].balance + (-p)
          \/ skewed' = skewed \cup {desk[k].of}
      BY <2>4, <3>1 DEF Redeem, Skew, Inv, TypeOK
    <3>4. desk[k].balance - p \in Int /\ -p \in Int
      BY <3>1
    <3> QED BY <2>1, <3>1, <3>2, <3>3, <3>4
  <2>5. ASSUME NEW c \in People, NEW p \in {-1, 1}, WriteEntry(c, p) PROVE PointsOK'
    <3>1. account[c].balance \in Int /\ account[c].balance >= 0
      BY DEF Inv, TypeOK, NeverOwed
    <3>2. Move(c, account[c].balance, p) /\ skewed' = skewed \cup {c}
      BY <2>5 DEF WriteEntry
    <3> QED BY <2>1, <3>1, <3>2
  <2> QED BY <2>2, <2>3, <2>4, <2>5
<1>5. TypeOK'
  BY <1>1, <1>2, <1>4 DEF Inv, TypeOK, PointsOK, fileVars
<1> QED BY <1>2, <1>3, <1>4, <1>5 DEF Inv, PointsOK
-----------------------------------------------------------------------------
LEMMA InvKept ==
  ASSUME CustomersAssumption
  PROVE  Inv /\ [Next]_vars => Inv'
<1> SUFFICES ASSUME Inv, [Next]_vars PROVE Inv'
  OBVIOUS
<1>1. CASE Next
  BY <1>1, ReadStep, WriteStep, ErasureStep, PointsStep DEF Next
<1>2. CASE UNCHANGED vars
  <2>1. UNCHANGED fileVars /\ UNCHANGED pointsVars /\ UNCHANGED desk
    BY <1>2 DEF vars
  <2>2. TypeOK'
    BY <2>1 DEF Inv, TypeOK, fileVars, pointsVars
  <2>3. CopiesSound'
    BY <2>1, DesksLeft DEF Inv, fileVars
  <2> QED BY <2>1, <2>2, <2>3, PointsUntouched, FileUntouched DEF Inv
<1> QED BY <1>1, <1>2

LEMMA Safety == Spec => []Inv
<1>1. CustomersAssumption
  BY CustomersAssumption
<1> QED BY <1>1, InitInv, InvKept, PTL DEF Spec

\* Every value keeps its type; in particular a live customer always has a name.
THEOREM TypeCorrect == Spec => []TypeOK
<1>1. Inv => TypeOK
  BY DEF Inv
<1> QED BY <1>1, Safety, PTL

\* Nothing of an erased person is left but what was written back from a copy
\* read before the erasure, or anew.
THEOREM ErasureHolds == Spec => []ErasedStaysErased
<1>1. Inv => ErasedStaysErased
  BY DEF Inv
<1> QED BY <1>1, Safety, PTL

\* No account owes points, for any overlap of awards, redemptions and edits.
THEOREM NoAccountOwes == Spec => []NeverOwed
<1>1. Inv => NeverOwed
  BY DEF Inv
<1> QED BY <1>1, Safety, PTL

\* An account that no old balance was written to is the sum of its entries.
THEOREM BalancesAddUp == Spec => []BalanceIsEntries
<1>1. Inv => BalanceIsEntries
  BY DEF Inv
<1> QED BY <1>1, Safety, PTL
-----------------------------------------------------------------------------
(* Rule packs: what is approved, and the deadlines that follow.             *)

\* Approving is one thing at a time unless it is said to have overlapped: the
\* approval that retired the others left no version but its own active.
Active(g) == {p \in Packs : RegulationOf[p] = g /\ status[p] = "active"}
ApprovalsApart ==
  \A g \in Regulations \ (overlapped \cup byHand) :
    /\ \A p, o \in Active(g) : p = o
    /\ \A a \in InBetween(g) :
         /\ \A b \in InBetween(g) : a = b
         /\ Active(g) \subseteq {Head(batch[a].packs)}

\* What is signed was approved, in whatever copy.
SignedWasApproved(p, s) == s = NoSeal \/ <<p, s>> \in approved
SealsApproved ==
  /\ \A p \in Packs : SignedWasApproved(p, seal[p])
  /\ \A f \in Forms : form[f] \in Copy => SignedWasApproved(form[f].pack, form[f].seal)
  /\ \A q \in Clients : question[q] # Idle =>
       \A i \in DOMAIN question[q].packs :
         SignedWasApproved(question[q].packs[i].pack, question[q].packs[i].seal)

\* A handler works on a pack that exists, and writes a seal it has read.
WorkSound ==
  /\ \A a \in Admins : batch[a] # Idle =>
       /\ batch[a].packs # <<>>
       /\ batch[a].at = "save" => batch[a].seal \in Content
  /\ \A f \in Forms : form[f] \in Copy => status[form[f].pack] # "none"
  /\ \A q \in Clients : question[q] # Idle =>
       /\ question[q].at # "verify" => question[q].packs # <<>>
       /\ \A i \in DOMAIN question[q].packs : status[question[q].packs[i].pack] # "none"

\* The rule that is about to be read is the sealed one, unless it was edited.
FetchesSealed ==
  \A q \in Clients :
    (question[q] # Idle /\ question[q].at = "fetch" /\ ~question[q].torn) =>
      LET copy == Head(question[q].packs)
      IN copy.seal # NoSeal /\ copy.seal = rules[copy.pack]
-----------------------------------------------------------------------------
(* Working days.  AddBusinessDays is a recursive function of the moment and *)
(* the days left; these lemmas say that it has one solution, and which.     *)

LEMMA LeastExists ==
  ASSUME NEW T \in SUBSET Nat, T # {}
  PROVE  \E x \in T : \A y \in T : x <= y
<1> DEFINE R == {s \in Nat \X Nat : s[1] < s[2]}
<1>1. IsWellFoundedOn(R, Nat)
  BY NatLessThanWellFounded DEF OpToRel
<1>2. PICK x \in T : \A y \in T : <<y, x>> \notin R
  BY <1>1, WFMin
<1>3. \A y \in T : <<y, x>> \in Nat \X Nat /\ <<y, x>>[1] = y /\ <<y, x>>[2] = x
  OBVIOUS
<1>4. \A y \in T : ~(y < x)
  BY <1>2, <1>3
<1> QED BY <1>4

Counting  == Nat \X Nat
After(c)  == <<c[1] + 24, IF Business(c[1] + 24) THEN c[2] - 1 ELSE c[2]>>
Counts(f) == f = [c \in Counting |-> IF c[2] = 0 THEN c[1] ELSE f[After(c)]]

\* The calendar days n working days take, counted from weekday w.
Days(w, n) == IF n = 0 THEN 0
              ELSE IF w = 6 THEN n + 2 * ((n - 1) \div 5)
              ELSE IF w = 5 THEN n + 1 + 2 * ((n - 1) \div 5)
              ELSE n + 2 * ((w + n) \div 5)
Left(c) == Days(WeekdayOf(c[1]), c[2])
Arrives == [c \in Counting |-> c[1] + 24 * Left(c)]

LEMMA OneDayOn ==
  ASSUME NEW w \in 0 .. 6, NEW n \in Nat, n > 0
  PROVE  LET v == IF w = 6 THEN 0 ELSE w + 1
             m == IF v < 5 THEN n - 1 ELSE n
         IN  Days(w, n) = 1 + Days(v, m) /\ Days(w, n) \in 1 .. 7 * n /\ m \in Nat
BY DEF Days

LEMMA Weekdays ==
  ASSUME NEW t \in Nat
  PROVE  /\ WeekdayOf(t) \in 0 .. 6
         /\ WeekdayOf(t + 24) = IF WeekdayOf(t) = 6 THEN 0 ELSE WeekdayOf(t) + 1
BY DEF WeekdayOf

LEMMA DaysPass ==
  ASSUME NEW c \in Counting
  PROVE  /\ c[2] = 0 => Left(c) = 0
         /\ c[2] # 0 => /\ After(c) \in Counting /\ Left(c) \in 1 .. 7 * c[2]
                        /\ After(c)[1] = c[1] + 24 /\ Left(After(c)) = Left(c) - 1
         /\ Left(c) \in Nat
<1>1. c[1] \in Nat /\ c[2] \in Nat
  BY DEF Counting
<1>2. CASE c[2] = 0
  BY <1>2 DEF Left, Days
<1>3. CASE c[2] # 0
  <2> DEFINE w == WeekdayOf(c[1])
             v == WeekdayOf(c[1] + 24)
             m == IF v < 5 THEN c[2] - 1 ELSE c[2]
  <2>1. w \in 0 .. 6 /\ v = IF w = 6 THEN 0 ELSE w + 1
    BY <1>1, Weekdays
  <2>2. Days(w, c[2]) = 1 + Days(v, m) /\ Days(w, c[2]) \in 1 .. 7 * c[2] /\ m \in Nat
    <3>1. c[2] > 0
      BY <1>1, <1>3
    <3> HIDE DEF w, v
    <3> QED BY <1>1, <2>1, <3>1, OneDayOn DEF v
  <2>3. After(c) = <<c[1] + 24, m>> /\ After(c)[1] = c[1] + 24 /\ After(c)[2] = m
    BY <1>1 DEF After, Business
  <2>4. After(c) \in Counting
    <3> HIDE DEF m
    <3> QED BY <1>1, <2>2, <2>3 DEF Counting
  <2>5. Left(After(c)) = Days(v, m) /\ Left(c) = Days(w, c[2])
    BY <2>3 DEF Left
  <2> HIDE DEF w, v, m
  <2>6. Days(v, m) \in Int
    BY <2>1, <2>2 DEF Days, v
  <2> QED BY <1>1, <1>3, <2>2, <2>3, <2>4, <2>5, <2>6
<1> QED BY <1>2, <1>3

\* What holds of where the counting ends and follows for a moment from the next
\* day holds of every moment: of those it fails for, none is nearest.
LEMMA CountingDown ==
  ASSUME NEW Good \in SUBSET Counting,
         \A c \in Counting : c[2] = 0 => c \in Good,
         \A c \in Counting : c[2] # 0 /\ After(c) \in Good => c \in Good
  PROVE  Good = Counting
<1> SUFFICES ASSUME Counting \ Good # {} PROVE FALSE
  OBVIOUS
<1> DEFINE T == {Left(c) : c \in Counting \ Good}
<1>1. T \in SUBSET Nat /\ T # {}
  BY DaysPass
<1> HIDE DEF T
<1>2. PICK x \in T : \A y \in T : x <= y
  BY <1>1, LeastExists
<1>3. PICK c \in Counting \ Good : x = Left(c)
  BY <1>2 DEF T
<1>4. c[2] # 0
  BY <1>3
<1>5. After(c) \in Counting \ Good /\ Left(After(c)) = Left(c) - 1 /\ Left(c) \in Nat
  BY <1>3, <1>4, DaysPass
<1>6. x <= Left(After(c))
  BY <1>2, <1>5 DEF T
<1> QED BY <1>3, <1>5, <1>6

LEMMA ArrivesCounts == Counts(Arrives)
<1>1. ASSUME NEW c \in Counting, c[2] # 0 PROVE Arrives[c] = Arrives[After(c)]
  <2>1. c[1] \in Nat /\ Left(c) \in Nat /\ After(c)[1] = c[1] + 24 /\ After(c) \in Counting
        /\ Left(After(c)) = Left(c) - 1
    BY <1>1, DaysPass DEF Counting
  <2> QED BY <2>1 DEF Arrives
<1>2. ASSUME NEW c \in Counting, c[2] = 0 PROVE Arrives[c] = c[1]
  <2>1. c[1] \in Nat /\ Left(c) = 0
    BY <1>2, DaysPass DEF Counting
  <2> QED BY <2>1 DEF Arrives
<1> QED BY <1>1, <1>2 DEF Counts, Arrives

LEMMA BusinessDaysAre ==
  ASSUME NEW start \in Nat, NEW n \in Nat
  PROVE  AddBusinessDays(start, n) = start + 24 * Left(<<start, n>>)
<1> DEFINE f == CHOOSE g : Counts(g)
<1>1. AddBusinessDays(start, n) = f[<<start, n>>]
  BY DEF AddBusinessDays, Counts, Counting, After
<1>2. Counts(f)
  BY ArrivesCounts
<1> HIDE DEF f
<1> DEFINE Good == {c \in Counting : f[c] = Arrives[c]}
<1>3. ASSUME NEW c \in Counting, c[2] = 0 PROVE c \in Good
  BY <1>2, <1>3, ArrivesCounts DEF Counts
<1>4. ASSUME NEW c \in Counting, c[2] # 0, After(c) \in Good PROVE c \in Good
  <2>1. f[c] = f[After(c)] /\ Arrives[c] = Arrives[After(c)]
    BY <1>2, <1>4, ArrivesCounts DEF Counts
  <2> QED BY <1>4, <2>1
<1>5. Good \in SUBSET Counting
  OBVIOUS
<1>6. Good = Counting
  <2> HIDE DEF Good
  <2> QED BY <1>3, <1>4, <1>5, CountingDown
<1>7. <<start, n>> \in Counting /\ <<start, n>>[1] = start
  BY DEF Counting
<1> QED BY <1>1, <1>6, <1>7 DEF Arrives

\* The working days among the k days after a moment.
WorkingDays(t, k) == {d \in {t + 24 * i : i \in 1 .. k} : Business(d)}

LEMMA WorkingDaysCounted ==
  ASSUME NEW c \in Counting
  PROVE  /\ Cardinality(WorkingDays(c[1], Left(c))) = c[2]
         /\ c[2] # 0 => Business(c[1] + 24 * Left(c))
<1> DEFINE Good == {e \in Counting :
              /\ IsFiniteSet(WorkingDays(e[1], Left(e)))
              /\ Cardinality(WorkingDays(e[1], Left(e))) = e[2]
              /\ e[2] # 0 => Business(e[1] + 24 * Left(e))}
<1>1. ASSUME NEW e \in Counting, e[2] = 0 PROVE e \in Good
  <2>1. WorkingDays(e[1], Left(e)) = {}
    BY <1>1, DaysPass DEF WorkingDays
  <2> QED BY <1>1, <2>1, FS_EmptySet
<1>2. ASSUME NEW e \in Counting, e[2] # 0, After(e) \in Good PROVE e \in Good
  <2> DEFINE t == e[1]  k == Left(e)  d == t + 24
             Later == WorkingDays(t + 24, k - 1)
  <2>1. t \in Nat /\ e[2] \in Nat /\ k \in Nat /\ k >= 1
    BY <1>2, DaysPass DEF Counting
  <2>2. After(e)[1] = t + 24 /\ Left(After(e)) = k - 1 /\ After(e) \in Counting
        /\ After(e)[2] = IF Business(d) THEN e[2] - 1 ELSE e[2]
    BY <1>2, DaysPass DEF After
  <2>3. IsFiniteSet(Later) /\ Cardinality(Later) = After(e)[2]
        /\ (After(e)[2] # 0 => Business(t + 24 + 24 * (k - 1)))
    BY <1>2, <2>2
  <2>4. WorkingDays(t, k) = IF Business(d) THEN Later \cup {d} ELSE Later
    <3> HIDE DEF t, k
    <3>1. {t + 24 * i : i \in 1 .. k} = {t + 24 + 24 * i : i \in 1 .. k - 1} \cup {d}
      <4>1. ASSUME NEW i \in 1 .. k PROVE t + 24 * i \in {t + 24 + 24 * j : j \in 1 .. k - 1} \cup {d}
        <5>1. CASE i = 1
          BY <2>1, <5>1
        <5>2. CASE i # 1
          <6>1. i - 1 \in 1 .. k - 1 /\ t + 24 * i = t + 24 + 24 * (i - 1)
            BY <2>1, <5>2
          <6> QED BY <6>1
        <5> QED BY <5>1, <5>2
      <4>2. ASSUME NEW j \in 1 .. k - 1 PROVE t + 24 + 24 * j \in {t + 24 * i : i \in 1 .. k}
        <5>1. j + 1 \in 1 .. k /\ t + 24 * (j + 1) = t + 24 + 24 * j
          BY <2>1
        <5> QED BY <5>1
      <4>3. d \in {t + 24 * i : i \in 1 .. k}
        <5>1. 1 \in 1 .. k /\ t + 24 * 1 = d
          BY <2>1
        <5> QED BY <5>1
      <4> QED BY <4>1, <4>2, <4>3
    <3> QED BY <3>1 DEF WorkingDays
  <2>5. d \notin Later
    BY <2>1 DEF WorkingDays
  <2>6. IsFiniteSet(WorkingDays(t, k)) /\ Cardinality(WorkingDays(t, k)) = e[2]
    <3> HIDE DEF Later, t, k
    <3>1. CASE Business(d)
      BY <2>1, <2>2, <2>3, <2>4, <2>5, <3>1, FS_AddElement
    <3>2. CASE ~Business(d)
      BY <2>2, <2>3, <2>4, <3>2
    <3> QED BY <3>1, <3>2
  <2>7. Business(t + 24 * k)
    <3>1. CASE After(e)[2] # 0
      <4>1. t + 24 + 24 * (k - 1) = t + 24 * k
        BY <2>1
      <4> QED BY <2>3, <3>1, <4>1
    <3>2. CASE After(e)[2] = 0
      <4>1. k - 1 = 0
        BY <2>2, <3>2, DaysPass
      <4>2. t + 24 * k = d /\ Business(d)
        BY <1>2, <2>1, <2>2, <3>2, <4>1
      <4> QED BY <4>2
    <3> QED BY <3>1, <3>2
  <2> QED BY <2>6, <2>7
<1>3. Good \in SUBSET Counting
  OBVIOUS
<1>4. Good = Counting
  <2> HIDE DEF Good
  <2> QED BY <1>1, <1>2, <1>3, CountingDown
<1> QED BY <1>4

\* What a deadline is, for every rule that sets one.
LEMMA DeadlineIsDue ==
  ASSUME RulesAssumption, NEW rule \in RuleValues, rule # NoRule, NEW t \in Starts
  PROVE  LET due == ComputeDeadline(rule, t)
         IN  due # NoDeadline => due \in Nat /\ DueOn(rule, t, due)
<1>0. rule.value \in Nat /\ rule.unit \in Units /\ t \in Nat /\ MonthsLater(t, rule.value) \in Nat
  BY DEF RulesAssumption
<1>1. CASE rule.value = 0 \/ rule.unit = ""
  BY <1>1 DEF ComputeDeadline
<1>2. CASE rule.value # 0 /\ rule.unit # "" /\ rule.unit # "business_days"
  <2>1. ComputeDeadline(rule, t) \in Nat
    <3>1. CASE rule.unit = "hours"
      BY <1>0, <1>2, <3>1 DEF ComputeDeadline
    <3>2. CASE rule.unit = "days"
      BY <1>0, <1>2, <3>2 DEF ComputeDeadline
    <3>3. CASE rule.unit = "months"
      BY <1>0, <1>2, <3>3 DEF ComputeDeadline
    <3> QED BY <1>0, <1>2, <3>1, <3>2, <3>3 DEF Units
  <2> QED BY <1>2, <2>1 DEF DueOn
<1>3. CASE rule.value # 0 /\ rule.unit = "business_days"
  <2> DEFINE n == rule.value
             k == Left(<<t, n>>)
             due == t + 24 * k
             later == {t + 24 * i : i \in 1 .. 7 * n}
  <2>1. ComputeDeadline(rule, t) = due
    BY <1>0, <1>3, BusinessDaysAre DEF ComputeDeadline
  <2>2. <<t, n>> \in Counting /\ <<t, n>>[1] = t /\ <<t, n>>[2] = n
    BY <1>0 DEF Counting
  <2>3. k \in 1 .. 7 * n /\ Cardinality(WorkingDays(t, k)) = n /\ Business(due)
    BY <1>3, <2>2, DaysPass, WorkingDaysCounted
  <2> HIDE DEF k
  <2>4. {d \in later : Business(d) /\ d <= due} = WorkingDays(t, k)
    <3>1. \A i \in 1 .. 7 * n : (t + 24 * i <= due <=> i \in 1 .. k)
      BY <1>0, <2>3
    <3> QED BY <1>0, <2>3, <3>1 DEF WorkingDays
  <2>5. due \in Nat /\ due \in later
    BY <1>0, <2>3
  <2> QED BY <1>3, <2>1, <2>3, <2>4, <2>5 DEF DueOn
<1> QED BY <1>0, <1>1, <1>2, <1>3 DEF Units

LEMMA DeadlineType ==
  ASSUME RulesAssumption, NEW rule \in RuleValues, rule # NoRule, NEW t \in Starts
  PROVE  ComputeDeadline(rule, t) \in Nat \cup {NoDeadline}
BY DeadlineIsDue

LEMMA RestIs ==
  ASSUME NEW S, NEW s \in Seq(S), s # <<>>
  PROVE  /\ Head(s) \in S /\ Head(s) = s[1] /\ 1 \in DOMAIN s
         /\ Tail(s) \in Seq(S) /\ (Len(s) # 1 => Tail(s) # <<>>)
         /\ \A i \in DOMAIN Tail(s) : i + 1 \in DOMAIN s /\ Tail(s)[i] = s[i + 1]
<1>1. Len(s) \in Nat /\ Len(s) >= 1 /\ DOMAIN s = 1 .. Len(s)
  OBVIOUS
<1>2. Len(Tail(s)) = Len(s) - 1 /\ Tail(s) \in Seq(S)
  BY <1>1
<1>3. Len(s) # 1 => Tail(s) # <<>>
  BY <1>1, <1>2
<1> QED BY <1>1, <1>2, <1>3

LEMMA NextPackIs ==
  ASSUME NEW b \in Approval, b.packs # <<>>
  PROVE  /\ NextPack(b) \in Approval \cup {Idle}
         /\ NextPack(b) # Idle => NextPack(b).packs # <<>> /\ NextPack(b).at = "check"
<1>1. Tail(b.packs) \in Seq(Packs) /\ (Len(b.packs) # 1 => Tail(b.packs) # <<>>)
  <2>1. b.packs \in Seq(Packs)
    BY DEF Approval
  <2> QED BY <2>1, RestIs
<1> QED BY <1>1 DEF NextPack, Approval

\* An order of some packs is a sequence of each of them.
LEMMA OrderIs ==
  ASSUME RulesAssumption, NEW S \in SUBSET Packs, NEW order \in SetToSeqs(S)
  PROVE  /\ order \in Seq(S)
         /\ \A i \in DOMAIN order : order[i] \in S
         /\ order = <<>> => S = {}
<1>1. IsFiniteSet(S) /\ Cardinality(S) \in Nat
  BY FS_Subset, FS_CardinalityType DEF RulesAssumption
<1>2. order \in [1 .. Cardinality(S) -> S]
  BY DEF SetToSeqs
<1>3. order = <<>> => Cardinality(S) = 0
  BY <1>1, <1>2
<1> QED BY <1>1, <1>2, <1>3, FS_EmptySet

LEMMA CopiesAre ==
  ASSUME PacksTypeOK, NEW S \in SUBSET Packs, NEW order \in Seq(S)
  PROVE  /\ [i \in DOMAIN order |-> [pack |-> order[i], seal |-> seal[order[i]]]] \in Seq(Copy)
<1> DEFINE C(i) == [pack |-> order[i], seal |-> seal[order[i]]]
<1>1. DOMAIN order = 1 .. Len(order) /\ Len(order) \in Nat
  OBVIOUS
<1>2. ASSUME NEW i \in DOMAIN order PROVE C(i) \in Copy
  <2>1. order[i] \in S
    BY <1>1, <1>2
  <2> QED BY <2>1 DEF PacksTypeOK, Copy
<1> HIDE DEF C
<1>3. [i \in 1 .. Len(order) |-> C(i)] \in Seq(Copy)
  BY <1>1, <1>2
<1> QED BY <1>1, <1>3 DEF C

LEMMA EditedTypes ==
  ASSUME PacksTypeOK, NEW p \in Packs, NEW c \in Codes, NEW rule \in RuleValues, Edited(p, c, rule)
  PROVE  /\ rules' \in [Packs -> Content]
         /\ question' \in [Clients -> Inquiry \cup {Idle}]
<1>1. rules' \in [Packs -> Content]
  BY DEF PacksTypeOK, Edited, Content
<1>2. ASSUME NEW q \in Clients PROVE question'[q] \in Inquiry \cup {Idle}
  BY DEF PacksTypeOK, Edited, Inquiry
<1> QED BY <1>1, <1>2 DEF Edited

LEMMA TypeKept ==
  ASSUME RulesAssumption, PacksTypeOK, WorkSound, [PacksNext]_ruleVars
  PROVE  PacksTypeOK'
<1>1. ASSUME NEW p \in Packs, SeedPack(p) \/ AddPack(p) PROVE PacksTypeOK'
  BY <1>1 DEF PacksTypeOK, SeedPack, AddPack, PackStatus, history, RulesAssumption
<1>2. ASSUME NEW p \in Packs, NEW c \in Codes, SeedRule(p, c) PROVE PacksTypeOK'
  <2>1. SeededRules[p][c] \in RuleValues
    BY <1>2 DEF SeedRule, RuleValues
  <2> QED BY <1>2, <2>1, EditedTypes DEF PacksTypeOK, SeedRule, history
<1>3. ASSUME NEW p \in Packs, NEW c \in Codes, NEW rule \in EditTo, EditRule(p, c, rule) PROVE PacksTypeOK'
  <2>1. rule \in RuleValues
    BY DEF RuleValues
  <2>2. edits' \in 0 .. MaxEdits
    BY <1>3 DEF EditRule, PacksTypeOK, RulesAssumption
  <2> QED BY <1>3, <2>1, <2>2, EditedTypes DEF PacksTypeOK, EditRule, history
<1>4. ASSUME NEW f \in Forms, NEW p \in Packs, OpenForm(f, p) PROVE PacksTypeOK'
  BY <1>4 DEF PacksTypeOK, OpenForm, packVars, history, Copy
<1>5. ASSUME NEW f \in Forms, NEW s \in PackStatus, SaveForm(f, s) PROVE PacksTypeOK'
  <2>1. form[f] \in Copy
    BY <1>5 DEF PacksTypeOK, SaveForm
  <2> QED BY <1>5, <2>1 DEF PacksTypeOK, SaveForm, Copy, Regulations
<1>6. ASSUME NEW a \in Admins, NEW S \in SUBSET Packs, SelectPacks(a, S) PROVE PacksTypeOK'
  <2>1. PICK order \in SetToSeqs(S) :
          batch' = [batch EXCEPT ![a] = [packs |-> order, at |-> "check", seal |-> NoSeal]]
    BY <1>6 DEF SelectPacks
  <2>2. order \in Seq(Packs)
    BY OrderIs
  <2>3. batch' \in [Admins -> Approval \cup {Idle}]
    BY <2>1, <2>2 DEF PacksTypeOK, Approval
  <2> QED BY <1>6, <2>3 DEF PacksTypeOK, SelectPacks, packVars, history
<1>7. ASSUME NEW a \in Admins,
             SkipEmpty(a) \/ RetireRivals(a) \/ ReadRules(a) \/ ActivatePack(a) \/ Abort(a)
      PROVE  PacksTypeOK'
  <2>0. batch[a] \in Approval /\ batch[a].packs # <<>> /\ Head(batch[a].packs) \in Packs
    <3>1. batch[a] # Idle
      BY <1>7 DEF SkipEmpty, RetireRivals, ReadRules, ActivatePack, Abort, Turn
    <3> QED BY <3>1 DEF PacksTypeOK, WorkSound, Approval
  <2>1. CASE SkipEmpty(a)
    BY <2>0, <2>1, NextPackIs DEF PacksTypeOK, SkipEmpty, packVars, history
  <2>2. CASE RetireRivals(a)
    BY <2>0, <2>2 DEF PacksTypeOK, RetireRivals, Approval, Regulations, PackStatus
  <2>3. CASE ReadRules(a)
    BY <2>0, <2>3 DEF PacksTypeOK, ReadRules, Approval, packVars, history
  <2>4. CASE ActivatePack(a)
    <3>1. batch[a].seal \in Content
      BY <2>4 DEF ActivatePack, Turn, WorkSound
    <3> QED BY <2>0, <2>4, <3>1, NextPackIs DEF PacksTypeOK, ActivatePack, PackStatus
  <2>5. CASE Abort(a)
    BY <2>0, <2>5 DEF PacksTypeOK, Abort, packVars, history
  <2> QED BY <1>7, <2>1, <2>2, <2>3, <2>4, <2>5
<1>8. ASSUME NEW q \in Clients, NEW g \in Regulations, NEW c \in Codes, NEW t \in Starts, Ask(q, g, c, t)
      PROVE  PacksTypeOK'
  <2> DEFINE S == {p \in Packs : RegulationOf[p] = g /\ status[p] = "active"}
             Copies(order) == [i \in DOMAIN order |-> [pack |-> order[i], seal |-> seal[order[i]]]]
  <2>1. PICK order \in SetToSeqs(S) :
          question' = [question EXCEPT ![q] = [packs |-> Copies(order), code |-> c, start |-> t,
                        at |-> "verify", torn |-> FALSE, due |-> NoDeadline]]
    BY <1>8 DEF Ask
  <2>2. Copies(order) \in Seq(Copy)
    <3>1. S \in SUBSET Packs
      OBVIOUS
    <3> HIDE DEF S
    <3>2. order \in Seq(S)
      BY <2>1, <3>1, OrderIs
    <3> QED BY <3>1, <3>2, CopiesAre
  <2> HIDE DEF Copies
  <2>3. question' \in [Clients -> Inquiry \cup {Idle}]
    BY <2>1, <2>2 DEF PacksTypeOK, Inquiry
  <2> QED BY <1>8, <2>3 DEF PacksTypeOK, Ask, packVars, history
<1>9. ASSUME NEW q \in Clients, VerifyNext(q) \/ FetchRule(q) \/ ReviewRequired(q) \/ Answered(q)
      PROVE  PacksTypeOK'
  <2>0. question[q] \in Inquiry
    BY <1>9 DEF PacksTypeOK, VerifyNext, FetchRule, ReviewRequired, Answered
  <2>01. question[q].packs # <<>> => Tail(question[q].packs) \in Seq(Copy)
    BY <2>0 DEF Inquiry
  <2>1. CASE VerifyNext(q)
    <3>1. [question[q] EXCEPT !.at = "fetch"] \in Inquiry
      BY <2>0 DEF Inquiry
    <3>2. [question[q] EXCEPT !.packs = Tail(question[q].packs)] \in Inquiry
      BY <2>0, <2>01, <2>1 DEF Inquiry, VerifyNext
    <3>3. question' \in [Clients -> Inquiry \cup {Idle}]
      BY <3>1, <3>2, <2>1 DEF PacksTypeOK, VerifyNext
    <3> QED BY <2>1, <3>3 DEF PacksTypeOK, VerifyNext, packVars, history
  <2>2. CASE FetchRule(q)
    <3> DEFINE rule == rules[Head(question[q].packs).pack][question[q].code]
               due  == ComputeDeadline(rule, question[q].start)
    <3>1. question[q].packs # <<>> /\ Head(question[q].packs) \in Copy
      BY <2>0, <2>2 DEF FetchRule, WorkSound, Inquiry
    <3>2. rule \in RuleValues /\ question[q].start \in Starts
      BY <2>0, <3>1 DEF PacksTypeOK, Copy, Content, Inquiry
    <3>3. rule = NoRule \/ due \in Nat \cup {NoDeadline}
      BY <3>2, DeadlineType
    <3>4. question' = [question EXCEPT ![q] =
            IF rule = NoRule
            THEN [question[q] EXCEPT !.packs = Tail(question[q].packs), !.at = "verify", !.torn = FALSE]
            ELSE IF due = NoDeadline THEN Idle
            ELSE [question[q] EXCEPT !.at = "ok", !.due = due]]
      BY <2>2 DEF FetchRule
    <3> HIDE DEF rule, due
    <3>5. [question[q] EXCEPT !.packs = Tail(question[q].packs), !.at = "verify", !.torn = FALSE] \in Inquiry
      BY <2>0, <2>01, <3>1 DEF Inquiry
    <3>6. rule # NoRule => [question[q] EXCEPT !.at = "ok", !.due = due] \in Inquiry
      BY <2>0, <3>3 DEF Inquiry
    <3>7. question' \in [Clients -> Inquiry \cup {Idle}]
      BY <3>4, <3>5, <3>6 DEF PacksTypeOK
    <3> QED BY <2>2, <3>7 DEF PacksTypeOK, FetchRule, packVars, history
  <2>3. CASE ReviewRequired(q) \/ Answered(q)
    BY <2>3 DEF PacksTypeOK, ReviewRequired, Answered, packVars, history
  <2> QED BY <1>9, <2>1, <2>2, <2>3
<1>10. CASE UNCHANGED ruleVars
  BY <1>10 DEF PacksTypeOK, ruleVars, packVars, history
<1> QED BY <1>1, <1>2, <1>3, <1>4, <1>5, <1>6, <1>7, <1>8, <1>9, <1>10 DEF PacksNext
-----------------------------------------------------------------------------
\* No step takes a pack away, or back to before it was there.
LEMMA PacksStay ==
  ASSUME PacksTypeOK, WorkSound, [PacksNext]_ruleVars, NEW p \in Packs, status[p] # "none"
  PROVE  status'[p] # "none"
<1>1. ASSUME NEW f \in Forms, NEW s \in PackStatus, SaveForm(f, s) PROVE status'[p] # "none"
  BY <1>1 DEF SaveForm, PacksTypeOK, PackStatus
<1>2. ASSUME NEW a \in Admins, RetireRivals(a) \/ ActivatePack(a) PROVE status'[p] # "none"
  BY <1>2 DEF RetireRivals, ActivatePack, PacksTypeOK
<1>3. ASSUME NEW o \in Packs, SeedPack(o) \/ AddPack(o) PROVE status'[p] # "none"
  BY <1>3 DEF SeedPack, AddPack, PacksTypeOK
<1>4. CASE UNCHANGED status
  BY <1>4
<1> QED
  BY <1>1, <1>2, <1>3, <1>4
  DEF PacksNext, SeedRule, EditRule, OpenForm, SelectPacks, SkipEmpty, ReadRules, Abort, Ask,
      VerifyNext, FetchRule, ReviewRequired, Answered, Edited, packVars, ruleVars

\* What a step does to the packs a question is about: it forgets some, or it
\* has just found them.
PacksKept(q) ==
  question'[q] = Idle \/
    /\ question[q] # Idle
    /\ \A i \in DOMAIN question'[q].packs : \E j \in DOMAIN question[q].packs :
         question'[q].packs[i] = question[q].packs[j]
PacksFound(q) ==
  /\ question'[q] # Idle /\ question'[q].at = "verify"
  /\ \A i \in DOMAIN question'[q].packs : \E p \in Packs :
       status[p] = "active" /\ question'[q].packs[i] = [pack |-> p, seal |-> seal[p]]

LEMMA EditedKeeps ==
  ASSUME PacksTypeOK, NEW p \in Packs, NEW c \in Codes, NEW rule, Edited(p, c, rule), NEW q \in Clients
  PROVE  /\ question[q] = Idle => question'[q] = Idle
         /\ question[q] # Idle =>
              /\ question'[q].packs = question[q].packs /\ question'[q].at = question[q].at
              /\ question'[q].code = question[q].code /\ question'[q].start = question[q].start
              /\ question'[q].due = question[q].due
              /\ question[q].at = "fetch" =>
                   question'[q].torn = (question[q].torn \/ Head(question[q].packs).pack = p)
              /\ question[q].at # "fetch" => question'[q].torn = question[q].torn
BY DEF Edited, PacksTypeOK, Inquiry

LEMMA QuestionSteps ==
  ASSUME RulesAssumption, PacksTypeOK, WorkSound, [PacksNext]_ruleVars, NEW q \in Clients
  PROVE  /\ PacksKept(q) \/ PacksFound(q)
         /\ question'[q] # Idle /\ question'[q].at # "verify" => question'[q].packs # <<>>
<1>1. CASE UNCHANGED question
  BY <1>1 DEF PacksKept, WorkSound
<1>2. ASSUME NEW p \in Packs, NEW c \in Codes, NEW rule, Edited(p, c, rule)
      PROVE  /\ PacksKept(q) \/ PacksFound(q)
             /\ question'[q] # Idle /\ question'[q].at # "verify" => question'[q].packs # <<>>
  BY <1>2, EditedKeeps DEF PacksKept, WorkSound
<1>3. ASSUME NEW r \in Clients, NEW g \in Regulations, NEW c \in Codes, NEW t \in Starts, Ask(r, g, c, t)
      PROVE  /\ PacksKept(q) \/ PacksFound(q)
             /\ question'[q] # Idle /\ question'[q].at # "verify" => question'[q].packs # <<>>
  <2> DEFINE S == {p \in Packs : RegulationOf[p] = g /\ status[p] = "active"}
             Copies(order) == [i \in DOMAIN order |-> [pack |-> order[i], seal |-> seal[order[i]]]]
  <2>1. PICK order \in SetToSeqs(S) :
          question' = [question EXCEPT ![r] = [packs |-> Copies(order), code |-> c, start |-> t,
                        at |-> "verify", torn |-> FALSE, due |-> NoDeadline]]
    BY <1>3 DEF Ask
  <2>2. \A i \in DOMAIN order : order[i] \in S
    <3>1. S \in SUBSET Packs
      OBVIOUS
    <3> HIDE DEF S
    <3> QED BY <3>1, <2>1, OrderIs
  <2>3. \A i \in DOMAIN Copies(order) : \E p \in Packs :
          status[p] = "active" /\ Copies(order)[i] = [pack |-> p, seal |-> seal[p]]
    BY <2>2
  <2> HIDE DEF Copies, S
  <2>4. CASE q = r
    <3>1. question'[q] = [packs |-> Copies(order), code |-> c, start |-> t,
                        at |-> "verify", torn |-> FALSE, due |-> NoDeadline]
      BY <2>1, <2>4 DEF PacksTypeOK
    <3>2. Copies(order) \in Seq(Copy)
      <4>1. S \in SUBSET Packs
        BY DEF S
      <4> QED BY <2>1, <4>1, OrderIs, CopiesAre DEF Copies
    <3>3. question'[q] \in Inquiry
      BY <3>1, <3>2, <1>3 DEF Inquiry
    <3>4. question'[q] # Idle /\ question'[q].at = "verify" /\ question'[q].packs = Copies(order)
      <4>1. Idle \notin Inquiry
        BY NothingAssumption DEF NothingAssumption
      <4>2. question'[q] # Idle
        BY <3>3, <4>1
      <4> QED BY <3>1, <4>2
    <3>5. PacksFound(q)
      BY <3>4, <2>3 DEF PacksFound
    <3> QED BY <3>4, <3>5
  <2>5. CASE q # r
    BY <2>1, <2>5 DEF PacksTypeOK, PacksKept, WorkSound
  <2> QED BY <2>4, <2>5
<1>4. ASSUME NEW r \in Clients, VerifyNext(r) \/ FetchRule(r) \/ ReviewRequired(r) \/ Answered(r)
      PROVE  /\ PacksKept(q) \/ PacksFound(q)
             /\ question'[q] # Idle /\ question'[q].at # "verify" => question'[q].packs # <<>>
  <2>1. CASE q # r
    <3>1. question'[q] = question[q]
      BY <1>4, <2>1 DEF PacksTypeOK, VerifyNext, FetchRule, ReviewRequired, Answered
    <3> QED BY <3>1 DEF PacksKept, WorkSound
  <2>2. CASE q = r
    <3>1. question[q] \in Inquiry /\ question[q].packs \in Seq(Copy)
      BY <1>4, <2>2 DEF PacksTypeOK, VerifyNext, FetchRule, ReviewRequired, Answered, Inquiry
    <3>2. CASE question'[q] = Idle
      BY <3>2 DEF PacksKept
    <3>3. CASE question'[q] # Idle
      <4>1. question[q].packs # <<>>
        BY <1>4, <2>2, <3>3 DEF VerifyNext, FetchRule, ReviewRequired, Answered, WorkSound, PacksTypeOK
      <4>2. \/ question'[q].packs = question[q].packs
            \/ question'[q].packs = Tail(question[q].packs) /\ question'[q].at = "verify"
        <5>1. CASE VerifyNext(r)
          BY <5>1, <2>2, <3>1 DEF VerifyNext, PacksTypeOK, Inquiry
        <5>2. CASE FetchRule(r)
          BY <5>2, <2>2, <3>1, <3>3 DEF FetchRule, PacksTypeOK, Inquiry
        <5>3. CASE ReviewRequired(r) \/ Answered(r)
          BY <5>3, <2>2, <3>3 DEF ReviewRequired, Answered, PacksTypeOK
        <5> QED BY <1>4, <5>1, <5>2, <5>3
      <4>3. question[q] # Idle
        BY <1>4, <2>2 DEF VerifyNext, FetchRule, ReviewRequired, Answered
      <4>4. CASE question'[q].packs = question[q].packs
        BY <4>1, <4>3, <4>4 DEF PacksKept
      <4>5. CASE question'[q].packs = Tail(question[q].packs) /\ question'[q].at = "verify"
        <5> DEFINE s == question[q].packs
        <5>1. \A i \in DOMAIN Tail(s) : i + 1 \in DOMAIN s /\ Tail(s)[i] = s[i + 1]
          BY <3>1, <4>1, RestIs
        <5> QED BY <4>3, <4>5, <5>1 DEF PacksKept
      <4> QED BY <4>2, <4>4, <4>5
    <3> QED BY <3>2, <3>3
  <2> QED BY <2>1, <2>2
<1> QED
  BY <1>1, <1>2, <1>3, <1>4
  DEF PacksNext, SeedPack, AddPack, SeedRule, EditRule, OpenForm, SaveForm, SelectPacks, SkipEmpty,
      RetireRivals, ReadRules, ActivatePack, Abort, ruleVars

LEMMA WorkKept ==
  ASSUME RulesAssumption, PacksTypeOK, WorkSound, [PacksNext]_ruleVars
  PROVE  WorkSound'
<1>1. ASSUME NEW a \in Admins, batch'[a] # Idle
      PROVE  batch'[a].packs # <<>> /\ (batch'[a].at = "save" => batch'[a].seal \in Content)
  <2>1. CASE batch'[a] = batch[a]
    BY <1>1, <2>1 DEF WorkSound
  <2>2. ASSUME NEW S \in SUBSET Packs, SelectPacks(a, S)
        PROVE  batch'[a].packs # <<>> /\ (batch'[a].at = "save" => batch'[a].seal \in Content)
    <3>1. PICK order \in SetToSeqs(S) :
            batch' = [batch EXCEPT ![a] = [packs |-> order, at |-> "check", seal |-> NoSeal]]
      BY <2>2 DEF SelectPacks
    <3>2. order # <<>>
      BY <2>2, <3>1, OrderIs DEF SelectPacks
    <3> QED BY <3>1, <3>2 DEF PacksTypeOK
  <2>3. CASE SkipEmpty(a) \/ RetireRivals(a) \/ ReadRules(a) \/ ActivatePack(a) \/ Abort(a)
    <3>1. batch[a] # Idle
      BY <2>3 DEF SkipEmpty, RetireRivals, ReadRules, ActivatePack, Abort, Turn
    <3>2. batch[a] \in Approval /\ batch[a].packs # <<>> /\ Head(batch[a].packs) \in Packs
      BY <3>1 DEF PacksTypeOK, WorkSound, Approval
    <3>3. CASE SkipEmpty(a) \/ ActivatePack(a)
      <4>1. batch'[a] = NextPack(batch[a])
        BY <3>3 DEF SkipEmpty, ActivatePack, PacksTypeOK
      <4> QED BY <1>1, <3>2, <4>1, NextPackIs
    <3>4. CASE RetireRivals(a)
      BY <3>2, <3>4 DEF RetireRivals, PacksTypeOK, Approval
    <3>5. CASE ReadRules(a)
      BY <3>2, <3>5 DEF ReadRules, PacksTypeOK, Approval
    <3>6. CASE Abort(a)
      BY <1>1, <3>6 DEF Abort, PacksTypeOK
    <3> QED BY <2>3, <3>3, <3>4, <3>5, <3>6
  <2> QED
    <3>1. \A b \in Admins, S \in SUBSET Packs :
            (b # a /\ (SelectPacks(b, S) \/ SkipEmpty(b) \/ RetireRivals(b) \/ ReadRules(b)
                        \/ ActivatePack(b) \/ Abort(b))) => batch'[a] = batch[a]
      BY DEF SelectPacks, SkipEmpty, RetireRivals, ReadRules, ActivatePack, Abort, PacksTypeOK
    <3> QED
      BY <2>1, <2>2, <2>3, <3>1
      DEF PacksNext, SeedPack, AddPack, SeedRule, EditRule, OpenForm, SaveForm, Ask, VerifyNext,
          FetchRule, ReviewRequired, Answered, ruleVars
<1>2. ASSUME NEW f \in Forms, form'[f] \in Copy PROVE status'[form'[f].pack] # "none"
  <2>1. CASE form'[f] = form[f]
    <3>1. form[f].pack \in Packs /\ status[form[f].pack] # "none"
      BY <1>2, <2>1 DEF WorkSound, Copy
    <3> QED BY <2>1, <3>1, PacksStay
  <2>2. ASSUME NEW p \in Packs, OpenForm(f, p) PROVE status'[form'[f].pack] # "none"
    BY <2>2 DEF OpenForm, PacksTypeOK, packVars
  <2>3. ASSUME NEW s \in PackStatus, SaveForm(f, s) PROVE FALSE
    BY <1>2, <2>3, NothingAssumption DEF SaveForm, PacksTypeOK
  <2>4. /\ \A e \in Forms, p \in Packs : e # f /\ OpenForm(e, p) => form'[f] = form[f]
        /\ \A e \in Forms, s \in PackStatus : e # f /\ SaveForm(e, s) => form'[f] = form[f]
    BY DEF OpenForm, SaveForm, PacksTypeOK
  <2> QED
    BY <2>1, <2>2, <2>3, <2>4
    DEF PacksNext, SeedPack, AddPack, SeedRule, EditRule, SelectPacks, SkipEmpty, RetireRivals,
        ReadRules, ActivatePack, Abort, Ask, VerifyNext, FetchRule, ReviewRequired, Answered, ruleVars
<1>3. ASSUME NEW q \in Clients, question'[q] # Idle, NEW i \in DOMAIN question'[q].packs
      PROVE  status'[question'[q].packs[i].pack] # "none"
  <2>1. CASE PacksKept(q)
    <3>1. PICK j \in DOMAIN question[q].packs : question'[q].packs[i] = question[q].packs[j]
      BY <1>3, <2>1 DEF PacksKept
    <3>2. question[q] \in Inquiry
      BY <1>3, <2>1 DEF PacksKept, PacksTypeOK
    <3>3. question[q].packs[j].pack \in Packs /\ status[question[q].packs[j].pack] # "none"
      <4>1. question[q] # Idle /\ question[q].packs \in Seq(Copy)
        BY <1>3, <2>1, <3>2 DEF PacksKept, Inquiry
      <4>2. question[q].packs[j] \in Copy
        BY <4>1
      <4> QED BY <4>1, <4>2 DEF WorkSound, Copy
    <3> QED BY <3>1, <3>3, PacksStay
  <2>2. CASE PacksFound(q)
    <3>1. PICK p \in Packs :
            status[p] = "active" /\ question'[q].packs[i] = [pack |-> p, seal |-> seal[p]]
      BY <1>3, <2>2 DEF PacksFound
    <3>2. status'[p] # "none"
      BY <3>1, PacksStay
    <3> QED BY <3>1, <3>2
  <2> QED BY <2>1, <2>2, QuestionSteps
<1> QED BY <1>1, <1>2, <1>3, QuestionSteps DEF WorkSound
-----------------------------------------------------------------------------
LEMMA SealsKept ==
  ASSUME RulesAssumption, PacksTypeOK, WorkSound, SealsApproved, [PacksNext]_ruleVars
  PROVE  SealsApproved'
<1>0. approved \subseteq approved'
  BY DEF PacksNext, SeedPack, AddPack, SeedRule, EditRule, OpenForm, SaveForm, SelectPacks, SkipEmpty,
         RetireRivals, ReadRules, ActivatePack, Abort, Ask, VerifyNext, FetchRule, ReviewRequired,
         Answered, ruleVars, history
<1>1. ASSUME NEW p \in Packs PROVE SignedWasApproved(p, seal[p])'
  <2>1. CASE seal' = seal
    BY <1>0, <2>1 DEF SealsApproved, SignedWasApproved
  <2>2. ASSUME NEW f \in Forms, NEW s, SaveForm(f, s) PROVE SignedWasApproved(p, seal[p])'
    <3>1. form[f] \in Copy
      BY <2>2 DEF SaveForm, PacksTypeOK
    <3>2. SignedWasApproved(form[f].pack, form[f].seal)
      BY <3>1 DEF SealsApproved
    <3> QED BY <1>0, <2>2, <3>2 DEF SaveForm, PacksTypeOK, SealsApproved, SignedWasApproved
  <2>3. ASSUME NEW a \in Admins, ActivatePack(a) PROVE SignedWasApproved(p, seal[p])'
    BY <1>0, <2>3 DEF ActivatePack, PacksTypeOK, SealsApproved, SignedWasApproved
  <2> QED
    BY <2>1, <2>2, <2>3
    DEF PacksNext, SeedPack, AddPack, SeedRule, EditRule, OpenForm, SelectPacks, SkipEmpty, RetireRivals,
        ReadRules, Abort, Ask, VerifyNext, FetchRule, ReviewRequired, Answered, packVars, ruleVars
<1>2. ASSUME NEW f \in Forms, form'[f] \in Copy
      PROVE  SignedWasApproved(form[f].pack, form[f].seal)'
  <2>1. CASE form'[f] = form[f]
    BY <1>0, <1>2, <2>1 DEF SealsApproved, SignedWasApproved
  <2>2. ASSUME NEW p \in Packs, OpenForm(f, p) PROVE SignedWasApproved(form[f].pack, form[f].seal)'
    BY <1>0, <2>2 DEF OpenForm, PacksTypeOK, SealsApproved, SignedWasApproved
  <2>3. ASSUME NEW s \in PackStatus, SaveForm(f, s) PROVE FALSE
    BY <1>2, <2>3, NothingAssumption DEF SaveForm, PacksTypeOK
  <2>4. /\ \A e \in Forms, p \in Packs : e # f /\ OpenForm(e, p) => form'[f] = form[f]
        /\ \A e \in Forms, s \in PackStatus : e # f /\ SaveForm(e, s) => form'[f] = form[f]
    BY DEF OpenForm, SaveForm, PacksTypeOK
  <2> QED
    BY <2>1, <2>2, <2>3, <2>4
    DEF PacksNext, SeedPack, AddPack, SeedRule, EditRule, SelectPacks, SkipEmpty, RetireRivals,
        ReadRules, ActivatePack, Abort, Ask, VerifyNext, FetchRule, ReviewRequired, Answered, ruleVars
<1>3. ASSUME NEW q \in Clients, question'[q] # Idle, NEW i \in DOMAIN question'[q].packs
      PROVE  SignedWasApproved(question[q].packs[i].pack, question[q].packs[i].seal)'
  <2>1. CASE PacksKept(q)
    <3>1. PICK j \in DOMAIN question[q].packs : question'[q].packs[i] = question[q].packs[j]
      BY <1>3, <2>1 DEF PacksKept
    <3>2. SignedWasApproved(question[q].packs[j].pack, question[q].packs[j].seal)
      BY <1>3, <2>1 DEF PacksKept, SealsApproved
    <3> QED BY <1>0, <3>1, <3>2 DEF SignedWasApproved
  <2>2. CASE PacksFound(q)
    <3>1. PICK p \in Packs : question'[q].packs[i] = [pack |-> p, seal |-> seal[p]]
      BY <1>3, <2>2 DEF PacksFound
    <3> QED BY <1>0, <3>1 DEF SealsApproved, SignedWasApproved
  <2> QED BY <2>1, <2>2, QuestionSteps
<1> QED BY <1>1, <1>2, <1>3 DEF SealsApproved

\* A sealed rule that is about to be read changes only where that is noted.
LEMMA FetchKept ==
  ASSUME RulesAssumption, PacksTypeOK, WorkSound, FetchesSealed, [PacksNext]_ruleVars
  PROVE  FetchesSealed'
<1> SUFFICES ASSUME NEW q \in Clients, question'[q] # Idle, question'[q].at = "fetch", ~question'[q].torn
             PROVE  LET copy == Head(question'[q].packs)
                    IN copy.seal # NoSeal /\ copy.seal = rules'[copy.pack]
  BY DEF FetchesSealed
<1>0. question[q] # Idle => /\ question[q] \in Inquiry /\ question[q].packs \in Seq(Copy)
                           /\ (question[q].packs # <<>> => Head(question[q].packs) \in Copy
                                 /\ status[Head(question[q].packs).pack] # "none")
  <2>1. question[q] # Idle => question[q] \in Inquiry /\ question[q].packs \in Seq(Copy)
    BY DEF PacksTypeOK, Inquiry
  <2> QED BY <2>1, RestIs DEF WorkSound
<1>1. CASE question'[q] = question[q]
  <2> DEFINE copy == Head(question[q].packs)
  <2>1. copy.seal # NoSeal /\ copy.seal = rules[copy.pack]
    BY <1>1 DEF FetchesSealed
  <2>2. copy \in Copy /\ status[copy.pack] # "none"
    BY <1>0, <1>1 DEF WorkSound
  <2>3. rules'[copy.pack] = rules[copy.pack]
    <3>1. ASSUME NEW p \in Packs, AddPack(p) PROVE rules'[copy.pack] = rules[copy.pack]
      BY <2>2, <3>1 DEF AddPack, PacksTypeOK, Copy
    <3>2. ASSUME NEW p \in Packs, NEW c \in Codes, NEW rule, Edited(p, c, rule)
          PROVE  rules'[copy.pack] = rules[copy.pack]
      <4>1. copy.pack # p
        BY <1>1, <3>2, EditedKeeps
      <4> QED BY <2>2, <3>2, <4>1 DEF Edited, PacksTypeOK, Copy
    <3> QED
      BY <3>1, <3>2
      DEF PacksNext, SeedPack, SeedRule, EditRule, OpenForm, SaveForm, SelectPacks, SkipEmpty,
          RetireRivals, ReadRules, ActivatePack, Abort, Ask, VerifyNext, FetchRule, ReviewRequired,
          Answered, packVars, ruleVars
  <2> QED BY <1>1, <2>1, <2>3
<1>2. ASSUME NEW p \in Packs, NEW c \in Codes, NEW rule, Edited(p, c, rule)
      PROVE  LET copy == Head(question'[q].packs)
             IN copy.seal # NoSeal /\ copy.seal = rules'[copy.pack]
  <2>1. question[q] # Idle /\ question'[q].packs = question[q].packs /\ question[q].at = "fetch"
        /\ ~question[q].torn /\ Head(question[q].packs).pack # p
    BY <1>2, EditedKeeps
  <2>2. rules'[Head(question[q].packs).pack] = rules[Head(question[q].packs).pack]
    BY <1>2, <2>1 DEF Edited, PacksTypeOK
  <2> QED BY <2>1, <2>2 DEF FetchesSealed
<1>3. ASSUME NEW r \in Clients, VerifyNext(r), question'[q] # question[q]
      PROVE  LET copy == Head(question'[q].packs)
             IN copy.seal # NoSeal /\ copy.seal = rules'[copy.pack]
  <2>1. r = q /\ UNCHANGED rules
    BY <1>3 DEF VerifyNext, PacksTypeOK, packVars
  <2>2. question[q] \in Inquiry /\ question[q].at = "verify"
    BY <1>0, <1>3, <2>1 DEF VerifyNext
  <2>3. VerifyPack(Head(question[q].packs)) /\ question'[q].packs = question[q].packs
    BY <1>3, <2>1, <2>2 DEF VerifyNext, PacksTypeOK, Inquiry
  <2> QED BY <2>1, <2>3 DEF VerifyPack
<1>4. ASSUME NEW r \in Clients, FetchRule(r) \/ ReviewRequired(r) \/ Answered(r) PROVE question'[q] = question[q]
  <2> SUFFICES ASSUME r = q PROVE FALSE
    BY <1>4 DEF FetchRule, ReviewRequired, Answered, PacksTypeOK
  <2>1. question[q] \in Inquiry
    BY <1>0, <1>4 DEF FetchRule, ReviewRequired, Answered
  <2>2. CASE FetchRule(q)
    BY <2>1, <2>2 DEF FetchRule, PacksTypeOK, Inquiry
  <2>3. CASE ReviewRequired(q) \/ Answered(q)
    BY <2>3 DEF ReviewRequired, Answered, PacksTypeOK
  <2> QED BY <1>4, <2>2, <2>3
<1>5. ASSUME NEW r \in Clients, NEW g, NEW c, NEW t, Ask(r, g, c, t) PROVE question'[q] = question[q]
  BY <1>5 DEF Ask, PacksTypeOK
<1> QED
  BY <1>1, <1>2, <1>3, <1>4, <1>5
  DEF PacksNext, SeedPack, AddPack, SeedRule, EditRule, OpenForm, SaveForm, SelectPacks, SkipEmpty,
      RetireRivals, ReadRules, ActivatePack, Abort, ruleVars
-----------------------------------------------------------------------------
\* What keeps approvals apart: no version becomes active, and none begins.
LEMMA ApartAsBefore ==
  ASSUME ApprovalsApart, NEW g \in Regulations,
         g \notin overlapped' \cup byHand' => g \notin overlapped \cup byHand,
         Active(g)' \subseteq Active(g), InBetween(g)' \subseteq InBetween(g),
         \A a \in InBetween(g)' : Head(batch'[a].packs) = Head(batch[a].packs),
         g \notin overlapped' \cup byHand'
  PROVE  /\ \A p, o \in Active(g)' : p = o
         /\ \A a \in InBetween(g)' :
              /\ \A b \in InBetween(g)' : a = b
              /\ Active(g)' \subseteq {Head(batch'[a].packs)}
BY DEF ApprovalsApart

LEMMA ApartKept ==
  ASSUME RulesAssumption, PacksTypeOK, WorkSound, ApprovalsApart, [PacksNext]_ruleVars
  PROVE  ApprovalsApart'
<1> SUFFICES ASSUME NEW g \in Regulations, g \notin overlapped' \cup byHand'
             PROVE  /\ \A p, o \in Active(g)' : p = o
                    /\ \A a \in InBetween(g)' :
                         /\ \A b \in InBetween(g)' : a = b
                         /\ Active(g)' \subseteq {Head(batch'[a].packs)}
  BY DEF ApprovalsApart, Regulations
<1> DEFINE Apart == /\ \A p, o \in Active(g)' : p = o
                    /\ \A a \in InBetween(g)' :
                         /\ \A b \in InBetween(g)' : a = b
                         /\ Active(g)' \subseteq {Head(batch'[a].packs)}
<1>0. g \notin overlapped \cup byHand
  BY DEF PacksNext, SeedPack, AddPack, SeedRule, EditRule, OpenForm, SaveForm, SelectPacks, SkipEmpty,
         RetireRivals, ReadRules, ActivatePack, Abort, Ask, VerifyNext, FetchRule, ReviewRequired,
         Answered, ruleVars, history
<1>1. ASSUME Active(g)' \subseteq Active(g), InBetween(g)' \subseteq InBetween(g),
             \A a \in InBetween(g)' : Head(batch'[a].packs) = Head(batch[a].packs)
      PROVE  Apart
  BY <1>0, <1>1, ApartAsBefore
<1>2. ASSUME UNCHANGED batch, Active(g)' \subseteq Active(g) PROVE Apart
  <2>1. InBetween(g)' = InBetween(g)
    BY <1>2 DEF InBetween
  <2> QED BY <1>1, <1>2, <2>1
<1>3. ASSUME NEW p \in Packs, SeedPack(p) \/ AddPack(p) PROVE Apart
  <2>1. Active(g)' \subseteq Active(g)
    BY <1>3 DEF SeedPack, AddPack, Active, PacksTypeOK
  <2> QED BY <1>2, <1>3, <2>1 DEF SeedPack, AddPack
<1>4. ASSUME NEW f \in Forms, NEW s \in PackStatus, SaveForm(f, s) PROVE Apart
  <2>1. s = "active" => RegulationOf[form[f].pack] # g
    BY <1>4 DEF SaveForm
  <2>2. Active(g)' \subseteq Active(g)
    BY <1>4, <2>1 DEF SaveForm, Active, PacksTypeOK
  <2> QED BY <1>2, <1>4, <2>2 DEF SaveForm
<1>5. ASSUME NEW a \in Admins, batch[a] # Idle PROVE batch[a] \in Approval /\ Head(batch[a].packs) \in Packs
  <2>1. batch[a] \in Approval /\ batch[a].packs # <<>> /\ batch[a].packs \in Seq(Packs)
    BY <1>5 DEF PacksTypeOK, WorkSound, Approval
  <2> QED BY <2>1, RestIs
<1>6. ASSUME NEW a \in Admins, \A b \in Admins \ {a} : batch'[b] = batch[b],
             batch'[a] # Idle => batch'[a].at = "check"
      PROVE  InBetween(g)' = InBetween(g) \ {a}
  BY <1>6 DEF InBetween
<1>7. ASSUME NEW a \in Admins, InBetween(g)' = InBetween(g) \ {a}, \A b \in Admins \ {a} : batch'[b] = batch[b],
             Active(g)' \subseteq Active(g)
      PROVE  Apart
  <2>1. InBetween(g) \subseteq Admins
    BY DEF InBetween
  <2> QED BY <1>1, <1>7, <2>1
<1>8. ASSUME NEW a \in Admins, NEW S \in SUBSET Packs, SelectPacks(a, S) PROVE Apart
  <2>1. PICK order : batch' = [batch EXCEPT ![a] = [packs |-> order, at |-> "check", seal |-> NoSeal]]
    BY <1>8 DEF SelectPacks
  <2>2. InBetween(g)' = InBetween(g) \ {a}
    BY <2>1, <1>6 DEF PacksTypeOK
  <2>3. Active(g)' = Active(g)
    BY <1>8 DEF SelectPacks, packVars, Active
  <2> QED BY <1>7, <2>1, <2>2, <2>3 DEF PacksTypeOK
<1>9. ASSUME NEW a \in Admins, SkipEmpty(a) \/ Abort(a) PROVE Apart
  <2>1. batch[a] # Idle /\ \A b \in Admins \ {a} : batch'[b] = batch[b]
    BY <1>9 DEF SkipEmpty, Abort, Turn, PacksTypeOK
  <2>2. batch[a] \in Approval /\ batch[a].packs # <<>>
    BY <2>1, <1>5 DEF WorkSound
  <2>3. batch'[a] # Idle => batch'[a].at = "check"
    BY <1>9, <2>2, NextPackIs DEF SkipEmpty, Abort, PacksTypeOK
  <2>4. InBetween(g)' = InBetween(g) \ {a}
    BY <2>1, <2>3, <1>6
  <2>5. Active(g)' = Active(g)
    BY <1>9 DEF SkipEmpty, Abort, packVars, Active
  <2> QED BY <1>7, <2>1, <2>4, <2>5
<1>10. ASSUME NEW a \in Admins, ReadRules(a) PROVE Apart
  <2>1. batch[a] \in Approval /\ batch[a] # Idle /\ batch[a].at = "read"
    BY <1>10, <1>5 DEF ReadRules, Turn
  <2>2. /\ batch'[a].packs = batch[a].packs /\ batch'[a].at = "save"
        /\ \A b \in Admins \ {a} : batch'[b] = batch[b]
    BY <1>10, <2>1 DEF ReadRules, PacksTypeOK, Approval
  <2>3. InBetween(g)' \subseteq InBetween(g)
    BY <2>1, <2>2 DEF InBetween
  <2>4. Active(g)' = Active(g)
    BY <1>10 DEF ReadRules, packVars, Active
  <2>5. \A b \in InBetween(g)' : Head(batch'[b].packs) = Head(batch[b].packs)
    BY <2>2 DEF InBetween
  <2> QED BY <1>1, <2>3, <2>4, <2>5
<1>11. ASSUME NEW a \in Admins, RetireRivals(a) PROVE Apart
  <2> DEFINE p == Head(batch[a].packs)
  <2>1. batch[a] \in Approval /\ batch[a] # Idle /\ batch[a].at = "check" /\ p \in Packs
    BY <1>11, <1>5 DEF RetireRivals, Turn
  <2>2. /\ batch'[a].packs = batch[a].packs /\ batch'[a].at = "read"
        /\ \A b \in Admins \ {a} : batch'[b] = batch[b]
    BY <1>11, <2>1 DEF RetireRivals, PacksTypeOK, Approval
  <2>3. Active(g)' = Active(g) \ Rivals(p)
    BY <1>11 DEF RetireRivals, Active, PacksTypeOK, Rivals, SameRegulation
  <2>4. CASE RegulationOf[p] = g
    <3>1. InBetween(g) = {}
      BY <1>11, <2>4 DEF RetireRivals
    <3>2. InBetween(g)' \subseteq {a}
      BY <2>2, <3>1 DEF InBetween
    <3>3. Active(g)' \subseteq {p}
      BY <2>3, <2>4 DEF Active, Rivals, SameRegulation
    <3>4. Head(batch'[a].packs) = p
      BY <2>2
    <3> QED BY <3>2, <3>3, <3>4
  <2>5. CASE RegulationOf[p] # g
    <3>1. InBetween(g)' \subseteq InBetween(g)
      BY <2>2, <2>5 DEF InBetween
    <3>2. \A b \in InBetween(g)' : Head(batch'[b].packs) = Head(batch[b].packs)
      BY <2>2 DEF InBetween
    <3> QED BY <1>1, <2>3, <3>1, <3>2
  <2> QED BY <2>4, <2>5
<1>12. ASSUME NEW a \in Admins, ActivatePack(a) PROVE Apart
  <2> DEFINE p == Head(batch[a].packs)
  <2>1. batch[a] \in Approval /\ batch[a] # Idle /\ batch[a].at = "save" /\ p \in Packs
    BY <1>12, <1>5 DEF ActivatePack, Turn
  <2>2. \A b \in Admins \ {a} : batch'[b] = batch[b]
    BY <1>12 DEF ActivatePack, PacksTypeOK
  <2>3. batch'[a] = NextPack(batch[a]) /\ (batch'[a] # Idle => batch'[a].at = "check")
    BY <1>12, <2>1, NextPackIs DEF ActivatePack, PacksTypeOK, WorkSound
  <2>4. InBetween(g)' = InBetween(g) \ {a}
    BY <2>2, <2>3, <1>6
  <2>5. CASE RegulationOf[p] = g
    <3>1. a \in InBetween(g)
      BY <2>1, <2>5 DEF InBetween
    <3>2. InBetween(g)' = {} /\ Active(g) \subseteq {p}
      BY <1>0, <2>4, <3>1 DEF ApprovalsApart
    <3>3. Active(g)' \subseteq {p}
      BY <1>12, <3>2 DEF ActivatePack, Active, PacksTypeOK
    <3> QED BY <3>2, <3>3
  <2>6. CASE RegulationOf[p] # g
    <3>1. Active(g)' \subseteq Active(g)
      BY <1>12, <2>6 DEF ActivatePack, Active, PacksTypeOK
    <3> QED BY <1>7, <2>2, <2>4, <3>1
  <2> QED BY <2>5, <2>6
<1>13. CASE UNCHANGED <<status, batch>>
  BY <1>2, <1>13 DEF Active
<1> QED
  BY <1>3, <1>4, <1>8, <1>9, <1>10, <1>11, <1>12, <1>13
  DEF PacksNext, SeedRule, EditRule, OpenForm, Ask, VerifyNext, FetchRule, ReviewRequired,
      Answered, packVars, ruleVars
-----------------------------------------------------------------------------
\* An answer was right when it was given, and stays what it was.
LEMMA AnswersKept ==
  ASSUME RulesAssumption, PacksTypeOK, WorkSound, SealsApproved, FetchesSealed, DeadlinesWereApproved,
         [PacksNext]_ruleVars
  PROVE  DeadlinesWereApproved'
<1> SUFFICES ASSUME NEW q \in Clients, question'[q] # Idle, question'[q].at = "ok", ~question'[q].torn
             PROVE  \E a \in approved' :
                      /\ a[1] = Head(question'[q].packs).pack
                      /\ a[2][question'[q].code] # NoRule
                      /\ DueOn(a[2][question'[q].code], question'[q].start, question'[q].due)
  BY DEF DeadlinesWereApproved
<1>0. approved \subseteq approved'
  BY DEF PacksNext, SeedPack, AddPack, SeedRule, EditRule, OpenForm, SaveForm, SelectPacks, SkipEmpty,
         RetireRivals, ReadRules, ActivatePack, Abort, Ask, VerifyNext, FetchRule, ReviewRequired,
         Answered, ruleVars, history
<1>1. CASE question'[q] = question[q]
  BY <1>0, <1>1 DEF DeadlinesWereApproved
<1>2. ASSUME NEW p \in Packs, NEW c \in Codes, NEW rule, Edited(p, c, rule) PROVE question'[q] = question[q]
  <2>1. question[q] # Idle /\ question[q].at # "fetch"
    BY <1>2, EditedKeeps
  <2> QED BY <1>2, <2>1 DEF Edited, PacksTypeOK
<1>3. ASSUME NEW r \in Clients, NEW g, NEW c, NEW t, Ask(r, g, c, t) PROVE question'[q] = question[q]
  BY <1>3 DEF Ask, PacksTypeOK
<1>4. ASSUME NEW r \in Clients, VerifyNext(r) PROVE question'[q] = question[q]
  <2> SUFFICES ASSUME r = q PROVE FALSE
    BY <1>4 DEF VerifyNext, PacksTypeOK
  <2>1. question[q] \in Inquiry
    BY <1>4 DEF VerifyNext, PacksTypeOK
  <2> QED BY <1>4, <2>1 DEF VerifyNext, PacksTypeOK, Inquiry
<1>5. ASSUME NEW r \in Clients, ReviewRequired(r) \/ Answered(r) PROVE question'[q] = question[q]
  BY <1>5 DEF ReviewRequired, Answered, PacksTypeOK
<1>6. ASSUME NEW r \in Clients, FetchRule(r), question'[q] # question[q]
      PROVE  \E a \in approved' :
               /\ a[1] = Head(question'[q].packs).pack
               /\ a[2][question'[q].code] # NoRule
               /\ DueOn(a[2][question'[q].code], question'[q].start, question'[q].due)
  <2> DEFINE copy == Head(question[q].packs)
             rule == rules[copy.pack][question[q].code]
             due  == ComputeDeadline(rule, question[q].start)
  <2>1. r = q /\ question[q] \in Inquiry /\ question[q].at = "fetch" /\ question[q] # Idle
    BY <1>6 DEF FetchRule, PacksTypeOK
  <2>2. question[q].packs \in Seq(Copy) /\ question[q].packs # <<>> /\ question[q].start \in Starts
        /\ question[q].code \in Codes
    BY <2>1 DEF Inquiry, WorkSound
  <2>3. copy \in Copy /\ copy = question[q].packs[1] /\ 1 \in DOMAIN question[q].packs
    BY <2>2, RestIs
  <2>4. /\ rule # NoRule /\ due # NoDeadline
        /\ question'[q] = [question[q] EXCEPT !.at = "ok", !.due = due]
    BY <1>6, <2>1 DEF FetchRule, PacksTypeOK, Inquiry
  <2> HIDE DEF copy
  <2>5. rule \in RuleValues
    BY <2>2, <2>3 DEF PacksTypeOK, Copy, Content
  <2> HIDE DEF rule, due
  <2>6. /\ question'[q].packs = question[q].packs /\ question'[q].code = question[q].code
        /\ question'[q].start = question[q].start /\ question'[q].due = due
        /\ question'[q].torn = question[q].torn
    BY <2>1, <2>4 DEF Inquiry
  <2>7. copy.seal # NoSeal /\ copy.seal = rules[copy.pack]
    BY <2>1, <2>6 DEF FetchesSealed, copy
  <2>8. <<copy.pack, copy.seal>> \in approved
    BY <2>1, <2>3, <2>7 DEF SealsApproved, SignedWasApproved
  <2>9. copy.seal[question[q].code] = rule
    BY <2>7 DEF rule
  <2>10. DueOn(rule, question[q].start, due)
    BY <2>2, <2>4, <2>5, DeadlineIsDue DEF due
  <2>11. <<copy.pack, copy.seal>> \in approved' /\ <<copy.pack, copy.seal>>[1] = Head(question'[q].packs).pack
         /\ <<copy.pack, copy.seal>>[2] = copy.seal
    BY <1>0, <2>6, <2>8 DEF copy
  <2> QED BY <2>4, <2>6, <2>9, <2>10, <2>11
<1> QED
  BY <1>1, <1>2, <1>3, <1>4, <1>5, <1>6
  DEF PacksNext, SeedPack, AddPack, SeedRule, EditRule, OpenForm, SaveForm, SelectPacks, SkipEmpty,
      RetireRivals, ReadRules, ActivatePack, Abort, ruleVars
-----------------------------------------------------------------------------
PacksInv == /\ PacksTypeOK /\ WorkSound /\ ApprovalsApart
            /\ SealsApproved /\ FetchesSealed /\ DeadlinesWereApproved

LEMMA PacksBegin ==
  ASSUME RulesAssumption, PacksInit PROVE PacksInv
<1>1. /\ \A q \in Clients : question[q] = Idle
      /\ \A a \in Admins : batch[a] = Idle
      /\ \A f \in Forms : form[f] = Idle
  BY DEF PacksInit
<1>2. Idle \notin Copy
  BY NothingAssumption DEF NothingAssumption
<1>3. PacksTypeOK
  <2>1. NoContent \in Content
    BY DEF NoContent, Content, RuleValues
  <2> QED BY <2>1 DEF PacksInit, PacksTypeOK, RulesAssumption
<1>4. WorkSound /\ FetchesSealed /\ DeadlinesWereApproved
  BY <1>1, <1>2 DEF WorkSound, FetchesSealed, DeadlinesWereApproved
<1>5. ApprovalsApart
  BY <1>1 DEF ApprovalsApart, InBetween, Active, PacksInit
<1>6. SealsApproved
  BY <1>1, <1>2 DEF SealsApproved, SignedWasApproved, PacksInit
<1> QED BY <1>3, <1>4, <1>5, <1>6 DEF PacksInv

LEMMA PacksSafety == PacksSpec => []PacksInv
<1>1. RulesAssumption
  BY RulesAssumption
<1>2. PacksInit => PacksInv
  BY <1>1, PacksBegin
<1>3. PacksInv /\ [PacksNext]_ruleVars => PacksInv'
  BY <1>1, TypeKept, WorkKept, ApartKept, SealsKept, FetchKept, AnswersKept DEF PacksInv
<1> QED BY <1>2, <1>3, PTL DEF PacksSpec

\* A deadline follows from a rule of a pack as a human approved it, and falls on
\* the right day, for any packs, rules, forms, approvals and questions; unless
\* the rule was edited between the two queries of the same question.
THEOREM DeadlinesFollowRules == PacksSpec => []DeadlinesWereApproved
<1>1. PacksInv => DeadlinesWereApproved
  BY DEF PacksInv
<1> QED BY <1>1, PacksSafety, PTL

\* One version of a regulation governs, however many versions are approved in
\* whatever order and wherever an approval breaks off.
THEOREM OneVersionGoverns == PacksSpec => []OneGoverningPack
<1>1. PacksInv => OneGoverningPack
  <2> SUFFICES ASSUME PacksInv, NEW g \in Regulations \ (overlapped \cup byHand)
               PROVE  Cardinality(Active(g)) <= 1
    BY DEF OneGoverningPack, Active
  <2>1. \A p, o \in Active(g) : p = o
    BY DEF PacksInv, ApprovalsApart
  <2>2. CASE Active(g) = {}
    BY <2>2, FS_EmptySet
  <2>3. ASSUME NEW p \in Active(g) PROVE Cardinality(Active(g)) <= 1
    <3>1. Active(g) = {p}
      BY <2>1, <2>3
    <3> QED BY <3>1, FS_Singleton
  <2> QED BY <2>2, <2>3
<1> QED BY <1>1, PacksSafety, PTL
=============================================================================
