---------------------- MODULE FilingPublicationProofs ----------------------
(***************************************************************************)
(* Proofs about FilingPublication, for every set of filings, dates and     *)
(* originals.  A run reads an original one commit after it has stored it   *)
(* and decides on a status it loaded long before; what makes its results   *)
(* right all the same is that nothing kept is dropped (InHand), that it    *)
(* publishes nothing without a date (Dated), and that nothing is kept but  *)
(* what is behind a link or was uploaded (Kept).                           *)
(***************************************************************************)
EXTENDS FilingPublication, SequenceTheorems, TLAPS

USE FilingAssumption, FactsAssumption, BoundAssumption

\* What is published was announced at a known time.
Dated == \A i \in DOMAIN results : Announced(results[i].filing) # 0

\* The original the run has in hand is kept.
InHand ==
  pc = "busy" =>
    /\ todo # <<>>
    /\ place \in 0 .. Len(docs[Head(todo)])
    /\ content # "none" => \E a \in stored[Head(todo)] : a.content = content

Originals(f) == {docs[f][i] : i \in DOMAIN docs[f]} \cup uploads[f]
Kept == \A f \in Filing : \A a \in stored[f] : a.content \in Originals(f)

IInv == TypeOK /\ Dated /\ InHand /\ Kept /\ RevisionsAscend /\ PublishedIsKept

\* The originals that are kept account for what is published.
Accounted(res, kept) ==
  \A i \in DOMAIN res : \A f \in res[i].provenance : \E a \in kept[f] : a.content = res[i].facts

Noted(f, res) == \E i \in DOMAIN res : f \in res[i].provenance

-----------------------------------------------------------------------------
LEMMA InitIInv == Init => IInv
<1> SUFFICES ASSUME Init PROVE IInv
  OBVIOUS
<1>1. TypeOK
  <2>1. results \in Seq(Result) /\ todo \in Seq(Filing)
    BY DEF Init
  <2>2. status \in [Filing -> Status] /\ seen \in [Filing -> Status]
    BY DEF Init, Status, Unloaded
  <2>3. created \in [Exchange -> Seq(Filing)]
    BY DEF Init
  <2>4. /\ stored \in [Filing -> SUBSET Attachment]
        /\ identified \subseteq Exchange
    BY DEF Init
  <2>5. any \in BOOLEAN
    BY Zenon DEF Init
  <2>6. faults \in 0 .. MaxFaults
    BY DEF Init
  <2> QED
    BY <2>1, <2>2, <2>3, <2>4, <2>5, <2>6 DEF Init, TypeOK
<1>2. Dated /\ InHand /\ Kept
  BY DEF Init, Dated, InHand, Kept
<1>3. RevisionsAscend /\ PublishedIsKept
  BY DEF Init, RevisionsAscend, PublishedIsKept
<1> QED
  BY <1>1, <1>2, <1>3 DEF IInv

\* A function on 1 .. n is a sequence of length n.
LEMMA AsSequence ==
  ASSUME NEW S, NEW n \in Nat, NEW s \in [1 .. n -> S]
  PROVE  s \in Seq(S) /\ Len(s) = n /\ DOMAIN s = 1 .. n
<1>1. s \in Seq(S)
  BY SeqDef
<1> QED
  BY <1>1, LenProperties

\* publish: the revision that reports the same is noted, or a new one follows.
LEMMA PublishedResults ==
  ASSUME IInv, NEW f \in Filing, NEW a \in stored[f], Reads(f, a.content),
         NEW res, res = Published(f, a.content)
  PROVE  /\ res \in Seq(Result)
         /\ Len(res) >= Len(results)
         /\ \A j \in DOMAIN res :
              /\ res[j].current <=> j = Len(res)
              /\ Announced(res[j].filing) # 0
              /\ j > 1 => /\ Announced(res[j - 1].filing) < Announced(res[j].filing)
                          /\ exchangeOf[res[j - 1].filing] = exchangeOf[res[j].filing]
                          /\ res[j - 1].facts # res[j].facts
         /\ Accounted(res, stored)
         /\ Noted(f, res)
         /\ \A g \in Filing : Noted(g, results) => Noted(g, res)
<1> DEFINE facts == a.content
           n == Len(results)
<1>1. /\ facts \in Facts /\ Announced(f) # 0
      /\ \A j \in Current : Same(j, facts) \/ Replaces(f, j)
  BY DEF Reads, Publishable
<1>2. /\ results \in Seq(Result) /\ n \in Nat /\ DOMAIN results = 1 .. n
      /\ \A j \in 1 .. n : results[j] \in Result
  BY DEF IInv, TypeOK
<1>3. \A j \in 1 .. n : j \in Current <=> j = n
  BY <1>2 DEF Current, IInv, RevisionsAscend
<1>4. \A j \in 1 .. n :
        /\ Announced(results[j].filing) # 0
        /\ j > 1 => /\ Announced(results[j - 1].filing) < Announced(results[j].filing)
                    /\ exchangeOf[results[j - 1].filing] = exchangeOf[results[j].filing]
                    /\ results[j - 1].facts # results[j].facts
  BY <1>2 DEF IInv, Dated, RevisionsAscend
<1>5. \A j \in 1 .. n : \A g \in results[j].provenance :
        \E d \in stored[g] : d.content = results[j].facts
  BY <1>2 DEF IInv, PublishedIsKept
<1> HIDE DEF facts, n
<1>6. CASE \E j \in Current : Same(j, facts)
  <2>1. n \in 1 .. n /\ results[n].facts = facts
    BY <1>2, <1>3, <1>6 DEF Current, Same
  <2>2. res = [j \in 1 .. n |-> IF j \in Current
                 THEN [results[j] EXCEPT !.provenance = @ \cup {f}] ELSE results[j]]
    BY <1>2, <1>6 DEF Published, facts
  <2>3. \A j \in 1 .. n :
          /\ res[j] \in Result /\ res[j].filing = results[j].filing
          /\ res[j].facts = results[j].facts /\ res[j].current = results[j].current
          /\ res[j].provenance = IF j = n THEN results[j].provenance \cup {f} ELSE results[j].provenance
    <3> SUFFICES ASSUME NEW j \in 1 .. n
                 PROVE  /\ res[j] \in Result /\ res[j].filing = results[j].filing
                        /\ res[j].facts = results[j].facts /\ res[j].current = results[j].current
                        /\ res[j].provenance = IF j = n THEN results[j].provenance \cup {f}
                                                ELSE results[j].provenance
      OBVIOUS
    <3>1. results[j] \in Result
      BY <1>2
    <3>2. CASE j = n
      <4>1. res[j] = [results[j] EXCEPT !.provenance = @ \cup {f}]
        BY <1>3, <2>2, <3>2
      <4>2. results[j].provenance \cup {f} \in SUBSET Filing
        BY <3>1 DEF Result
      <4> DEFINE noted == results[j].provenance \cup {f}
      <4>3. res[j] = [results[j] EXCEPT !.provenance = noted]
        BY <4>1
      <4>4. noted \in SUBSET Filing
        BY <4>2
      <4> HIDE DEF noted
      <4>5. /\ res[j] \in Result /\ res[j].filing = results[j].filing
            /\ res[j].facts = results[j].facts /\ res[j].current = results[j].current
            /\ res[j].provenance = noted
        BY <3>1, <4>3, <4>4 DEF Result
      <4> QED
        BY <3>2, <4>5 DEF noted
    <3>3. CASE j # n
      <4>1. res[j] = results[j]
        BY <1>3, <2>2, <3>3
      <4> QED
        BY <3>1, <3>3, <4>1
    <3> QED
      BY <3>2, <3>3
  <2>4. res \in Seq(Result) /\ Len(res) = n /\ DOMAIN res = 1 .. n
    <3>1. res \in [1 .. n -> Result]
      BY <2>2, <2>3
    <3> QED
      BY <1>2, <3>1, AsSequence
  <2>5. Accounted(res, stored)
    <3> SUFFICES ASSUME NEW j \in 1 .. n, NEW g \in res[j].provenance
                 PROVE  \E d \in stored[g] : d.content = res[j].facts
      BY <2>4 DEF Accounted
    <3>1. CASE g \in results[j].provenance
      <4>1. \E d \in stored[g] : d.content = results[j].facts
        BY <1>5, <3>1
      <4>2. res[j].facts = results[j].facts
        BY <2>3
      <4> QED
        BY <4>1, <4>2
    <3>2. CASE j = n /\ g = f
      BY <2>1, <2>3, <3>2 DEF facts
    <3> QED
      BY <2>3, <3>1, <3>2
  <2>6. \A j \in 1 .. n : res[j].current <=> j = n
    BY <1>2, <1>3, <2>3 DEF Current
  <2>7. Noted(f, res) /\ \A g \in Filing : Noted(g, results) => Noted(g, res)
    BY <1>2, <2>1, <2>3, <2>4 DEF Noted
  <2>8. ASSUME NEW j \in 1 .. n, j > 1
        PROVE  /\ Announced(res[j - 1].filing) < Announced(res[j].filing)
               /\ exchangeOf[res[j - 1].filing] = exchangeOf[res[j].filing]
               /\ res[j - 1].facts # res[j].facts
    <3>1. j - 1 \in 1 .. n
      BY <1>2, <2>8
    <3>2. /\ res[j - 1].filing = results[j - 1].filing /\ res[j].filing = results[j].filing
          /\ res[j - 1].facts = results[j - 1].facts /\ res[j].facts = results[j].facts
      BY <2>3, <3>1
    <3> QED
      BY <1>4, <2>8, <3>2
  <2>9. \A j \in 1 .. n : Announced(res[j].filing) # 0
    BY <1>4, <2>3
  <2>10. Len(res) >= Len(results)
    BY <1>2, <2>4 DEF n
  <2> QED
    BY <2>4, <2>5, <2>6, <2>7, <2>8, <2>9, <2>10
<1>7. CASE ~ \E j \in Current : Same(j, facts)
  <2> DEFINE past == [j \in 1 .. n |-> [results[j] EXCEPT !.current = FALSE]]
             new == [filing |-> f, facts |-> facts, provenance |-> {f}, current |-> TRUE]
  <2>1. res = Append(past, new)
    BY <1>2, <1>7 DEF Published, facts
  <2>2. \A j \in 1 .. n :
          /\ past[j] \in Result /\ past[j].filing = results[j].filing
          /\ past[j].facts = results[j].facts /\ past[j].current = FALSE
          /\ past[j].provenance = results[j].provenance
    BY <1>2 DEF Result
  <2>3. new \in Result
    BY <1>1 DEF Result
  <2>4. past \in Seq(Result) /\ Len(past) = n
    <3>1. past \in [1 .. n -> Result]
      BY <2>2
    <3> QED
      BY <1>2, <3>1, AsSequence
  <2>5. n > 0 => /\ Announced(results[n].filing) < Announced(f)
                 /\ exchangeOf[results[n].filing] = exchangeOf[f]
                 /\ results[n].facts # facts
    <3>1. SUFFICES ASSUME n > 0 PROVE Replaces(f, n) /\ ~Same(n, facts)
      <4>1. Announced(f) \in Nat /\ (n > 0 => Announced(results[n].filing) \in Nat)
        BY <1>2 DEF Announced, Result
      <4> QED
        BY <4>1 DEF Replaces, Later, Same
    <3> QED
      BY <1>1, <1>2, <1>3, <1>7, <3>1
  <2> HIDE DEF past, new
  <2>6. /\ res \in Seq(Result) /\ Len(res) = n + 1 /\ DOMAIN res = 1 .. n + 1
        /\ \A j \in 1 .. n : res[j] = past[j]
        /\ res[n + 1] = new
    BY <1>2, <2>1, <2>3, <2>4
  <2>7. /\ new.filing = f /\ new.facts = facts /\ new.provenance = {f} /\ new.current = TRUE
    BY DEF new
  <2>8. \A j \in 1 .. n + 1 : res[j].current <=> j = n + 1
    <3>1. \A j \in 1 .. n + 1 : j = n + 1 \/ (j \in 1 .. n /\ j # n + 1)
      BY <1>2
    <3>2. \A j \in 1 .. n : res[j].current = FALSE
      BY <2>2, <2>6
    <3> QED
      BY <2>6, <2>7, <3>1, <3>2
  <2>9. \A j \in 1 .. n + 1 : Announced(res[j].filing) # 0
    <3> SUFFICES ASSUME NEW j \in 1 .. n + 1 PROVE Announced(res[j].filing) # 0
      OBVIOUS
    <3>1. CASE j = n + 1
      BY <1>1, <2>6, <2>7, <3>1
    <3>2. CASE j \in 1 .. n
      <4>1. res[j].filing = results[j].filing
        BY <2>2, <2>6, <3>2
      <4>2. Announced(results[j].filing) # 0
        BY <1>4, <3>2
      <4> QED
        BY <4>1, <4>2
    <3> QED
      BY <1>2, <3>1, <3>2
  <2>10. ASSUME NEW j \in 1 .. n + 1, j > 1
         PROVE  /\ Announced(res[j - 1].filing) < Announced(res[j].filing)
                /\ exchangeOf[res[j - 1].filing] = exchangeOf[res[j].filing]
                /\ res[j - 1].facts # res[j].facts
    <3>1. CASE j = n + 1
      <4>1. n > 0 /\ j - 1 = n /\ n \in 1 .. n
        BY <1>2, <2>10, <3>1
      <4>2. res[j - 1] = past[n] /\ res[j] = new
        BY <2>6, <3>1, <4>1
      <4> QED
        BY <2>2, <2>5, <2>7, <4>1, <4>2
    <3>2. CASE j \in 1 .. n
      <4>1. j - 1 \in 1 .. n /\ res[j - 1] = past[j - 1] /\ res[j] = past[j]
        <5>1. j - 1 \in 1 .. n
          BY <1>2, <2>10, <3>2
        <5> QED
          BY <2>6, <3>2, <5>1
      <4>2. /\ res[j - 1].filing = results[j - 1].filing /\ res[j].filing = results[j].filing
            /\ res[j - 1].facts = results[j - 1].facts /\ res[j].facts = results[j].facts
        BY <2>2, <3>2, <4>1
      <4> QED
        BY <1>4, <2>10, <3>2, <4>2
    <3> QED
      BY <1>2, <3>1, <3>2
  <2>11. Accounted(res, stored)
    <3> SUFFICES ASSUME NEW j \in 1 .. n + 1, NEW g \in res[j].provenance
                 PROVE  \E d \in stored[g] : d.content = res[j].facts
      BY <2>6 DEF Accounted
    <3>1. CASE j \in 1 .. n
      <4>1. res[j].provenance = results[j].provenance /\ res[j].facts = results[j].facts
        BY <2>2, <2>6, <3>1
      <4>2. \E d \in stored[g] : d.content = results[j].facts
        BY <1>5, <3>1, <4>1
      <4> QED
        BY <4>1, <4>2
    <3>2. CASE j = n + 1
      <4>1. g = f /\ res[j].facts = a.content
        BY <2>6, <2>7, <3>2 DEF facts
      <4> QED
        BY <4>1
    <3>3. j = n + 1 \/ j \in 1 .. n
      BY <1>2
    <3> QED
      BY <3>1, <3>2, <3>3
  <2>12. Noted(f, res)
    <3>1. n + 1 \in 1 .. n + 1
      BY <1>2
    <3> QED
      BY <2>6, <2>7, <3>1 DEF Noted
  <2>13. \A g \in Filing : Noted(g, results) => Noted(g, res)
    <3>1. \A j \in 1 .. n : j \in 1 .. n + 1 /\ res[j].provenance = results[j].provenance
      <4>1. \A j \in 1 .. n : j \in 1 .. n + 1
        BY <1>2
      <4> QED
        BY <2>2, <2>6, <4>1
    <3> QED
      BY <1>2, <2>6, <3>1 DEF Noted
  <2>14. Len(res) >= Len(results)
    BY <1>2, <2>6 DEF n
  <2> QED
    BY <2>6, <2>8, <2>9, <2>10, <2>11, <2>12, <2>13, <2>14
<1> QED
  BY <1>6, <1>7

-----------------------------------------------------------------------------
\* What every step leaves true of the filings and originals it does not touch.
OriginalsStay ==
  \A g \in Filing : /\ stored[g] \subseteq stored'[g]
                    /\ \A a \in stored'[g] : a \in stored[g] \/ a.content \in Originals(g)
WaysStay == way' = way

PublishedAreNoted ==
  \A g \in Filing : status'[g] = "PUBLISHED" => status[g] = "PUBLISHED" \/ Noted(g, results')

\* What a step may do to the results: nothing, or publish one readable original.
ResultsStand ==
  \/ results' = results
  \/ \E f \in Filing : \E a \in stored[f] :
       Reads(f, a.content) /\ results' = Published(f, a.content)

LEMMA StandingResults ==
  ASSUME IInv, ResultsStand
  PROVE  /\ results' \in Seq(Result)
         /\ \A j \in DOMAIN results' :
              /\ results'[j].current <=> j = Len(results')
              /\ Announced(results'[j].filing) # 0
              /\ j > 1 => /\ Announced(results'[j - 1].filing) < Announced(results'[j].filing)
                          /\ exchangeOf[results'[j - 1].filing] = exchangeOf[results'[j].filing]
                          /\ results'[j - 1].facts # results'[j].facts
         /\ Accounted(results', stored)
         /\ \A g \in Filing : Noted(g, results) => Noted(g, results')
<1>1. CASE results' = results
  BY <1>1 DEF IInv, TypeOK, Dated, RevisionsAscend, PublishedIsKept, Accounted
<1>2. ASSUME NEW f \in Filing, NEW a \in stored[f], Reads(f, a.content),
             results' = Published(f, a.content)
      PROVE  /\ results' \in Seq(Result)
             /\ \A j \in DOMAIN results' :
                  /\ results'[j].current <=> j = Len(results')
                  /\ Announced(results'[j].filing) # 0
                  /\ j > 1 => /\ Announced(results'[j - 1].filing) < Announced(results'[j].filing)
                              /\ exchangeOf[results'[j - 1].filing] = exchangeOf[results'[j].filing]
                              /\ results'[j - 1].facts # results'[j].facts
             /\ Accounted(results', stored)
             /\ \A g \in Filing : Noted(g, results) => Noted(g, results')
  BY <1>2, PublishedResults
<1> QED
  BY <1>1, <1>2 DEF ResultsStand

\* Such a step preserves what the invariant says of the results.
LEMMA ResultsPreserved ==
  ASSUME IInv, TypeOK', ResultsStand, OriginalsStay, WaysStay, PublishedAreNoted
  PROVE  Dated' /\ Kept' /\ RevisionsAscend' /\ PublishedIsKept'
<1>1. \A j \in DOMAIN results' :
        /\ results'[j] \in Result /\ results'[j].filing \in Filing
        /\ results'[j].provenance \subseteq Filing
        /\ j > 1 => j - 1 \in DOMAIN results'
  <2>1. results' \in Seq(Result)
    BY StandingResults
  <2>2. \A j \in DOMAIN results' : results'[j] \in Result /\ (j > 1 => j - 1 \in DOMAIN results')
    BY <2>1
  <2> QED
    BY <2>2 DEF Result
<1>2. Dated'
  BY StandingResults DEF Dated, Announced, WaysStay
<1>3. RevisionsAscend'
  BY StandingResults DEF RevisionsAscend, Announced, WaysStay
<1>4. PublishedIsKept'
  <2>1. \A j \in DOMAIN results' : \A g \in results'[j].provenance :
          \E d \in stored'[g] : d.content = results'[j].facts
    <3> SUFFICES ASSUME NEW j \in DOMAIN results', NEW g \in results'[j].provenance
                 PROVE  \E d \in stored'[g] : d.content = results'[j].facts
      OBVIOUS
    <3>1. PICK d \in stored[g] : d.content = results'[j].facts
      BY StandingResults DEF Accounted
    <3>2. d \in stored'[g]
      BY <1>1 DEF OriginalsStay
    <3> QED
      BY <3>1, <3>2
  <2>2. \A g \in Filing : status[g] = "PUBLISHED" => Noted(g, results)
    BY DEF IInv, PublishedIsKept, Noted
  <2>3. \A g \in Filing : status'[g] = "PUBLISHED" => Noted(g, results')
    BY <2>2, StandingResults DEF PublishedAreNoted
  <2> QED
    BY <2>1, <2>3 DEF PublishedIsKept, Noted
<1>5. Kept'
  BY DEF IInv, Kept, Originals, OriginalsStay
<1> QED
  BY <1>2, <1>3, <1>4, <1>5

-----------------------------------------------------------------------------
\* A filing that is found changes no other one, and is published by nobody.
LEMMA StoreEffect ==
  ASSUME IInv, NEW f \in Filing, Store(f), results' = results
  PROVE  /\ created' \in [Exchange -> Seq(Filing)]
         /\ owned' \subseteq Filing /\ status' \in [Filing -> Status]
         /\ WaysStay /\ PublishedAreNoted
<1> USE DEF IInv, TypeOK, Store
<1>1. owned' \subseteq Filing /\ WaysStay
  BY DEF WaysStay
<1>2. created' \in [Exchange -> Seq(Filing)]
  <2>1. Append(created[exchangeOf[f]], f) \in Seq(Filing)
    BY AppendProperties
  <2> QED
    BY <2>1
<1>3. status' \in [Filing -> Status] /\ status'[f] \in {"AWAITING_PROCESSING", "UNRESOLVED_MAPPING"}
  BY DEF Status, Pending
<1>4. \A g \in Filing \ {f} : status'[g] = status[g]
  OBVIOUS
<1>5. PublishedAreNoted
  BY <1>3, <1>4 DEF PublishedAreNoted
<1> QED
  BY <1>1, <1>2, <1>3, <1>5

\* What the run has in hand stays in hand when the run does nothing.
LEMMA InHandStays ==
  ASSUME IInv, OriginalsStay, UNCHANGED work
  PROVE  InHand'
<1> SUFFICES ASSUME pc = "busy" PROVE InHand'
  BY DEF InHand, work
<1>1. Head(todo) \in Filing
  BY HeadTailProperties DEF IInv, TypeOK, InHand
<1>2. stored[Head(todo)] \subseteq stored'[Head(todo)]
  BY <1>1 DEF OriginalsStay
<1> QED
  BY <1>2 DEF IInv, InHand, work

LEMMA FoundStep ==
  ASSUME IInv, NEW f \in Filing, DiscoverNse(f) \/ DiscoverBse(f) \/ Register(f)
  PROVE  IInv'
<1>1. Store(f) /\ UNCHANGED <<identified, deferred, denied, stored, results, work, faults>>
  BY DEF DiscoverNse, DiscoverBse, Register
<1>2. ResultsStand /\ OriginalsStay
  BY <1>1 DEF ResultsStand, OriginalsStay
<1>3. TypeOK' /\ WaysStay /\ PublishedAreNoted
  BY <1>1, StoreEffect DEF WaysStay, IInv, TypeOK, work
<1>4. InHand'
  BY <1>1, <1>2, InHandStays
<1> QED
  BY <1>2, <1>3, <1>4, ResultsPreserved DEF IInv

LEMMA IdentifyStep ==
  ASSUME IInv, NEW x \in Exchange, Identify(x)
  PROVE  IInv'
<1>1. ResultsStand /\ OriginalsStay /\ WaysStay /\ PublishedAreNoted
  BY DEF Identify, filings, ResultsStand, OriginalsStay, WaysStay, PublishedAreNoted
<1>2. TypeOK'
  BY DEF Identify, filings, work, IInv, TypeOK
<1>3. InHand'
  BY <1>1, InHandStays DEF Identify
<1> QED
  BY <1>1, <1>2, <1>3, ResultsPreserved DEF IInv

LEMMA DueStep ==
  ASSUME IInv, NEW f \in Filing, Due(f)
  PROVE  IInv'
<1>1. ResultsStand /\ OriginalsStay /\ WaysStay /\ PublishedAreNoted
  BY DEF Due, filings, ResultsStand, OriginalsStay, WaysStay, PublishedAreNoted
<1>2. TypeOK'
  BY DEF Due, filings, work, IInv, TypeOK
<1>3. InHand'
  BY <1>1, InHandStays DEF Due
<1> QED
  BY <1>1, <1>2, <1>3, ResultsPreserved DEF IInv

-----------------------------------------------------------------------------
\* A run that begins has nothing in hand.
LEMMA BeginEffect ==
  ASSUME NEW files, Begin(files), status' \in [Filing -> Status]
  PROVE  /\ pc' = "busy" /\ todo' \in Seq(Filing) /\ place' = 0 /\ content' = "none" /\ any' = FALSE
         /\ seen' \in [Filing -> Status]
         /\ InHand'
<1>1. files \in Seq(Filing) /\ files # <<>> /\ Head(files) \in Filing
  BY HeadTailProperties DEF Begin
<1>2. Len(docs[Head(files)]) \in Nat
  BY <1>1
<1>3. pc' = "busy" /\ todo' = files /\ place' = 0 /\ content' = "none" /\ any' = FALSE
  BY DEF Begin
<1>4. seen' \in [Filing -> Status]
  BY DEF Begin, Status
<1>5. InHand'
  BY <1>1, <1>2, <1>3 DEF InHand
<1> QED
  BY <1>1, <1>3, <1>4, <1>5

LEMMA SelectStep ==
  ASSUME IInv, NEW x \in Exchange, Select(x)
  PROVE  IInv'
<1>1. PICK files : Begin(files)
  BY DEF Select
<1>2. /\ status' = status
      /\ UNCHANGED <<identified, filings, deferred, denied, stored, results, faults>>
  BY DEF Select
<1>3. ResultsStand /\ OriginalsStay /\ WaysStay /\ PublishedAreNoted
  BY <1>2 DEF filings, ResultsStand, OriginalsStay, WaysStay, PublishedAreNoted
<1>4. status' \in [Filing -> Status]
  BY <1>2 DEF IInv, TypeOK
<1>5. /\ pc' = "busy" /\ todo' \in Seq(Filing) /\ place' = 0 /\ content' = "none" /\ any' = FALSE
      /\ seen' \in [Filing -> Status] /\ InHand'
  BY <1>1, <1>4, BeginEffect
<1>6. TypeOK'
  BY <1>2, <1>4, <1>5 DEF IInv, TypeOK, filings
<1> QED
  BY <1>3, <1>5, <1>6, ResultsPreserved DEF IInv

LEMMA OfficialStep ==
  ASSUME IInv, NEW f \in Filing, DiscoverOfficial(f) \/ RetryOfficial(f)
  PROVE  IInv'
<1>1. Begin(<<f>>) /\ UNCHANGED <<identified, deferred, denied, stored, results, faults>>
  BY DEF DiscoverOfficial, RetryOfficial
<1>2. ResultsStand /\ OriginalsStay
  BY <1>1 DEF ResultsStand, OriginalsStay
<1>3. /\ created' \in [Exchange -> Seq(Filing)]
      /\ owned' \subseteq Filing /\ status' \in [Filing -> Status]
      /\ WaysStay /\ PublishedAreNoted
  <2>1. CASE DiscoverOfficial(f)
    BY <1>1, <2>1, StoreEffect DEF DiscoverOfficial
  <2>2. CASE RetryOfficial(f)
    BY <2>2 DEF RetryOfficial, filings, IInv, TypeOK, WaysStay, PublishedAreNoted
  <2> QED
    BY <2>1, <2>2
<1>4. /\ pc' = "busy" /\ todo' \in Seq(Filing) /\ place' = 0 /\ content' = "none" /\ any' = FALSE
      /\ seen' \in [Filing -> Status] /\ InHand'
  BY <1>1, <1>3, BeginEffect
<1>5. TypeOK'
  BY <1>1, <1>3, <1>4 DEF IInv, TypeOK, WaysStay
<1> QED
  BY <1>1, <1>2, <1>3, <1>4, <1>5, ResultsPreserved DEF IInv

-----------------------------------------------------------------------------
\* The run at work: the filing at the head of todo.
LEMMA AtWork ==
  ASSUME IInv, pc = "busy"
  PROVE  /\ Head(todo) \in Filing /\ Tail(todo) \in Seq(Filing)
         /\ Len(todo) # 1 => Tail(todo) # <<>>
         /\ Len(docs[Head(todo)]) \in Nat
<1>1. todo \in Seq(Filing) /\ todo # <<>>
  BY DEF IInv, TypeOK, InHand
<1>2. Head(todo) \in Filing /\ Tail(todo) \in Seq(Filing) /\ Len(Tail(todo)) = Len(todo) - 1
  BY <1>1, HeadTailProperties
<1>3. Len(todo) # 1 => Tail(todo) # <<>>
  <2>1. Len(todo) \in Nat /\ Len(todo) # 0
    BY <1>1, EmptySeq
  <2>2. Tail(todo) = <<>> => Len(Tail(todo)) = 0
    BY <1>2, EmptySeq
  <2> QED
    BY <1>2, <2>1, <2>2
<1>4. Len(docs[Head(todo)]) \in Nat
  BY <1>2
<1> QED
  BY <1>2, <1>3, <1>4

\* Reading an original that was kept.
LEMMA HandleEffect ==
  ASSUME IInv, pc = "busy", NEW f, f = Head(todo), Handle(f)
  PROVE  /\ ResultsStand
         /\ Reads(f, content) => Noted(f, results')
<1>1. f \in Filing
  BY AtWork
<1>2. CASE Reads(f, content)
  <2>1. PICK a \in stored[f] : a.content = content
    BY <1>2 DEF Reads, IInv, InHand
  <2>2. results' = Published(f, a.content)
    BY <1>2, <2>1 DEF Handle
  <2> QED
    BY <1>1, <1>2, <2>1, <2>2, PublishedResults DEF ResultsStand
<1>3. CASE ~Reads(f, content)
  BY <1>3 DEF Handle, ResultsStand
<1> QED
  BY <1>2, <1>3

\* The run may overwrite a status, but never says that a filing is published
\* which no revision names: what it does not change, it does not write.
LEMMA WriteEffect ==
  ASSUME IInv, NEW f \in Filing, NEW s, Write(f, s), way' = way,
         s = seen[f] \/ s \in {"DOWNLOAD_RETRY", "PARSING_REVIEW_REQUIRED"}
                     \/ (s = "PUBLISHED" /\ Noted(f, results'))
  PROVE  status' \in [Filing -> Status] /\ WaysStay /\ PublishedAreNoted
<1>1. status \in [Filing -> Status]
  BY DEF IInv, TypeOK
<1>2. CASE s = seen[f]
  BY <1>1, <1>2 DEF Write, WaysStay, PublishedAreNoted
<1>3. CASE s # seen[f]
  <2>1. status' = [status EXCEPT ![f] = s]
    BY <1>3 DEF Write
  <2>2. s \in Status \ {"none"} /\ (s = "PUBLISHED" => Noted(f, results'))
    BY <1>3 DEF Status, Pending
  <2>3. status' \in [Filing -> Status] /\ status'[f] = s
    BY <1>1, <2>1, <2>2
  <2>4. \A g \in Filing \ {f} : status'[g] = status[g]
    BY <1>1, <2>1
  <2>5. PublishedAreNoted
    BY <2>2, <2>3, <2>4 DEF PublishedAreNoted
  <2> QED
    BY <2>3, <2>5 DEF WaysStay
<1> QED
  BY <1>2, <1>3

LEMMA NextFilingEffect ==
  ASSUME IInv, pc = "busy", NextFiling
  PROVE  /\ pc' \in {"idle", "busy"} /\ todo' \in Seq(Filing) /\ place' \in Nat
         /\ content' = "none" /\ any' \in BOOLEAN /\ seen' \in [Filing -> Status]
         /\ InHand'
<1>1. /\ todo' = Tail(todo) /\ place' = 0 /\ content' = "none" /\ any' = FALSE
      /\ pc' = IF Len(todo) = 1 THEN "idle" ELSE "busy"
  BY DEF NextFiling
<1>2. seen' \in [Filing -> Status]
  BY DEF NextFiling, IInv, TypeOK, Status
<1>3. pc' = "busy" => todo' # <<>> /\ Head(todo') \in Filing
  <2>1. Tail(todo) \in Seq(Filing) /\ (Len(todo) # 1 => Tail(todo) # <<>>)
    BY AtWork
  <2> QED
    BY <1>1, <2>1, HeadTailProperties
<1>4. pc' = "busy" => Len(docs[Head(todo')]) \in Nat
  BY <1>3
<1>5. InHand'
  BY <1>1, <1>3, <1>4 DEF InHand
<1> QED
  BY <1>1, <1>2, <1>5, AtWork

LEMMA AbandonEffect ==
  ASSUME Abandon
  PROVE  /\ pc' = "idle" /\ todo' \in Seq(Filing) /\ place' = 0
         /\ content' = "none" /\ any' \in BOOLEAN /\ seen' \in [Filing -> Status]
         /\ InHand'
<1>1. Unloaded \in [Filing -> Status]
  BY DEF Unloaded, Status
<1>2. <<>> \in Seq(Filing)
  OBVIOUS
<1>3. pc' = "idle" /\ todo' = <<>> /\ seen' = Unloaded /\ place' = 0 /\ content' = "none" /\ any' = FALSE
  BY DEF Abandon
<1>4. any' \in BOOLEAN
  BY <1>3, Zenon
<1>5. InHand'
  BY <1>3 DEF InHand
<1> QED
  BY <1>1, <1>2, <1>3, <1>4, <1>5

-----------------------------------------------------------------------------
\* The next original is one that is kept, or one that arrives and is kept.
LEMMA InHandNext ==
  ASSUME IInv, NextOriginal
  PROVE  /\ stored' \in [Filing -> SUBSET Attachment] /\ content' \in Document
         /\ OriginalsStay
         /\ \E a \in stored'[Head(todo)] : a.content = content'
<1> DEFINE f == Head(todo)
           i == place + 1
<1>1. /\ f \in Filing /\ i \in DOMAIN docs[f] /\ i \in Nat
      /\ docs[f][i] \in Document /\ stored[f] \subseteq Attachment
  <2>1. f \in Filing /\ Len(docs[f]) \in Nat /\ place \in Nat /\ place < Len(docs[f])
    BY AtWork DEF NextOriginal, IInv, TypeOK
  <2>2. docs[f] \in Seq(Document)
    BY <2>1
  <2>3. i \in 1 .. Len(docs[f])
    BY <2>1
  <2> QED
    BY <2>1, <2>2, <2>3 DEF IInv, TypeOK
<1>2. CASE KeptOf(f, i) # {}
  <2>1. stored' = stored /\ \E a \in KeptOf(f, i) : content' = a.content
    BY <1>2 DEF NextOriginal
  <2> QED
    BY <1>1, <2>1 DEF KeptOf, Attachment, IInv, TypeOK, OriginalsStay
<1>3. CASE KeptOf(f, i) = {}
  <2> DEFINE d == docs[f][i]
             new == [link |-> i, content |-> d]
  <2>1. content' = d /\ Keep(f, i, d)
    BY <1>3 DEF NextOriginal
  <2>2. d \in Document /\ d \in Originals(f) /\ new \in Attachment /\ new.content = d
    BY <1>1 DEF Originals, Attachment
  <2> HIDE DEF d, f, i
  <2>3. CASE \E a \in stored[f] : a.content = d
    <3>1. stored' = stored
      BY <2>1, <2>3 DEF Keep
    <3> QED
      BY <2>1, <2>2, <2>3, <3>1 DEF IInv, TypeOK, OriginalsStay, f
  <2>4. CASE ~ \E a \in stored[f] : a.content = d
    <3> HIDE DEF new
    <3>1. stored' = [stored EXCEPT ![f] = @ \cup {new}]
      BY <2>1, <2>4 DEF Keep, new
    <3>2. stored'[f] = stored[f] \cup {new} /\ \A g \in Filing \ {f} : stored'[g] = stored[g]
      BY <1>1, <3>1 DEF IInv, TypeOK, f
    <3>3. OriginalsStay
      BY <2>2, <3>2 DEF OriginalsStay
    <3>4. stored' \in [Filing -> SUBSET Attachment]
      BY <1>1, <2>2, <3>1 DEF IInv, TypeOK, f
    <3> QED
      BY <2>1, <2>2, <3>2, <3>3, <3>4 DEF f
  <2> QED
    BY <2>3, <2>4
<1> QED
  BY <1>2, <1>3

LEMMA NextOriginalStep ==
  ASSUME IInv, NextOriginal
  PROVE  IInv'
<1> DEFINE f == Head(todo)
<1>1. pc = "busy" /\ place < Len(docs[f]) /\ Handle(f) /\ Write(f, HandledStatus(f))
  BY DEF NextOriginal
<1>2. /\ seen' = [seen EXCEPT ![f] = HandledStatus(f)]
      /\ any' = (any \/ Reads(f, content)) /\ place' = place + 1
      /\ UNCHANGED <<identified, filings, deferred, denied, pc, todo, faults>>
  BY DEF NextOriginal
<1>3. f \in Filing /\ Len(docs[f]) \in Nat /\ place \in Nat
  BY <1>1, AtWork DEF IInv, TypeOK
<1>4. /\ stored' \in [Filing -> SUBSET Attachment] /\ content' \in Document /\ OriginalsStay
      /\ \E a \in stored'[f] : a.content = content'
  BY InHandNext
<1> HIDE DEF f
<1>5. ResultsStand /\ (Reads(f, content) => Noted(f, results'))
  BY <1>1, HandleEffect DEF f
<1>6. status' \in [Filing -> Status] /\ WaysStay /\ PublishedAreNoted
  BY <1>1, <1>2, <1>3, <1>5, WriteEffect DEF HandledStatus, filings
<1>7. HandledStatus(f) \in Status
  BY <1>3 DEF HandledStatus, Status, IInv, TypeOK
<1>8. seen' \in [Filing -> Status]
  BY <1>2, <1>3, <1>7 DEF IInv, TypeOK
<1>9. any' \in BOOLEAN
  BY <1>2, Zenon DEF IInv, TypeOK
<1>10. results' \in Seq(Result)
  BY <1>5, StandingResults
<1>11. TypeOK'
  BY <1>2, <1>3, <1>4, <1>6, <1>8, <1>9, <1>10 DEF filings, IInv, TypeOK
<1>12. InHand'
  BY <1>1, <1>2, <1>3, <1>4 DEF f, IInv, InHand
<1> QED
  BY <1>4, <1>5, <1>6, <1>11, <1>12, ResultsPreserved DEF IInv

LEMMA DownloadFailsStep ==
  ASSUME IInv, DownloadFails
  PROVE  IInv'
<1> DEFINE f == Head(todo)
<1>1. /\ pc = "busy" /\ Handle(f) /\ Write(f, "DOWNLOAD_RETRY")
      /\ deferred' = deferred \cup {f}
      /\ \/ NextFiling /\ denied' = denied
         \/ Abandon /\ denied' = denied \cup {f}
      /\ UNCHANGED <<identified, filings, stored, faults>>
  BY DEF DownloadFails
<1>2. f \in Filing
  BY <1>1, AtWork
<1> HIDE DEF f
<1>3. ResultsStand
  BY <1>1, HandleEffect DEF f
<1>4. status' \in [Filing -> Status] /\ WaysStay /\ PublishedAreNoted
  BY <1>1, <1>2, WriteEffect DEF filings
<1>5. OriginalsStay
  BY <1>1 DEF OriginalsStay
<1>6. results' \in Seq(Result) /\ deferred' \subseteq Filing /\ denied' \subseteq Filing
  BY <1>1, <1>2, <1>3, StandingResults DEF IInv, TypeOK
<1>7. CASE NextFiling
  <2>1. TypeOK' /\ InHand'
    BY <1>1, <1>4, <1>6, <1>7, NextFilingEffect DEF filings, IInv, TypeOK
  <2> QED
    BY <1>3, <1>4, <1>5, <2>1, ResultsPreserved DEF IInv
<1>8. CASE Abandon
  <2>1. TypeOK' /\ InHand'
    BY <1>1, <1>4, <1>6, <1>8, AbandonEffect DEF filings, IInv, TypeOK
  <2> QED
    BY <1>3, <1>4, <1>5, <2>1, ResultsPreserved DEF IInv
<1> QED
  BY <1>1, <1>7, <1>8

LEMMA RefusedStep ==
  ASSUME IInv, Refused
  PROVE  IInv'
<1> DEFINE f == Head(todo)
<1>1. /\ pc = "busy" /\ Handle(f) /\ Write(f, "PARSING_REVIEW_REQUIRED")
      /\ deferred' = deferred \cup {f} /\ NextFiling
      /\ UNCHANGED <<identified, filings, denied, stored, faults>>
  BY DEF Refused
<1>2. f \in Filing
  BY <1>1, AtWork
<1> HIDE DEF f
<1>3. ResultsStand /\ OriginalsStay
  BY <1>1, HandleEffect DEF f, OriginalsStay
<1>4. status' \in [Filing -> Status] /\ WaysStay /\ PublishedAreNoted
  BY <1>1, <1>2, WriteEffect DEF filings
<1>5. results' \in Seq(Result) /\ deferred' \subseteq Filing
  BY <1>1, <1>2, <1>3, StandingResults DEF IInv, TypeOK
<1>6. TypeOK' /\ InHand'
  BY <1>1, <1>4, <1>5, NextFilingEffect DEF filings, IInv, TypeOK
<1> QED
  BY <1>3, <1>4, <1>6, ResultsPreserved DEF IInv

LEMMA ReviewStep ==
  ASSUME IInv, Review
  PROVE  IInv'
<1> DEFINE f == Head(todo)
<1>1. /\ pc = "busy" /\ Write(f, "PARSING_REVIEW_REQUIRED")
      /\ deferred' = deferred \cup {f} /\ NextFiling
      /\ UNCHANGED <<identified, filings, denied, stored, results, faults>>
  BY DEF Review
<1>2. f \in Filing
  BY <1>1, AtWork
<1> HIDE DEF f
<1>3. ResultsStand /\ OriginalsStay
  BY <1>1 DEF ResultsStand, OriginalsStay
<1>4. status' \in [Filing -> Status] /\ WaysStay /\ PublishedAreNoted
  BY <1>1, <1>2, WriteEffect DEF filings
<1>5. deferred' \subseteq Filing
  BY <1>1, <1>2 DEF IInv, TypeOK
<1>6. TypeOK' /\ InHand'
  BY <1>1, <1>4, <1>5, NextFilingEffect DEF filings, IInv, TypeOK
<1> QED
  BY <1>3, <1>4, <1>6, ResultsPreserved DEF IInv

LEMMA FinishFilingStep ==
  ASSUME IInv, FinishFiling
  PROVE  IInv'
<1> DEFINE f == Head(todo)
<1>1. /\ pc = "busy" /\ Handle(f) /\ Write(f, Outcome(f)) /\ (NextFiling \/ Abandon)
      /\ UNCHANGED <<identified, filings, deferred, denied, stored, faults>>
  BY DEF FinishFiling
<1>2. f \in Filing
  BY <1>1, AtWork
<1> HIDE DEF f
<1>3. ResultsStand /\ (Reads(f, content) => Noted(f, results'))
  BY <1>1, HandleEffect DEF f
<1>4. \/ Outcome(f) = seen[f] \/ Outcome(f) = "PARSING_REVIEW_REQUIRED"
      \/ Outcome(f) = "PUBLISHED" /\ Reads(f, content)
  BY DEF Outcome, HandledStatus
<1>5. status' \in [Filing -> Status] /\ WaysStay /\ PublishedAreNoted
  BY <1>1, <1>2, <1>3, <1>4, WriteEffect DEF filings
<1>6. OriginalsStay
  BY <1>1 DEF OriginalsStay
<1>7. results' \in Seq(Result)
  BY <1>3, StandingResults
<1>8. CASE NextFiling
  <2>1. TypeOK' /\ InHand'
    BY <1>1, <1>5, <1>7, <1>8, NextFilingEffect DEF filings, IInv, TypeOK
  <2> QED
    BY <1>3, <1>5, <1>6, <2>1, ResultsPreserved DEF IInv
<1>9. CASE Abandon
  <2>1. TypeOK' /\ InHand'
    BY <1>1, <1>5, <1>7, <1>9, AbandonEffect DEF filings, IInv, TypeOK
  <2> QED
    BY <1>3, <1>5, <1>6, <2>1, ResultsPreserved DEF IInv
<1> QED
  BY <1>1, <1>8, <1>9

LEMMA TimeIsUpStep ==
  ASSUME IInv, TimeIsUp
  PROVE  IInv'
<1> DEFINE f == Head(todo)
<1>1. /\ pc = "busy" /\ Handle(f) /\ Write(f, HandledStatus(f)) /\ Abandon
      /\ faults' = faults \/ (faults < MaxFaults /\ faults' = faults + 1)
      /\ UNCHANGED <<identified, filings, deferred, denied, stored>>
  BY DEF TimeIsUp
<1>2. f \in Filing
  BY <1>1, AtWork
<1> HIDE DEF f
<1>3. ResultsStand /\ (Reads(f, content) => Noted(f, results'))
  BY <1>1, HandleEffect DEF f
<1>4. status' \in [Filing -> Status] /\ WaysStay /\ PublishedAreNoted
  BY <1>1, <1>2, <1>3, WriteEffect DEF filings, HandledStatus
<1>5. OriginalsStay
  BY <1>1 DEF OriginalsStay
<1>6. results' \in Seq(Result) /\ faults' \in 0 .. MaxFaults
  BY <1>1, <1>3, StandingResults DEF IInv, TypeOK
<1>7. TypeOK' /\ InHand'
  BY <1>1, <1>4, <1>6, AbandonEffect DEF filings, IInv, TypeOK
<1> QED
  BY <1>3, <1>4, <1>5, <1>7, ResultsPreserved DEF IInv

LEMMA KilledStep ==
  ASSUME IInv, Killed
  PROVE  IInv'
<1>1. /\ Abandon /\ faults < MaxFaults /\ faults' = faults + 1
      /\ UNCHANGED <<identified, filings, status, deferred, denied, stored, results>>
  BY DEF Killed
<1>2. ResultsStand /\ OriginalsStay /\ WaysStay /\ PublishedAreNoted
  BY <1>1 DEF filings, ResultsStand, OriginalsStay, WaysStay, PublishedAreNoted
<1>3. faults' \in 0 .. MaxFaults
  BY <1>1 DEF IInv, TypeOK
<1>4. TypeOK' /\ InHand'
  BY <1>1, <1>3, AbandonEffect DEF filings, IInv, TypeOK
<1> QED
  BY <1>2, <1>4, ResultsPreserved DEF IInv

-----------------------------------------------------------------------------
\* What an administrator uploads is kept beside the others, or not at all.
LEMMA UploadKeeps ==
  ASSUME IInv, NEW f \in Filing, NEW d \in uploads[f], Upload(f, d)
  PROVE  stored' \in [Filing -> SUBSET Attachment] /\ OriginalsStay
<1>1. CASE stored' = stored
  BY <1>1 DEF IInv, TypeOK, OriginalsStay
<1>2. CASE stored' # stored
  <2>1. PICK i \in {0, 1} : stored' = [stored EXCEPT ![f] = @ \cup {[link |-> i, content |-> d]}]
    BY <1>2 DEF Upload, Keep
  <2> DEFINE new == [link |-> i, content |-> d]
  <2>2. new \in Attachment /\ new.content \in Originals(f)
    BY DEF Attachment, Originals
  <2>3. stored' = [stored EXCEPT ![f] = @ \cup {new}]
    BY <2>1
  <2> HIDE DEF new
  <2>4. stored' \in [Filing -> SUBSET Attachment]
    BY <2>2, <2>3 DEF IInv, TypeOK
  <2>5. stored'[f] = stored[f] \cup {new} /\ \A g \in Filing \ {f} : stored'[g] = stored[g]
    BY <2>3 DEF IInv, TypeOK
  <2> QED
    BY <2>2, <2>4, <2>5 DEF OriginalsStay
<1> QED
  BY <1>1, <1>2

LEMMA UploadStep ==
  ASSUME IInv, NEW f \in Filing, NEW d \in uploads[f], Upload(f, d)
  PROVE  IInv'
<1>1. /\ status[f] # "none"
      /\ status' = status \/ status' = [status EXCEPT ![f] = "PARSING_REVIEW_REQUIRED"]
      /\ UNCHANGED <<identified, filings, deferred, denied, results, work, faults>>
  BY DEF Upload
<1>2. ResultsStand
  BY <1>1 DEF ResultsStand
<1>3. stored' \in [Filing -> SUBSET Attachment] /\ OriginalsStay
  BY UploadKeeps
<1>4. status' \in [Filing -> Status] /\ WaysStay /\ PublishedAreNoted
  BY <1>1 DEF IInv, TypeOK, Status, filings, WaysStay, PublishedAreNoted
<1>5. TypeOK'
  BY <1>1, <1>3, <1>4 DEF IInv, TypeOK, filings, work
<1>6. InHand'
  BY <1>1, <1>3, InHandStays
<1> QED
  BY <1>2, <1>3, <1>4, <1>5, <1>6, ResultsPreserved DEF IInv

LEMMA PublishStep ==
  ASSUME IInv, NEW f \in Filing, NEW a \in stored[f], Publish(f, a)
  PROVE  IInv'
<1>1. /\ Reads(f, a.content) /\ results' = Published(f, a.content)
      /\ status' = [status EXCEPT ![f] = "PUBLISHED"]
      /\ UNCHANGED <<identified, filings, deferred, denied, stored, work, faults>>
  BY DEF Publish
<1>2. ResultsStand /\ Noted(f, results')
  BY <1>1, PublishedResults DEF ResultsStand
<1>3. OriginalsStay
  BY <1>1 DEF OriginalsStay
<1>4. status' \in [Filing -> Status] /\ WaysStay /\ PublishedAreNoted
  BY <1>1, <1>2 DEF IInv, TypeOK, Status, filings, WaysStay, PublishedAreNoted
<1>5. results' \in Seq(Result)
  BY <1>2, StandingResults
<1>6. TypeOK'
  BY <1>1, <1>4, <1>5 DEF IInv, TypeOK, filings, work
<1>7. InHand'
  BY <1>1, <1>3, InHandStays
<1> QED
  BY <1>2, <1>3, <1>4, <1>6, <1>7, ResultsPreserved DEF IInv

LEMMA MapStep ==
  ASSUME IInv, NEW f \in Filing, Map(f)
  PROVE  IInv'
<1>1. /\ status[f] # "none"
      /\ identified' = identified \cup {exchangeOf[f]} /\ owned' = owned \cup {f}
      /\ status' = [status EXCEPT ![f] = "AWAITING_PROCESSING"]
      /\ UNCHANGED <<way, created, deferred, denied, stored, results, work, faults>>
  BY DEF Map
<1>2. ResultsStand /\ OriginalsStay
  BY <1>1 DEF ResultsStand, OriginalsStay
<1>3. status' \in [Filing -> Status] /\ WaysStay /\ PublishedAreNoted
  BY <1>1 DEF IInv, TypeOK, Status, Pending, WaysStay, PublishedAreNoted
<1>4. TypeOK'
  BY <1>1, <1>3 DEF IInv, TypeOK, work
<1>5. InHand'
  BY <1>1, <1>2, InHandStays
<1> QED
  BY <1>2, <1>3, <1>4, <1>5, ResultsPreserved DEF IInv

LEMMA StutterStep ==
  ASSUME IInv, UNCHANGED vars
  PROVE  IInv'
<1>1. TypeOK'
  BY DEF IInv, TypeOK, vars, filings
<1>2. ResultsStand /\ OriginalsStay /\ WaysStay /\ PublishedAreNoted
  BY DEF vars, filings, ResultsStand, OriginalsStay, WaysStay, PublishedAreNoted
<1>3. InHand'
  BY <1>2, InHandStays DEF vars, work
<1> QED
  BY <1>1, <1>2, <1>3, ResultsPreserved DEF IInv

LEMMA NextIInv == IInv /\ [Next]_vars => IInv'
<1> SUFFICES ASSUME IInv, [Next]_vars PROVE IInv'
  OBVIOUS
<1>1. ASSUME NEW f \in Filing, Discover(f) PROVE IInv'
  BY <1>1, FoundStep, OfficialStep DEF Discover
<1>2. ASSUME NEW f \in Filing, Due(f) PROVE IInv'
  BY <1>2, DueStep
<1>3. ASSUME NEW f \in Filing, Administrator(f) PROVE IInv'
  <2>1. CASE Register(f)
    BY <2>1, FoundStep
  <2>2. CASE Map(f)
    BY <2>2, MapStep
  <2>3. ASSUME NEW d \in uploads[f], Upload(f, d) PROVE IInv'
    BY <2>3, UploadStep
  <2>4. ASSUME NEW a \in stored[f], Publish(f, a) PROVE IInv'
    BY <2>4, PublishStep
  <2> QED
    BY <1>3, <2>1, <2>2, <2>3, <2>4 DEF Administrator
<1>4. ASSUME NEW x \in Exchange, Identify(x) PROVE IInv'
  BY <1>4, IdentifyStep
<1>5. ASSUME NEW x \in Exchange, Select(x) PROVE IInv'
  BY <1>5, SelectStep
<1>6. CASE Run
  BY <1>6, NextOriginalStep, DownloadFailsStep, RefusedStep, ReviewStep, FinishFilingStep DEF Run
<1>7. CASE TimeIsUp \/ Killed
  BY <1>7, TimeIsUpStep, KilledStep
<1>8. CASE UNCHANGED vars
  BY <1>8, StutterStep
<1> QED
  BY <1>1, <1>2, <1>3, <1>4, <1>5, <1>6, <1>7, <1>8 DEF Next

-----------------------------------------------------------------------------
\* The inductive invariant holds throughout.
THEOREM Invariant == Spec => []IInv
<1>1. IInv /\ [Next]_vars => IInv'
  BY NextIInv
<1> QED
  BY InitIInv, <1>1, PTL DEF Spec

\* Revisions of a period are published in the order of their announcements,
\* and the latest alone is current (results.py:publish).
THEOREM RevisionsInOrder == Spec => []RevisionsAscend
<1>1. IInv => RevisionsAscend
  BY DEF IInv
<1> QED
  BY Invariant, <1>1, PTL

\* What a revision reports is kept for each filing it names, and what is said to
\* be published is named (results.py:process, publish).
THEOREM PublishedStands == Spec => []PublishedIsKept
<1>1. IInv => PublishedIsKept
  BY DEF IInv
<1> QED
  BY Invariant, <1>1, PTL

-----------------------------------------------------------------------------
LEMMA NextPublishesOne ==
  ASSUME IInv, [Next]_vars
  PROVE  ResultsStand
<1>1. ASSUME NEW f \in Filing, Discover(f) \/ Due(f) PROVE ResultsStand
  BY <1>1 DEF Discover, DiscoverNse, DiscoverBse, DiscoverOfficial, RetryOfficial, Due, ResultsStand
<1>2. ASSUME NEW f \in Filing, Administrator(f) PROVE ResultsStand
  BY <1>2 DEF Administrator, Register, Map, Upload, Publish, ResultsStand
<1>3. ASSUME NEW x \in Exchange, Identify(x) \/ Select(x) PROVE ResultsStand
  BY <1>3 DEF Identify, Select, ResultsStand
<1>4. CASE NextOriginal
  BY <1>4, HandleEffect DEF NextOriginal
<1>5. CASE DownloadFails \/ Refused
  BY <1>5, HandleEffect DEF DownloadFails, Refused
<1>6. CASE FinishFiling
  BY <1>6, HandleEffect DEF FinishFiling
<1>7. CASE TimeIsUp
  BY <1>7, HandleEffect DEF TimeIsUp
<1>8. CASE Review \/ Killed
  BY <1>8 DEF Review, Killed, ResultsStand
<1>9. CASE UNCHANGED vars
  BY <1>9 DEF vars, ResultsStand
<1> QED
  BY <1>1, <1>2, <1>3, <1>4, <1>5, <1>6, <1>7, <1>8, <1>9 DEF Next, Run

\* Seen by readers, publishing an original confirms the last revision or follows it.
LEMMA PublishingIsAStep ==
  ASSUME IInv, NEW f \in Filing, NEW a \in stored[f], Reads(f, a.content),
         results' = Published(f, a.content)
  PROVE  Readers!Next
<1> DEFINE facts == a.content
           n == Len(results)
           Reports == [g \in Filing |-> ({docs[g][i] : i \in DOMAIN docs[g]} \cup uploads[g]) \cap Facts]
           Seen(r) == [filing |-> r.filing, facts |-> r.facts, named |-> r.provenance]
<1>1. /\ facts \in Reports[f] /\ Announced(f) = date[f]
      /\ \A j \in Current : Same(j, facts) \/ Replaces(f, j)
  BY DEF Reads, Publishable, Announced, IInv, Kept, Originals
<1>2. /\ results \in Seq(Result) /\ n \in Nat /\ DOMAIN results = 1 .. n
      /\ \A j \in 1 .. n : results[j] \in Result /\ Announced(results[j].filing) = date[results[j].filing]
  <2>1. results \in Seq(Result) /\ n \in Nat /\ DOMAIN results = 1 .. n
    BY DEF IInv, TypeOK
  <2>2. \A j \in 1 .. n : results[j] \in Result
    BY <2>1
  <2>3. \A j \in 1 .. n : results[j].filing \in Filing
    BY <2>2 DEF Result
  <2> QED
    BY <2>1, <2>2, <2>3 DEF IInv, Dated, Announced
<1>3. \A j \in 1 .. n : j \in Current <=> j = n
  BY <1>2 DEF Current, IInv, RevisionsAscend
<1> DEFINE S == {Seen(results[j]) : j \in 1 .. n}
<1>4. historyOf \in Seq(S) /\ Len(historyOf) = n
  <2>1. historyOf \in [1 .. n -> S]
    BY <1>2 DEF historyOf
  <2> HIDE DEF S, n
  <2> QED
    BY <1>2, <2>1, AsSequence
<1>5. /\ \A j \in 1 .. n : historyOf[j] = Seen(results[j])
      /\ \A j \in 1 .. n : /\ historyOf[j].filing = results[j].filing
                         /\ historyOf[j].facts = results[j].facts
  BY <1>2 DEF historyOf
<1>6. historyOf # <<>> => n \in 1 .. n
  BY <1>2, <1>4
<1> HIDE DEF facts, n, S
<1>7. CASE \E j \in Current : Same(j, facts)
  <2>1. n \in 1 .. n /\ results[n].facts = facts
    BY <1>2, <1>3, <1>7 DEF Current, Same
  <2>2. results' = [j \in 1 .. n |-> IF j \in Current
                      THEN [results[j] EXCEPT !.provenance = @ \cup {f}] ELSE results[j]]
    BY <1>2, <1>7 DEF Published, facts
  <2>3. DOMAIN results' = 1 .. n
    BY <2>2
  <2>4. historyOf' = [j \in 1 .. n |-> Seen(results'[j])]
    BY <2>3 DEF historyOf
  <2>5. \A j \in 1 .. n : j # n => results'[j] = results[j]
    BY <1>3, <2>2
  <2>6. results'[n] = [results[n] EXCEPT !.provenance = @ \cup {f}]
    BY <1>3, <2>1, <2>2
  <2>7. Seen(results'[n]) = [Seen(results[n]) EXCEPT !.named = @ \cup {f}]
    <3> DEFINE noted == results[n].provenance \cup {f}
    <3>1. results[n] \in Result
      BY <1>2, <2>1
    <3>2. results'[n] = [results[n] EXCEPT !.provenance = noted]
      BY <2>6
    <3>3. Seen(results[n]).named = results[n].provenance
      OBVIOUS
    <3> HIDE DEF noted
    <3>4. /\ results'[n].filing = results[n].filing /\ results'[n].facts = results[n].facts
          /\ results'[n].provenance = noted
      BY <3>1, <3>2 DEF Result
    <3>5. Seen(results'[n]) = [Seen(results[n]) EXCEPT !.named = noted]
      BY <3>4
    <3> QED
      BY <3>3, <3>5 DEF noted
  <2>8. historyOf' = [historyOf EXCEPT ![n] = [historyOf[n] EXCEPT !.named = @ \cup {f}]]
    <3> DEFINE confirmed == [historyOf[n] EXCEPT !.named = @ \cup {f}]
               amended == [historyOf EXCEPT ![n] = confirmed]
    <3>1. DOMAIN historyOf = 1 .. n
      BY <1>2 DEF historyOf
    <3>2. amended = [historyOf EXCEPT ![n] = [historyOf[n] EXCEPT !.named = @ \cup {f}]]
      OBVIOUS
    <3>3. confirmed = Seen(results'[n])
      <4>1. historyOf[n] = Seen(results[n])
        BY <1>5, <2>1
      <4> HIDE DEF Seen
      <4> QED
        BY <2>7, <4>1
    <3> HIDE DEF confirmed, Seen
    <3>4. \A j \in 1 .. n : amended[j] = IF j = n THEN confirmed ELSE historyOf[j]
      BY <3>1
    <3>5. \A j \in 1 .. n : amended[j] = Seen(results'[j])
      BY <1>5, <2>5, <3>3, <3>4
    <3>6. amended = [j \in 1 .. n |-> amended[j]]
      BY <3>1
    <3> HIDE DEF amended
    <3> QED
      BY <2>4, <3>2, <3>5, <3>6
  <2>9. historyOf # <<>> /\ historyOf[Len(historyOf)].facts \in Reports[f]
    BY <1>1, <1>4, <1>5, <2>1
  <2>10. Readers!Confirm(f)
    BY <1>4, <2>8, <2>9 DEF Readers!Confirm, Readers!Last
  <2> QED
    BY <2>10 DEF Readers!Next
<1>8. CASE ~ \E j \in Current : Same(j, facts)
  <2> DEFINE past == [j \in 1 .. n |-> [results[j] EXCEPT !.current = FALSE]]
             new == [filing |-> f, facts |-> facts, provenance |-> {f}, current |-> TRUE]
             viewed == [filing |-> f, facts |-> facts, named |-> {f}]
  <2>1. results' = Append(past, new)
    BY <1>2, <1>8 DEF Published, facts
  <2>2. \A j \in 1 .. n : Seen(past[j]) = Seen(results[j])
    BY <1>2 DEF Result
  <2>3. \E T : past \in Seq(T) /\ Len(past) = n
    <3> DEFINE T == {past[j] : j \in 1 .. n}
    <3>1. past \in [1 .. n -> T]
      OBVIOUS
    <3> HIDE DEF past, T
    <3> QED
      BY <1>2, <3>1, AsSequence
  <2>4. Seen(new) = viewed
    OBVIOUS
  <2> HIDE DEF past, new, Seen
  <2>5. /\ DOMAIN results' = 1 .. n + 1
        /\ \A j \in 1 .. n : results'[j] = past[j]
        /\ results'[n + 1] = new
    BY <1>2, <2>1, <2>3, AppendProperties
  <2>6. historyOf' = [j \in 1 .. n + 1 |-> Seen(results'[j])]
    BY <2>5 DEF historyOf, Seen
  <2>7. Append(historyOf, viewed) = [j \in 1 .. n + 1 |-> IF j = n + 1 THEN viewed ELSE historyOf[j]]
    BY <1>2, <1>4
  <2>8. \A j \in 1 .. n + 1 : Seen(results'[j]) = IF j = n + 1 THEN viewed ELSE historyOf[j]
    <3>1. \A j \in 1 .. n + 1 : j = n + 1 \/ j \in 1 .. n
      BY <1>2
    <3> QED
      BY <1>5, <2>2, <2>4, <2>5, <3>1
  <2>9. historyOf' = Append(historyOf, viewed)
    BY <2>6, <2>7, <2>8
  <2>10. historyOf # <<>> =>
           /\ date[historyOf[n].filing] < date[f]
           /\ exchangeOf[historyOf[n].filing] = exchangeOf[f]
           /\ historyOf[n].facts # facts
    <3> SUFFICES ASSUME historyOf # <<>>
                 PROVE  /\ date[historyOf[n].filing] < date[f]
                        /\ exchangeOf[historyOf[n].filing] = exchangeOf[f]
                        /\ historyOf[n].facts # facts
      OBVIOUS
    <3>1. n \in 1 .. n /\ Replaces(f, n) /\ ~Same(n, facts)
      BY <1>1, <1>3, <1>6, <1>8
    <3>2. historyOf[n].filing = results[n].filing /\ historyOf[n].facts = results[n].facts
      BY <1>5, <3>1
    <3>3. /\ date[results[n].filing] \in Nat /\ date[f] \in Nat
          /\ Announced(results[n].filing) = date[results[n].filing]
      BY <1>2, <3>1 DEF Result
    <3> QED
      BY <1>1, <3>1, <3>2, <3>3 DEF Replaces, Later, Same
  <2>11. Readers!Revise(f, facts)
    BY <1>4, <2>9, <2>10 DEF Readers!Revise, Readers!Last
  <2> QED
    BY <1>1, <2>11 DEF Readers!Next
<1> QED
  BY <1>7, <1>8

\* However runs, retries, crashes and administrators interleave, what readers
\* see of a period is RevisionHistory (results.py, result_routes.py:publish).
THEOREM PeriodIsRevisionHistory == Spec => ImplementsRevisionHistory
<1>1. Init => Readers!Init
  <2> SUFFICES ASSUME Init PROVE historyOf = <<>>
    BY DEF Readers!Init
  <2>1. DOMAIN results = {}
    BY DEF Init
  <2> QED
    BY <2>1 DEF historyOf
<1>2. IInv /\ [Next]_vars => [Readers!Next]_historyOf
  <2> SUFFICES ASSUME IInv, [Next]_vars PROVE Readers!Next \/ historyOf' = historyOf
    OBVIOUS
  <2>1. CASE results' = results
    BY <2>1 DEF historyOf
  <2>2. ASSUME NEW f \in Filing, NEW a \in stored[f], Reads(f, a.content),
               results' = Published(f, a.content)
        PROVE  Readers!Next
    BY <2>2, PublishingIsAStep
  <2> QED
    BY <2>1, <2>2, NextPublishesOne DEF ResultsStand
<1> QED
  BY Invariant, <1>1, <1>2, PTL DEF Spec, ImplementsRevisionHistory, Readers!Spec
=============================================================================
