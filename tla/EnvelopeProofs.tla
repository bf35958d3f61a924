---------------------------- MODULE EnvelopeProofs ----------------------------
(***************************************************************************)
(* Seal for every conversion and every set of limits: what was handed out  *)
(* goes on verifying, references keep their meaning, and sealing           *)
(* implements the one decision of Sealing.  Custody for every set of       *)
(* envelopes: the canonical order is one, and two faults show.             *)
(***************************************************************************)
EXTENDS Seal, Custody, RequestBudgetProofs, FiniteSetTheorems, WellFoundedInduction

\* What a byte slice can hold, and the drafts there can be.
Data    == Nat \cup Seq(Token)
Store   == [data : Data, size : Nat, present : BOOLEAN]
Content == {"sha256"} \X Data \X Nat
DraftSet == [look : Nat, store : Nat, identity : Content, length : Nat,
             occurrence : Nat, raw : Nat]

Shapes ==
    /\ conversion \in Conversion
    /\ heap \in Seq(Store) /\ Len(heap) >= Len(Owned)
    /\ drafts \in Seq(DraftSet)
    /\ tokens \in Seq(Token)

\* The owners write to their buffers only after the call.
Lent == pc # "returned" => \A k \in DOMAIN Owned : heap[k] = Owned[k]

\* A draft is an artifact of the conversion in a store of its own.
Faithful(d, h, c) ==
    LET raw == c.artifacts[d.raw]
    IN  /\ d.raw \in DOMAIN c.artifacts
        /\ d.store \in (Len(Owned) + 1)..Len(h)
        /\ d.look = raw.look
        /\ d.occurrence = raw.occurrence
        /\ h[d.store].data = Owned[raw.slice].data
        /\ h[d.store].size = Owned[raw.slice].size

Copied == \A i \in DOMAIN drafts : Faithful(drafts[i], heap, conversion)

\* The source has been copied from the moment there are drafts to make.
SourceCopied == pc \notin {"start", "returned"} => Len(heap) >= SourceStore

\* A token of the Markdown names the draft of the artifact it named.
Names(t, given) ==
    IF conversion.rewrite /\ given.opened
    THEN /\ t.opened
         /\ t.ordinal \in DOMAIN drafts
         /\ drafts[t.ordinal].raw = given.ordinal
    ELSE t = given

Renamed ==
    /\ DOMAIN tokens = DOMAIN conversion.tokens
    /\ \A i \in DOMAIN tokens : Names(tokens[i], conversion.tokens[i])

Linked ==
    /\ pc \in {"start", "drafting", "rewriting"} => tokens = conversion.tokens
    /\ pc \in {"assembling", "verifying"} \/ outcome = "ok" =>
          /\ Renamed
          /\ Len(heap) > SourceStore
          /\ heap[Len(heap)].data = tokens

\* The envelope shows the copies.
Shown ==
    pc = "verifying" \/ outcome = "ok" =>
        /\ View = envelope
        /\ envelope.source.bytes.store = SourceStore
        /\ envelope.primary.bytes.store = Len(heap)
        /\ envelope.primary.bytes.data = tokens
        /\ DOMAIN envelope.artifacts = DOMAIN drafts
        /\ \A i \in DOMAIN drafts :
              /\ envelope.artifacts[i].bytes.store = drafts[i].store
              /\ envelope.artifacts[i].look = drafts[i].look
              /\ envelope.artifacts[i].relations[1].occurrence = drafts[i].occurrence

Decided ==
    /\ outcome = "ok" => pc = "returned" /\ VerifyEnvelope(envelope)
    /\ pc # "returned" => outcome = "pending"

Charged == ledger \in Ledger /\ WithinLimits(ledger)

SealInv == Shapes /\ Charged /\ Lent /\ Copied /\ SourceCopied /\ Linked /\ Shown /\ Decided

-----------------------------------------------------------------------------
(* The types of what a conversion and the owners' buffers are made of.     *)
LEMMA OwnedTypes ==
    /\ Len(Owned) \in Nat \ {0}
    /\ DOMAIN Owned = 1..Len(Owned)
    /\ \A k \in 1..Len(Owned) : Owned[k] \in Store
    /\ Owned \in Seq(Store)
<1>1. Owned \in Seq(Slice) /\ Owned # <<>>
  BY SealAssumption
<1>2. Slice \subseteq Store
  BY DEF Slice, Store, Data
<1>3. QED
  BY <1>1, <1>2

LEMMA ConversionTypes ==
    ASSUME Shapes
    PROVE  /\ conversion.artifacts \in Seq(Raw)
           /\ conversion.tokens \in Seq(Token)
           /\ conversion.text \in Nat
           /\ Len(heap) \in Nat /\ DOMAIN heap = 1..Len(heap)
           /\ \A k \in 1..Len(heap) : heap[k] \in Store
           /\ \A n \in DOMAIN conversion.artifacts :
                 /\ conversion.artifacts[n] \in Raw
                 /\ conversion.artifacts[n].slice \in 1..Len(Owned)
                 /\ conversion.artifacts[n].slice \in 1..Len(heap)
<1>1. conversion.artifacts \in Seq(Raw) /\ conversion.tokens \in Seq(Token) /\ conversion.text \in Nat
  BY DEF Shapes, Conversion
<1>2. \A n \in DOMAIN conversion.artifacts : conversion.artifacts[n] \in Raw
  BY <1>1
<1>3. \A n \in DOMAIN conversion.artifacts : conversion.artifacts[n].slice \in DOMAIN Owned
  BY <1>2 DEF Raw
<1>4. heap \in Seq(Store) /\ Len(heap) >= Len(Owned)
  BY DEF Shapes
<1>5. Len(heap) \in Nat /\ DOMAIN heap = 1..Len(heap) /\ \A k \in 1..Len(heap) : heap[k] \in Store
  BY <1>4
<1>6. QED
  BY <1>1, <1>2, <1>3, <1>4, <1>5, OwnedTypes

(* cloneExactBytes only adds: what there was stays where it was            *)
(* (ingestion.go:466-474).                                                 *)
LEMMA Grows ==
    ASSUME Shapes, NEW s \in Store, heap' = Append(heap, s), conversion' = conversion
    PROVE  /\ heap' \in Seq(Store)
           /\ Len(heap') = Len(heap) + 1 /\ Len(heap) \in Nat
           /\ \A k \in 1..Len(heap) : heap'[k] = heap[k]
           /\ heap'[Len(heap) + 1] = s
           /\ \A d : Faithful(d, heap, conversion) => Faithful(d, heap', conversion)
           /\ Lent /\ (pc' # "returned" => pc # "returned") => Lent'
<1>1. heap \in Seq(Store) /\ Len(heap) >= Len(Owned)
  BY DEF Shapes
<1>2. /\ heap' \in Seq(Store)
      /\ Len(heap') = Len(heap) + 1 /\ Len(heap) \in Nat
      /\ \A k \in 1..Len(heap) : heap'[k] = heap[k]
      /\ heap'[Len(heap) + 1] = s
  BY <1>1
<1>3. ASSUME NEW d, Faithful(d, heap, conversion) PROVE Faithful(d, heap', conversion)
  BY <1>2, <1>3, OwnedTypes DEF Faithful
<1>4. Lent /\ (pc' # "returned" => pc # "returned") => Lent'
  BY <1>1, <1>2, OwnedTypes DEF Lent
<1>5. QED
  BY <1>2, <1>3, <1>4

(* Before the first step nothing is copied and the ledger has only been   *)
(* charged for the source (ingestion.go:93-137).                           *)
LEMMA InitSeals == Init => SealInv
<1> SUFFICES ASSUME Init PROVE SealInv
  OBVIOUS
<1>1. Shapes
  <2>1. conversion \in Conversion
    BY SealAssumption DEF Init
  <2>2. conversion.tokens \in Seq(Token)
    BY <2>1 DEF Conversion
  <2>3. <<>> \in Seq(DraftSet)
    OBVIOUS
  <2>4. QED
    BY <2>1, <2>2, <2>3, OwnedTypes DEF Init, Shapes
<1>2. Charged
  BY ZeroLedgerFits, SourceCharges, OwnedTypes DEF Init, Charged, Charges, Store
<1>3. Lent /\ Copied /\ SourceCopied /\ Linked /\ Shown /\ Decided
  BY DEF Init, Lent, Copied, SourceCopied, Linked, Shown, Decided
<1>4. QED
  BY <1>1, <1>2, <1>3 DEF SealInv

-----------------------------------------------------------------------------
(* The steps before there is an envelope.  A step that returns an error    *)
(* leaves nothing to be held to but the types.                             *)
LEMMA FailedStep ==
    ASSUME SealInv, Shapes', Charged', Copied', Lent',
           pc' = "returned", outcome' # "ok"
    PROVE  SealInv'
  BY DEF SealInv, SourceCopied, Linked, Shown, Decided

(* The source is copied into the first new store (ingestion.go:255-263).   *)
LEMMA StartSeals == SealInv /\ Start => SealInv'
<1> SUFFICES ASSUME SealInv, Start PROVE SealInv'
  OBVIOUS
<1>1. UNCHANGED <<conversion, ledger, cancelled, drafts, tokens, envelope>> /\ pc = "start"
  BY DEF Start
<1>2. Charged'
  BY <1>1 DEF SealInv, Charged, WithinLimits
<1>3. CASE cancelled \/ conversion.foreign
  <2>1. heap' = heap /\ pc' = "returned" /\ outcome' # "ok"
    BY <1>3 DEF Start, Return
  <2>2. Shapes' /\ Lent' /\ Copied'
    BY <1>1, <2>1 DEF SealInv, Shapes, Lent, Copied
  <2>3. QED
    BY <1>2, <2>1, <2>2, FailedStep
<1>4. CASE ~(cancelled \/ conversion.foreign)
  <2> heap' = Append(heap, heap[1]) /\ pc' = "drafting" /\ outcome' = outcome
    BY <1>4 DEF Start, Clone, Proceed
  <2>1. heap[1] \in Store
    BY ConversionTypes, OwnedTypes DEF SealInv, Shapes
  <2>2. Shapes' /\ Lent' /\ Copied'
    BY <1>1, <2>1, Grows DEF SealInv, Shapes, Copied
  <2>3. SourceCopied'
    BY <1>1, <2>1, Grows, OwnedTypes DEF SealInv, Shapes, SourceCopied, SourceStore
  <2>4. Linked' /\ Shown' /\ Decided'
    BY <1>1 DEF SealInv, Linked, Shown, Decided
  <2>5. QED
    BY <1>2, <2>2, <2>3, <2>4 DEF SealInv
<1>5. QED
  BY <1>3, <1>4

(* The next artifact is copied faithfully, or the call ends                *)
(* (ingestion.go:266-293).                                                 *)
LEMMA DraftSeals == SealInv /\ Draft => SealInv'
<1> SUFFICES ASSUME SealInv, Draft PROVE SealInv'
  OBVIOUS
<1> DEFINE n == Len(drafts) + 1
           raw == conversion.artifacts[n]
           call == AdmitArtifact(ledger, heap[raw.slice].size)
           new == DraftOf(raw, n, Fresh)
<1>1. /\ pc = "drafting" /\ n <= Len(conversion.artifacts)
      /\ heap' = Append(heap, heap[raw.slice])
      /\ ledger' = call.ledger
      /\ UNCHANGED <<conversion, cancelled, tokens, envelope>>
      /\ \/ pc' = "returned" /\ outcome' = call.err /\ call.err # "nil" /\ drafts' = drafts
         \/ pc' = "returned" /\ outcome' = "integrity" /\ drafts' = drafts
         \/ pc' = "drafting" /\ outcome' = outcome /\ drafts' = Append(drafts, new)
  BY DEF Draft, Clone, Return, Proceed
<1>2. drafts \in Seq(DraftSet) /\ n \in DOMAIN conversion.artifacts
  BY <1>1, ConversionTypes DEF SealInv, Shapes
<1>3. /\ raw \in Raw /\ raw.slice \in 1..Len(Owned) /\ raw.slice \in 1..Len(heap)
      /\ heap[raw.slice] \in Store
  BY <1>2, ConversionTypes DEF SealInv
<1>4. heap[raw.slice] = Owned[raw.slice]
  BY <1>1, <1>3, OwnedTypes DEF SealInv, Lent
<1>5. Charged' /\ call.err \in Verdict
  <2>1. ledger \in Ledger /\ WithinLimits(ledger)
    BY DEF SealInv, Charged
  <2>2. heap[raw.slice].size \in Int
    BY <1>3 DEF Store
  <2>3. Charges(ledger, call)
    BY <2>1, <2>2, ArtifactCharges
  <2> HIDE DEF call
  <2>4. call.ledger \in Ledger /\ WithinLimits(call.ledger) /\ call.err \in Verdict
    BY <2>3 DEF Charges
  <2> QED BY <1>1, <2>4 DEF Charged, WithinLimits
<1>6. new \in DraftSet
  <2>1. heap[raw.slice].data \in Data /\ heap[raw.slice].size \in Nat
    BY <1>3 DEF Store
  <2>2. Identity(heap[raw.slice]) \in Content
    BY <2>1 DEF Identity, Content
  <2>3. raw.look \in Nat /\ raw.occurrence \in Nat /\ Fresh \in Nat /\ n \in Nat
    <3>1. raw.look \in Nat /\ raw.occurrence \in Nat
      BY <1>3 DEF Raw
    <3>2. Len(heap) \in Nat /\ Len(drafts) \in Nat
      BY <1>2, ConversionTypes DEF SealInv
    <3> QED BY <3>1, <3>2 DEF Fresh
  <2>4. QED
    BY <2>1, <2>2, <2>3 DEF DraftOf, DraftSet
<1> HIDE DEF n, raw, call, new
<1>7. Shapes' /\ Lent'
  <2>1. drafts' \in Seq(DraftSet)
    BY <1>1, <1>2, <1>6
  <2>2. heap' \in Seq(Store) /\ Len(heap') = Len(heap) + 1 /\ Lent'
    BY <1>1, <1>3, Grows DEF SealInv
  <2>3. QED
    BY <1>1, <2>1, <2>2, OwnedTypes, ConversionTypes DEF SealInv, Shapes
<1>8. Copied'
  <2>1. \A i \in DOMAIN drafts : Faithful(drafts[i], heap', conversion)
    BY <1>1, <1>3, Grows DEF SealInv, Copied
  <2>2. CASE drafts' = drafts
    BY <1>1, <2>1, <2>2 DEF Copied
  <2>3. CASE drafts' = Append(drafts, new)
    <3>1. Faithful(new, heap', conversion)
      <4>1. new.raw = n /\ new.store = Len(heap) + 1 /\ new.look = raw.look
            /\ new.occurrence = raw.occurrence
        BY DEF new, DraftOf, Fresh
      <4>2. /\ heap'[Len(heap) + 1] = Owned[raw.slice]
            /\ Len(heap') = Len(heap) + 1 /\ Len(heap) \in Nat /\ Len(heap) >= Len(Owned)
        BY <1>1, <1>3, <1>4, Grows DEF SealInv, Shapes
      <4>3. QED
        BY <1>1, <1>2, <4>1, <4>2, OwnedTypes DEF Faithful, raw
    <3>2. \A i \in DOMAIN drafts' : drafts'[i] = new \/ (i \in DOMAIN drafts /\ drafts'[i] = drafts[i])
      BY <1>2, <1>6, <2>3
    <3>3. QED
      BY <1>1, <2>1, <3>1, <3>2 DEF Copied
  <2>4. QED
    BY <1>1, <2>2, <2>3
<1>9. CASE pc' = "returned"
  <2>1. outcome' # "ok"
    BY <1>1, <1>5, <1>9 DEF Verdict
  <2>2. QED
    BY <1>5, <1>7, <1>8, <1>9, <2>1, FailedStep
<1>10. CASE pc' = "drafting" /\ outcome' = outcome
  <2>1. SourceCopied'
    BY <1>1, <1>3, <1>10, Grows DEF SealInv, Shapes, SourceCopied, SourceStore
  <2>2. Linked' /\ Shown' /\ Decided'
    BY <1>1, <1>10 DEF SealInv, Linked, Shown, Decided
  <2>3. QED
    BY <1>5, <1>7, <1>8, <2>1, <2>2 DEF SealInv
<1>11. QED
  BY <1>1, <1>9, <1>10

(* Sorting moves the drafts and makes none (ingestion.go:294-304).         *)
LEMMA OrderSeals == SealInv /\ Order => SealInv'
<1> SUFFICES ASSUME SealInv, Order PROVE SealInv'
  OBVIOUS
<1>1. /\ UNCHANGED <<conversion, heap, ledger, cancelled, tokens, envelope>>
      /\ pc = "drafting"
      /\ \E p \in Orders(Len(drafts)) : drafts' = [i \in 1..Len(drafts) |-> drafts[p[i]]]
      /\ \/ pc' = "rewriting" /\ outcome' = outcome
         \/ pc' = "returned" /\ outcome' = "integrity"
  BY DEF Order, Return, Proceed
<1>2. PICK p \in Orders(Len(drafts)) : drafts' = [i \in 1..Len(drafts) |-> drafts[p[i]]]
  BY <1>1
<1>3. drafts \in Seq(DraftSet) /\ \A i \in 1..Len(drafts) : p[i] \in 1..Len(drafts)
  BY DEF SealInv, Shapes, Orders
<1>4. Shapes' /\ Charged' /\ Lent'
  <2>1. \A i \in 1..Len(drafts) : drafts[p[i]] \in DraftSet
    BY <1>3
  <2>2. Len(drafts) \in Nat
    BY <1>3
  <2>3. drafts' \in Seq(DraftSet)
    BY <1>2, <2>1, <2>2
  <2>4. Shapes'
    BY <1>1, <2>3 DEF SealInv, Shapes
  <2>5. Charged' /\ Lent'
    BY <1>1 DEF SealInv, Charged, WithinLimits, Lent
  <2> QED BY <2>4, <2>5
<1>5. Copied'
  BY <1>1, <1>2, <1>3 DEF SealInv, Copied
<1>6. CASE pc' = "returned" /\ outcome' = "integrity"
  BY <1>4, <1>5, <1>6, FailedStep
<1>7. CASE pc' = "rewriting" /\ outcome' = outcome
  BY <1>1, <1>4, <1>5, <1>7 DEF SealInv, SourceCopied, Linked, Shown, Decided
<1>8. QED
  BY <1>1, <1>6, <1>7

(* Rewriting leads every reference to the draft that has the number it     *)
(* names (ingestion.go:306-325, 393-429).                                  *)
LEMMA RewriteSeals == SealInv /\ Rewrite => SealInv'
<1> SUFFICES ASSUME SealInv, Rewrite PROVE SealInv'
  OBVIOUS
<1> DEFINE call == AdmitPrimary(ledger, conversion.text)
           broken == conversion.rewrite /\ \E i \in DOMAIN tokens : Broken(tokens[i])
           text == [data |-> tokens', size |-> conversion.text, present |-> TRUE]
<1>1. pc = "rewriting" /\ UNCHANGED <<conversion, cancelled, drafts, envelope>>
  BY DEF Rewrite
<1>2. CASE broken
  <2>1. UNCHANGED <<ledger, tokens, heap>> /\ pc' = "returned" /\ outcome' = "integrity"
    BY <1>2 DEF Rewrite, Return
  <2>2. Shapes' /\ Charged' /\ Lent' /\ Copied'
    BY <1>1, <2>1 DEF SealInv, Shapes, Charged, WithinLimits, Lent, Copied
  <2>3. QED
    BY <2>1, <2>2, FailedStep
<1>3. CASE ~broken
  <2>1. /\ tokens' = IF conversion.rewrite
                     THEN [i \in DOMAIN tokens |-> Rewritten(tokens[i])] ELSE tokens
        /\ heap' = Append(heap, text)
        /\ ledger' = call.ledger
        /\ \/ pc' = "returned" /\ outcome' = call.err /\ call.err # "nil"
           \/ pc' = "assembling" /\ outcome' = outcome
    BY <1>3 DEF Rewrite, Return, Proceed
  <2>2. tokens = conversion.tokens /\ tokens \in Seq(Token)
    BY <1>1, ConversionTypes DEF SealInv, Linked
  <2>3. ASSUME NEW i \in DOMAIN tokens, conversion.rewrite, tokens[i].opened
        PROVE  /\ Rewritten(tokens[i]).opened
               /\ Rewritten(tokens[i]) \in Token
               /\ Rewritten(tokens[i]).ordinal \in DOMAIN drafts
               /\ drafts[Rewritten(tokens[i]).ordinal].raw = tokens[i].ordinal
    <3>1. Numbers(tokens[i].ordinal) # {}
      BY <1>3, <2>3 DEF Broken
    <3>2. PICK number : /\ number = CHOOSE n \in Numbers(tokens[i].ordinal) : TRUE
                        /\ number \in DOMAIN drafts
                        /\ drafts[number].raw = tokens[i].ordinal
      BY <3>1 DEF Numbers
    <3>3. tokens[i] \in Token /\ number \in Nat
      BY <2>2, <3>2 DEF SealInv, Shapes
    <3>4. QED
      BY <2>3, <3>2, <3>3 DEF Rewritten, Token
  <2>4. Renamed' /\ tokens' \in Seq(Token)
    <3>1. CASE ~conversion.rewrite
      BY <1>1, <2>1, <2>2, <3>1 DEF Renamed, Names
    <3>2. CASE conversion.rewrite
      <4>1. tokens' = [i \in DOMAIN tokens |-> Rewritten(tokens[i])]
        BY <2>1, <3>2
      <4>2. \A i \in DOMAIN tokens : ~tokens[i].opened => Rewritten(tokens[i]) = tokens[i]
        BY DEF Rewritten
      <4>3. \A i \in DOMAIN tokens : Rewritten(tokens[i]) \in Token
        BY <2>2, <2>3, <3>2, <4>2
      <4>4. tokens' \in Seq(Token)
        BY <2>2, <4>1, <4>3
      <4>5. Renamed'
        BY <1>1, <2>2, <2>3, <3>2, <4>1, <4>2 DEF Renamed, Names
      <4>6. QED
        BY <4>4, <4>5
    <3>3. QED
      BY <3>1, <3>2
  <2>5. text \in Store
    BY <2>4, ConversionTypes DEF SealInv, Store, Data
  <2> HIDE DEF text
  <2>6. /\ heap' \in Seq(Store) /\ Len(heap') = Len(heap) + 1 /\ Len(heap) \in Nat
        /\ heap'[Len(heap')] = text /\ Lent'
    BY <1>1, <2>1, <2>5, Grows DEF SealInv
  <2>7. Shapes'
    BY <1>1, <2>4, <2>6, OwnedTypes DEF SealInv, Shapes
  <2>8. Charged' /\ call.err \in Verdict
    BY <2>1, PrimaryCharges, ConversionTypes DEF SealInv, Charged, Charges
  <2>9. Copied'
    BY <1>1, <2>1, <2>5, Grows DEF SealInv, Copied
  <2>10. Len(heap') > SourceStore /\ SourceStore' = SourceStore
    BY <1>1, <2>6, OwnedTypes DEF SealInv, SourceCopied, SourceStore
  <2>11. heap'[Len(heap')].data = tokens'
    BY <2>6 DEF text
  <2>12. CASE pc' = "returned" /\ outcome' = call.err /\ call.err # "nil"
    BY <2>7, <2>8, <2>6, <2>9, <2>12, FailedStep DEF Verdict
  <2>13. CASE pc' = "assembling" /\ outcome' = outcome
    <3>1. Decided' /\ Shown'
      BY <1>1, <2>13 DEF SealInv, Shown, Decided
    <3>2. Linked'
      BY <2>4, <2>10, <2>11, <2>13 DEF Linked
    <3>3. Len(heap') >= SourceStore'
      BY <2>6, <2>10, OwnedTypes DEF SourceStore
    <3>4. SourceCopied'
      BY <3>3 DEF SourceCopied
    <3>5. QED
      BY <2>6, <2>7, <2>8, <2>9, <3>1, <3>2, <3>4 DEF SealInv
  <2>14. QED
    BY <2>1, <2>12, <2>13
<1>4. QED
  BY <1>2, <1>3

(* What is put together shows the stores as they are (ingestion.go:326-378)*)
LEMMA AssembleSeals == SealInv /\ Assemble => SealInv'
<1> SUFFICES ASSUME SealInv, Assemble PROVE SealInv'
  OBVIOUS
<1>1. pc = "assembling" /\ UNCHANGED <<conversion, heap, ledger, cancelled, drafts, tokens>>
  BY DEF Assemble
<1>2. Shapes' /\ Charged' /\ Copied'
  BY <1>1 DEF SealInv, Shapes, Charged, WithinLimits, Copied
<1>3. Lent'
  BY <1>1 DEF SealInv, Lent
<1>4. CASE pc' = "returned" /\ outcome' # "ok"
  BY <1>2, <1>3, <1>4, FailedStep
<1>5. CASE envelope' = Assembled /\ pc' = "verifying" /\ outcome' = outcome
  <2>1. SourceCopied' /\ Linked' /\ Decided'
    BY <1>1, <1>5 DEF SealInv, SourceCopied, Linked, Renamed, Names, Decided, SourceStore
  <2>2. drafts \in Seq(DraftSet)
    BY DEF SealInv, Shapes
  <2>3. /\ envelope'.source = [bytes |-> Bytes(SourceStore), identity |-> SourceIdentity,
                               length |-> heap[SourceStore].size]
        /\ envelope'.primary = Primary
        /\ envelope'.artifacts = [i \in 1..Len(drafts) |-> ContentArtifact(drafts[i], ArtifactID(i))]
    BY <1>5 DEF Assembled
  <2>4. Reread(envelope'.source) = envelope'.source
    BY <2>3 DEF Reread, Bytes
  <2>5. Reread(envelope'.primary) = envelope'.primary
    BY <2>3 DEF Reread, Bytes, Primary
  <2>6. [i \in DOMAIN envelope'.artifacts |-> Reread(envelope'.artifacts[i])] = envelope'.artifacts
    <3>1. \A i \in 1..Len(drafts) : Reread(ContentArtifact(drafts[i], ArtifactID(i)))
                                        = ContentArtifact(drafts[i], ArtifactID(i))
      BY DEF Reread, Bytes, ContentArtifact
    <3>2. QED
      BY <2>3, <3>1
  <2>7. View' = envelope'
    <3>1. View' = [envelope' EXCEPT !.source = Reread(envelope'.source),
                                    !.primary = Reread(envelope'.primary),
                                    !.artifacts = [i \in DOMAIN envelope'.artifacts
                                                     |-> Reread(envelope'.artifacts[i])]]
      BY <1>1 DEF View, Reread, Bytes
    <3>2. QED
      <4>1. envelope' = [envelope' EXCEPT !.source = envelope'.source,
                                          !.primary = envelope'.primary,
                                          !.artifacts = envelope'.artifacts]
        BY <1>5 DEF Assembled
      <4> QED BY <2>4, <2>5, <2>6, <3>1, <4>1, Zenon
  <2>8. /\ envelope'.source.bytes.store = SourceStore
        /\ envelope'.primary.bytes.store = Len(heap)
        /\ envelope'.primary.bytes.data = tokens
    BY <1>1, <2>3 DEF SealInv, Linked, Primary, Bytes
  <2>9. /\ DOMAIN envelope'.artifacts = DOMAIN drafts
        /\ \A i \in DOMAIN drafts :
              /\ envelope'.artifacts[i].bytes.store = drafts[i].store
              /\ envelope'.artifacts[i].look = drafts[i].look
              /\ envelope'.artifacts[i].relations[1].occurrence = drafts[i].occurrence
    <3>1. ASSUME NEW i \in 1..Len(drafts)
          PROVE  LET a == ContentArtifact(drafts[i], ArtifactID(i))
                 IN  /\ a.bytes.store = drafts[i].store
                     /\ a.look = drafts[i].look
                     /\ a.relations[1].occurrence = drafts[i].occurrence
      BY DEF ContentArtifact, Bytes, Relation
    <3>2. DOMAIN drafts = 1..Len(drafts)
      BY <2>2
    <3>3. QED
      BY <2>3, <3>1, <3>2
  <2>10. Shown'
    BY <1>1, <2>7, <2>8, <2>9 DEF Shown, SourceStore
  <2>11. QED
    BY <1>2, <1>3, <2>1, <2>10 DEF SealInv
<1>6. QED
  BY <1>4, <1>5 DEF Assemble, Return, Proceed

(* Only what verifies is delivered (ingestion.go:382-389).                 *)
LEMMA DeliverSeals == SealInv /\ Deliver => SealInv'
<1> SUFFICES ASSUME SealInv, Deliver PROVE SealInv'
  OBVIOUS
<1>1. /\ pc = "verifying" /\ pc' = "returned"
      /\ UNCHANGED <<conversion, heap, ledger, cancelled, drafts, tokens, envelope>>
      /\ outcome' = "ok" => VerifyEnvelope(envelope)
  BY DEF Deliver, Return
<1>2. Shapes' /\ Charged' /\ Copied' /\ Lent'
  BY <1>1 DEF SealInv, Shapes, Charged, WithinLimits, Copied, Lent
<1>3. SourceCopied' /\ Linked'
  BY <1>1 DEF SealInv, SourceCopied, Linked, Renamed, Names, SourceStore
<1>4. Shown'
  <2>1. View' = View
    BY <1>1 DEF View, Reread, Bytes
  <2>2. QED
    BY <1>1, <2>1 DEF SealInv, Shown, SourceStore
<1>5. Decided'
  BY <1>1 DEF Decided
<1>6. QED
  BY <1>2, <1>3, <1>4, <1>5 DEF SealInv

(* An owner's buffer is none of the envelope's (ingestion.go:466-474).     *)
LEMMA ScribbleSeals == SealInv /\ Scribble => SealInv'
<1> SUFFICES ASSUME SealInv, Scribble PROVE SealInv'
  OBVIOUS
<1>1. PICK store \in DOMAIN Owned : heap' = [heap EXCEPT ![store].data = 0]
  BY DEF Scribble
<1>2. /\ pc = "returned" /\ pc' = pc
      /\ UNCHANGED <<conversion, ledger, cancelled, drafts, tokens, envelope, outcome>>
  BY DEF Scribble
<1>3. /\ heap \in Seq(Store) /\ store \in 1..Len(Owned)
      /\ Len(heap) \in Nat /\ Len(heap) >= Len(Owned) /\ Len(Owned) \in Nat
  BY OwnedTypes DEF SealInv, Shapes
<1>4. [heap[store] EXCEPT !.data = 0] \in Store
  <2>1. heap[store] \in Store /\ 0 \in Data
    BY <1>3 DEF Data
  <2>2. QED
    BY <2>1 DEF Store
<1>5. /\ heap' \in Seq(Store) /\ Len(heap') = Len(heap)
      /\ \A k \in (Len(Owned) + 1)..Len(heap) : heap'[k] = heap[k]
  BY <1>1, <1>3, <1>4
<1>6. Shapes' /\ Charged' /\ Lent'
  BY <1>2, <1>3, <1>5 DEF SealInv, Shapes, Charged, WithinLimits, Lent
<1>7. Copied'
  BY <1>2, <1>5 DEF SealInv, Copied, Faithful
<1>8. SourceCopied' /\ Decided'
  BY <1>2 DEF SealInv, SourceCopied, Decided
<1>9. CASE outcome # "ok"
  BY <1>2, <1>6, <1>7, <1>8, <1>9 DEF SealInv, Linked, Shown
<1>10. CASE outcome = "ok"
  <2>1. Len(heap) > SourceStore /\ SourceStore = Len(Owned) + 1
    BY <1>10 DEF SealInv, Linked, SourceStore
  <2>2. Linked'
    BY <1>2, <1>3, <1>5, <1>10, <2>1 DEF SealInv, Linked, Renamed, Names, SourceStore
  <2>3. \A k \in (Len(Owned) + 1)..Len(heap) : Bytes(k)' = Bytes(k)
    BY <1>5 DEF Bytes
  <2>4. /\ Reread(envelope.source)' = Reread(envelope.source)
        /\ Reread(envelope.primary)' = Reread(envelope.primary)
        /\ \A i \in DOMAIN envelope.artifacts :
              Reread(envelope.artifacts[i])' = Reread(envelope.artifacts[i])
    <3>1. /\ envelope.source.bytes.store \in (Len(Owned) + 1)..Len(heap)
          /\ envelope.primary.bytes.store \in (Len(Owned) + 1)..Len(heap)
      BY <1>3, <1>10, <2>1 DEF SealInv, Shown
    <3>2. \A i \in DOMAIN envelope.artifacts :
              envelope.artifacts[i].bytes.store \in (Len(Owned) + 1)..Len(heap)
      BY <1>10 DEF SealInv, Shown, Copied, Faithful
    <3>3. QED
      BY <1>2, <1>5, <3>1, <3>2 DEF Reread, Bytes
  <2>5. View' = View
    BY <1>2, <2>4 DEF View
  <2>6. Shown'
    BY <1>2, <1>5, <1>10, <2>5 DEF SealInv, Shown, SourceStore
  <2>7. QED
    BY <1>6, <1>7, <1>8, <2>2, <2>6 DEF SealInv
<1>11. QED
  BY <1>9, <1>10

(* Cancelling touches nothing that sealing has made.                       *)
LEMMA CancelSeals == SealInv /\ (Cancel \/ UNCHANGED vars) => SealInv'
<1> SUFFICES ASSUME SealInv, Cancel \/ UNCHANGED vars PROVE SealInv'
  OBVIOUS
<1>1. UNCHANGED <<conversion, heap, ledger, drafts, tokens, envelope, pc, outcome>>
  BY DEF Cancel, vars
<1>2. View' = View
  BY <1>1 DEF View, Reread, Bytes
<1>3. Shapes' /\ Charged' /\ Copied' /\ Lent'
  BY <1>1 DEF SealInv, Shapes, Charged, WithinLimits, Copied, Lent
<1>4. SourceCopied' /\ Linked' /\ Decided'
  BY <1>1 DEF SealInv, SourceCopied, Linked, Renamed, Names, Decided, SourceStore
<1>5. Shown'
  BY <1>1, <1>2 DEF SealInv, Shown, SourceStore
<1>6. QED
  BY <1>3, <1>4, <1>5 DEF SealInv

(* The inductive invariant of sealing.                                     *)
LEMMA SealInvHolds == Spec => []SealInv
<1>1. SealInv /\ [Next]_vars => SealInv'
  BY StartSeals, DraftSeals, OrderSeals, RewriteSeals, AssembleSeals,
     DeliverSeals, ScribbleSeals, CancelSeals DEF Next
<1>2. QED
  BY <1>1, InitSeals, PTL DEF Spec

-----------------------------------------------------------------------------
(* The types of sealing's state, the ledger's among them (TypeOK).         *)
THEOREM SealTypes == Spec => []TypeOK
<1>1. Spec => [](conversion \in Conversions /\ cancelled \in BOOLEAN
                 /\ pc \in {"start", "drafting", "rewriting", "assembling", "verifying", "returned"}
                 /\ outcome \in {"pending", "ok", "limit", "integrity", "cancelled"})
  <2> DEFINE Labels ==
        /\ conversion \in Conversions /\ cancelled \in BOOLEAN
        /\ pc \in {"start", "drafting", "rewriting", "assembling", "verifying", "returned"}
        /\ outcome \in {"pending", "ok", "limit", "integrity", "cancelled"}
  <2>1. Init => Labels
    BY DEF Init
  <2>2. SealInv /\ Labels /\ [Next]_vars => Labels'
    <3> SUFFICES ASSUME SealInv, Labels, [Next]_vars PROVE Labels'
      OBVIOUS
    <3>1. CASE Start
      BY <3>1 DEF Start, Return, Proceed
    <3>2. CASE Draft
      <4>1. AdmitArtifact(ledger, heap[conversion.artifacts[Len(drafts) + 1].slice].size).err \in Verdict
        <5>1. Len(drafts) + 1 \in DOMAIN conversion.artifacts
          BY <3>2, ConversionTypes DEF SealInv, Shapes, Draft
        <5>2. heap[conversion.artifacts[Len(drafts) + 1].slice].size \in Nat
          BY <5>1, ConversionTypes DEF SealInv, Store
        <5>3. QED
          BY <5>2, ArtifactCharges DEF SealInv, Charged, Charges
      <4>2. QED
        BY <3>2, <4>1 DEF Draft, Return, Proceed, Verdict
    <3>3. CASE Rewrite
      <4>1. AdmitPrimary(ledger, conversion.text).err \in Verdict
        BY PrimaryCharges, ConversionTypes DEF SealInv, Charged, Charges
      <4>2. QED
        BY <3>3, <4>1 DEF Rewrite, Return, Proceed, Verdict
    <3>4. CASE Order
      BY <3>4 DEF Order, Return, Proceed
    <3>5. CASE Assemble
      BY <3>5 DEF Assemble, Return, Proceed
    <3>6. CASE Deliver
      BY <3>6 DEF Deliver, Return
    <3>7. CASE Scribble \/ Cancel \/ UNCHANGED vars
      BY <3>7 DEF Scribble, Cancel, vars
    <3>8. QED
      BY <3>1, <3>2, <3>3, <3>4, <3>5, <3>6, <3>7 DEF Next
  <2>3. QED
    BY <2>1, <2>2, SealInvHolds, PTL DEF Spec
<1>2. SealInv /\ conversion \in Conversions /\ cancelled \in BOOLEAN
      /\ pc \in {"start", "drafting", "rewriting", "assembling", "verifying", "returned"}
      /\ outcome \in {"pending", "ok", "limit", "integrity", "cancelled"}
      => TypeOK
  BY ConversionTypes, OwnedTypes
     DEF SealInv, Shapes, Charged, Copied, Faithful, Store, TypeOK
<1>3. QED
  BY <1>1, <1>2, SealInvHolds, PTL

(* What was handed out verifies for ever (SealedStaysSealed;               *)
(* ingestion.go:262-276, 381-389, 466-474).                                *)
THEOREM SealLasts == Spec => []SealedStaysSealed
<1>1. SealInv => SealedStaysSealed
  BY DEF SealInv, Shown, Decided, SealedStaysSealed
<1>2. QED
  BY <1>1, SealInvHolds, PTL

\* A reference has been renamed with the artifact it names.
LEMMA MeaningKept == SealInv => ReferencesKeepMeaning
<1> SUFFICES ASSUME SealInv, outcome = "ok", NEW i \in DOMAIN conversion.tokens
             PROVE  Leads(envelope.primary.bytes.data[i], View.artifacts, Delivered)
                      = Leads(conversion.tokens[i], conversion.artifacts, Given)
  BY DEF ReferencesKeepMeaning
<1> DEFINE given == conversion.tokens[i]
           t == envelope.primary.bytes.data[i]
<1>1. t = tokens[i] /\ Names(t, given) /\ View = envelope
  BY DEF SealInv, Shown, Linked, Renamed
<1>2. CASE conversion.rewrite /\ given.opened
  <2> DEFINE n == t.ordinal
             a == envelope.artifacts[n]
             raw == conversion.artifacts[given.ordinal]
  <2>1. t.opened /\ n \in DOMAIN drafts /\ drafts[n].raw = given.ordinal
    BY <1>1, <1>2 DEF Names
  <2>2. given.ordinal \in DOMAIN conversion.artifacts /\ n \in DOMAIN envelope.artifacts
    BY <2>1 DEF SealInv, Copied, Faithful, Shown
  <2>3. /\ a.look = raw.look
        /\ a.relations[1].occurrence = raw.occurrence
        /\ heap[a.bytes.store].data = Owned[raw.slice].data
        /\ heap[a.bytes.store].size = Owned[raw.slice].size
    BY <2>1 DEF SealInv, Copied, Faithful, Shown
  <2>4. Delivered(a) = Given(raw)
    BY <2>3 DEF Delivered, Given, Thing, Bytes
  <2>5. Leads(t, View.artifacts, Delivered) = Delivered(a)
    BY <1>1, <1>2, <2>1, <2>2 DEF Leads
  <2>6. Leads(given, conversion.artifacts, Given) = Given(raw)
    BY <1>2, <2>2 DEF Leads
  <2>7. QED
    BY <2>4, <2>5, <2>6
<1>3. CASE ~(conversion.rewrite /\ given.opened)
  BY <1>1, <1>3 DEF Names, Leads
<1>4. QED
  BY <1>2, <1>3

(* Every reference of the Markdown leads to the artifact it was written    *)
(* for, wherever sorting has put it (ReferencesKeepMeaning;                *)
(* ingestion.go:306-320, 393-429).                                         *)
THEOREM ReferencesMean == Spec => []ReferencesKeepMeaning
  BY MeaningKept, SealInvHolds, PTL

-----------------------------------------------------------------------------
(* Numbers, sums and orders.                                               *)

\* A set of natural numbers has a least one.
LEMMA LeastNat ==
    ASSUME NEW T \in SUBSET Nat, T # {}
    PROVE  \E x \in T : \A y \in T : x <= y
<1>1. PICK x \in T : \A y \in T : ~(<<y, x>> \in OpToRel(<, Nat))
  BY NatLessThanWellFounded, WFMin
<1>2. \A y \in T : ~(y < x)
  BY <1>1 DEF OpToRel
<1> QED BY <1>2

\* A set that holds 0 and with each number the next holds all of them.
LEMMA Counting ==
    ASSUME NEW N \in Nat, NEW S, 0 \in S, \A k \in 0..(N - 1) : k \in S => k + 1 \in S
    PROVE  0..N \subseteq S
<1> SUFFICES ASSUME NEW k \in 0..N, k \notin S PROVE FALSE
  OBVIOUS
<1> DEFINE T == {j \in 0..N : j \notin S}
<1>1. PICK x \in T : \A y \in T : x <= y
  <2>1. T \in SUBSET Nat /\ T # {}
    OBVIOUS
  <2> QED BY <2>1, LeastNat
<1>2. x # 0 /\ x - 1 \in 0..(N - 1) /\ x - 1 \notin T /\ (x - 1) + 1 = x
  BY <1>1
<1>3. x - 1 \in S
  BY <1>2
<1> QED BY <1>1, <1>2, <1>3

\* The sums of the first members of a list of numbers.
Sums(f, a, N) == f = [n \in 0..N |-> IF n = 0 THEN 0 ELSE f[n - 1] + a[n]]

\* Sums, one term further.
LEMMA SumsStep ==
    ASSUME NEW N \in Nat, NEW a, NEW f, Sums(f, a, N)
    PROVE  /\ DOMAIN f = 0..N /\ f[0] = 0
           /\ \A n \in 1..N : f[n] = f[n - 1] + a[n]
           /\ \A n \in 0..(N - 1) : f[n + 1] = f[n] + a[n + 1]
<1>1. f = [n \in 0..N |-> IF n = 0 THEN 0 ELSE f[n - 1] + a[n]]
  BY DEF Sums
<1>2. DOMAIN f = 0..N /\ \A n \in 0..N : f[n] = IF n = 0 THEN 0 ELSE f[n - 1] + a[n]
  BY <1>1
<1>3. \A n \in 1..N : f[n] = f[n - 1] + a[n]
  BY <1>2
<1>4. ASSUME NEW n \in 0..(N - 1) PROVE f[n + 1] = f[n] + a[n + 1]
  <2>1. n + 1 \in 1..N /\ (n + 1) - 1 = n
    OBVIOUS
  <2> QED BY <1>3, <2>1
<1> QED BY <1>2, <1>3, <1>4

\* There are sums of any natural numbers.
LEMMA SumsExist ==
    ASSUME NEW N \in Nat, NEW a, \A n \in 1..N : a[n] \in Nat
    PROVE  \E f : Sums(f, a, N)
<1> DEFINE S == {k \in 0..N : \E f : Sums(f, a, k)}
<1>1. 0 \in S
  <2>1. PICK f : f = [n \in 0..0 |-> 0]
    OBVIOUS
  <2>2. \A n \in 0..0 : n = 0
    OBVIOUS
  <2>3. Sums(f, a, 0)
    BY <2>1, <2>2 DEF Sums
  <2> QED BY <2>3
<1>2. ASSUME NEW k \in 0..(N - 1), k \in S PROVE k + 1 \in S
  <2>1. PICK f : Sums(f, a, k)
    BY <1>2
  <2>2. PICK g : g = [n \in 0..(k + 1) |-> IF n = k + 1 THEN f[k] + a[k + 1] ELSE f[n]]
    OBVIOUS
  <2>3. k \in Nat
    OBVIOUS
  <2>4. f[0] = 0 /\ \A n \in 1..k : f[n] = f[n - 1] + a[n]
    BY <2>1, <2>3, SumsStep
  <2>5. ASSUME NEW n \in 0..(k + 1)
        PROVE  g[n] = IF n = 0 THEN 0 ELSE g[n - 1] + a[n]
    <3>1. CASE n = k + 1
      <4>1. g[n] = f[k] + a[k + 1] /\ n # 0 /\ n - 1 = k /\ k \in 0..(k + 1) /\ k # k + 1
        BY <2>2, <2>3, <3>1
      <4>2. g[k] = f[k]
        BY <2>2, <4>1
      <4> QED BY <3>1, <4>1, <4>2
    <3>2. CASE n \in 1..k
      <4>1. g[n] = f[n] /\ n - 1 \in 0..(k + 1) /\ n - 1 # k + 1 /\ n # 0
        BY <2>2, <2>3, <3>2
      <4>2. g[n - 1] = f[n - 1]
        BY <2>2, <4>1
      <4> QED BY <2>4, <3>2, <4>1, <4>2
    <3>3. CASE n = 0
      <4>1. 0 # k + 1 /\ 0 \in 0..(k + 1)
        BY <2>3
      <4> QED BY <2>2, <2>4, <3>3, <4>1
    <3> QED BY <2>3, <3>1, <3>2, <3>3
  <2>6. g = [n \in 0..(k + 1) |-> IF n = 0 THEN 0 ELSE g[n - 1] + a[n]]
    BY <2>2, <2>5
  <2>7. Sums(g, a, k + 1)
    BY <2>6 DEF Sums
  <2> QED BY <2>7
<1> HIDE DEF S
<1>3. 0..N \subseteq S
  BY <1>1, <1>2, Counting
<1>4. N \in S
  BY <1>3
<1> QED BY <1>4 DEF S

\* A sum is a number, grows, and is the only one there is.
LEMMA SumsGrow ==
    ASSUME NEW N \in Nat, NEW a, \A n \in 1..N : a[n] \in Nat, NEW f, Sums(f, a, N)
    PROVE  /\ \A n \in 0..N : f[n] \in Nat /\ f[n] <= f[N]
           /\ \A g : Sums(g, a, N) => g = f
<1>1. DOMAIN f = 0..N /\ f[0] = 0 /\ \A n \in 0..(N - 1) : f[n + 1] = f[n] + a[n + 1]
  BY SumsStep
<1>2. \A n \in 0..(N - 1) : a[n + 1] \in Nat
  <2>1. \A n \in 0..(N - 1) : n + 1 \in 1..N
    OBVIOUS
  <2> QED BY <2>1
<1>3. \A n \in 0..N : f[n] \in Nat
  <2> DEFINE S == {n \in 0..N : f[n] \in Nat}
  <2>1. 0 \in S
    BY <1>1
  <2>2. \A k \in 0..(N - 1) : k \in S => k + 1 \in S
    <3>1. \A k \in 0..(N - 1) : k + 1 \in 0..N
      OBVIOUS
    <3>2. \A x, y \in Nat : x + y \in Nat
      OBVIOUS
    <3> QED BY <1>1, <1>2, <3>1, <3>2
  <2> HIDE DEF S
  <2>3. 0..N \subseteq S
    BY <2>1, <2>2, Counting
  <2> QED BY <2>3 DEF S
<1>4. \A n \in 0..N : \A k \in 0..n : f[k] <= f[n]
  <2> DEFINE S == {n \in 0..N : \A k \in 0..n : f[k] <= f[n]}
  <2>1. 0 \in S
    BY <1>1
  <2>2. ASSUME NEW n \in 0..(N - 1), n \in S PROVE n + 1 \in S
    <3>1. n \in 0..N /\ n + 1 \in 0..N /\ f[n + 1] = f[n] + a[n + 1] /\ a[n + 1] \in Nat
      BY <1>1, <1>2
    <3>2. f[n] \in Nat
      BY <1>3, <3>1
    <3>3. ASSUME NEW k \in 0..(n + 1) PROVE f[k] <= f[n + 1]
      <4>1. CASE k = n + 1
        BY <3>1, <3>2, <4>1
      <4>2. CASE k \in 0..n
        <5>1. f[k] <= f[n] /\ f[k] \in Nat
          BY <1>3, <2>2, <4>2, <3>1
        <5> QED BY <3>1, <3>2, <5>1
      <4>3. k = n + 1 \/ k \in 0..n
        BY <3>1
      <4> QED BY <4>1, <4>2, <4>3
    <3> QED BY <3>1, <3>3
  <2> HIDE DEF S
  <2>3. 0..N \subseteq S
    BY <2>1, <2>2, Counting
  <2> QED BY <2>3 DEF S
<1>5. ASSUME NEW g, Sums(g, a, N) PROVE g = f
  <2>1. DOMAIN g = 0..N /\ g[0] = 0 /\ \A n \in 0..(N - 1) : g[n + 1] = g[n] + a[n + 1]
    BY <1>5, SumsStep
  <2> DEFINE S == {n \in 0..N : g[n] = f[n]}
  <2>2. 0 \in S
    BY <1>1, <2>1
  <2>3. \A k \in 0..(N - 1) : k \in S => k + 1 \in S
    <3>1. \A k \in 0..(N - 1) : k + 1 \in 0..N
      OBVIOUS
    <3> QED BY <1>1, <2>1, <3>1
  <2> HIDE DEF S
  <2>4. 0..N \subseteq S
    BY <2>2, <2>3, Counting
  <2>5. \A n \in 0..N : g[n] = f[n]
    BY <2>4 DEF S
  <2>6. /\ f = [n \in 0..N |-> IF n = 0 THEN 0 ELSE f[n - 1] + a[n]]
        /\ g = [n \in 0..N |-> IF n = 0 THEN 0 ELSE g[n - 1] + a[n]]
    BY <1>5 DEF Sums
  <2> QED BY <2>5, <2>6
<1>6. N \in 0..N
  OBVIOUS
<1> QED BY <1>3, <1>4, <1>5, <1>6

\* An arrangement leaves nothing out.
LEMMA ArrangesAll ==
    ASSUME NEW N \in Nat, NEW p \in Orders(N)
    PROVE  /\ p \in [1..N -> 1..N]
           /\ \A i, j \in 1..N : p[i] = p[j] => i = j
           /\ \A k \in 1..N : \E i \in 1..N : p[i] = k
<1>1. p \in [1..N -> 1..N] /\ \A i, j \in 1..N : p[i] = p[j] => i = j
  BY DEF Orders
<1>2. p \in Injection(1..N, 1..N)
  BY <1>1 DEF Injection, IsInjective
<1>3. IsFiniteSet(1..N)
  BY FS_Interval
<1>4. p \in Surjection(1..N, 1..N)
  BY <1>2, <1>3, FS_Injection
<1> QED BY <1>1, <1>4 DEF Surjection

\* The same numbers in another order have the same sum.
LEMMA SumsPermuted ==
    \A N \in Nat : \A p \in Orders(N) : \A a, b, f, g :
        /\ \A n \in 1..N : a[n] \in Nat
        /\ \A n \in 1..N : b[n] = a[p[n]]
        /\ Sums(f, a, N) /\ Sums(g, b, N)
        => g[N] = f[N]
<1> SUFFICES ASSUME NEW N \in Nat, NEW p \in Orders(N), NEW a, NEW b, NEW f, NEW g,
                    \A n \in 1..N : a[n] \in Nat,
                    \A n \in 1..N : b[n] = a[p[n]],
                    Sums(f, a, N), Sums(g, b, N)
             PROVE  g[N] = f[N]
  OBVIOUS
<1> DEFINE part(T) == [n \in 1..N |-> IF n \in T THEN a[n] ELSE 0]
           sum(T) == CHOOSE h : Sums(h, part(T), N)
           of(T) == sum(T)[N]
           first(n) == {p[j] : j \in 1..n}
<1>1. /\ p \in [1..N -> 1..N]
      /\ \A i, j \in 1..N : p[i] = p[j] => i = j
      /\ \A k \in 1..N : \E i \in 1..N : p[i] = k
  BY ArrangesAll
<1>2. ASSUME NEW T
      PROVE  /\ Sums(sum(T), part(T), N)
             /\ sum(T)[0] = 0
             /\ \A n \in 0..(N - 1) : sum(T)[n + 1] = sum(T)[n] + (IF n + 1 \in T THEN a[n + 1] ELSE 0)
             /\ \A n \in 0..N : sum(T)[n] \in Nat
  <2>1. \A n \in 1..N : part(T)[n] \in Nat
    OBVIOUS
  <2> HIDE DEF part
  <2>2. \E h : Sums(h, part(T), N)
    BY <2>1, SumsExist
  <2>3. Sums(sum(T), part(T), N)
    BY <2>2
  <2> HIDE DEF sum
  <2>4. /\ sum(T)[0] = 0
        /\ \A n \in 0..(N - 1) : sum(T)[n + 1] = sum(T)[n] + part(T)[n + 1]
    BY <2>3, SumsStep
  <2>5. \A n \in 0..(N - 1) : n + 1 \in 1..N
    OBVIOUS
  <2>6. \A n \in 0..(N - 1) : part(T)[n + 1] = IF n + 1 \in T THEN a[n + 1] ELSE 0
    BY <2>5 DEF part
  <2>7. \A n \in 0..N : sum(T)[n] \in Nat
    BY <2>1, <2>3, SumsGrow
  <2> QED BY <2>3, <2>4, <2>6, <2>7
<1> HIDE DEF sum, part
<1>3. ASSUME NEW T, NEW x \in 1..N, x \notin T
      PROVE  of(T \cup {x}) = of(T) + a[x]
  <2> DEFINE U == T \cup {x}
             S == {n \in 0..N : sum(U)[n] = sum(T)[n] + (IF x <= n THEN a[x] ELSE 0)}
  <2>1. 0 \in S
    <3>1. sum(U)[0] = 0 /\ sum(T)[0] = 0
      BY <1>2
    <3>2. ~(x <= 0)
      OBVIOUS
    <3> QED BY <3>1, <3>2
  <2>2. ASSUME NEW n \in 0..(N - 1), n \in S PROVE n + 1 \in S
    <3>1. /\ sum(U)[n + 1] = sum(U)[n] + (IF n + 1 \in U THEN a[n + 1] ELSE 0)
          /\ sum(T)[n + 1] = sum(T)[n] + (IF n + 1 \in T THEN a[n + 1] ELSE 0)
      BY <1>2
    <3>2. sum(U)[n] = sum(T)[n] + (IF x <= n THEN a[x] ELSE 0)
      BY <2>2
    <3>3. sum(T)[n] \in Nat /\ a[x] \in Nat /\ a[n + 1] \in Nat /\ n + 1 \in 0..N
      <4>1. n \in 0..N /\ n + 1 \in 1..N /\ n + 1 \in 0..N
        OBVIOUS
      <4> QED BY <1>2, <4>1
    <3>4. CASE x = n + 1
      <4>1. n + 1 \in U /\ n + 1 \notin T /\ ~(x <= n) /\ x <= n + 1
        BY <1>3, <3>4
      <4> HIDE DEF U
      <4> QED BY <3>1, <3>2, <3>3, <3>4, <4>1
    <3>5. CASE x # n + 1
      <4>1. (n + 1 \in U <=> n + 1 \in T) /\ (x <= n + 1 <=> x <= n)
        BY <3>5
      <4> HIDE DEF U
      <4>2. CASE x <= n
        BY <3>1, <3>2, <3>3, <4>1, <4>2
      <4>3. CASE ~(x <= n)
        BY <3>1, <3>2, <3>3, <4>1, <4>3
      <4> QED BY <4>2, <4>3
    <3> QED BY <3>4, <3>5
  <2> HIDE DEF S, U
  <2>3. 0..N \subseteq S
    BY <2>1, <2>2, Counting
  <2>4. N \in S /\ x <= N
    BY <2>3
  <2> QED BY <2>4 DEF S, U
<1>4. of({}) = 0
  <2> DEFINE S == {n \in 0..N : sum({})[n] = 0}
  <2>1. 0 \in S
    BY <1>2
  <2>2. \A n \in 0..(N - 1) : n \in S => n + 1 \in S
    BY <1>2
  <2> HIDE DEF S
  <2>3. 0..N \subseteq S
    BY <2>1, <2>2, Counting
  <2>4. N \in S
    BY <2>3
  <2> QED BY <2>4 DEF S
<1>5. f[N] = of(1..N)
  <2> DEFINE S == {n \in 0..N : f[n] = sum(1..N)[n]}
  <2>1. f[0] = 0 /\ \A n \in 0..(N - 1) : f[n + 1] = f[n] + a[n + 1]
    BY SumsStep
  <2>2. 0 \in S
    BY <1>2, <2>1
  <2>3. ASSUME NEW n \in 0..(N - 1), n \in S PROVE n + 1 \in S
    <3>1. n + 1 \in 1..N /\ n + 1 \in 0..N
      OBVIOUS
    <3>2. sum(1..N)[n + 1] = sum(1..N)[n] + a[n + 1]
      BY <1>2, <3>1
    <3> QED BY <2>1, <2>3, <3>1, <3>2
  <2> HIDE DEF S
  <2>4. 0..N \subseteq S
    BY <2>2, <2>3, Counting
  <2>5. N \in S
    BY <2>4
  <2> QED BY <2>5 DEF S
<1> HIDE DEF of
<1>6. \A n \in 0..N : g[n] = of(first(n))
  <2> DEFINE S == {n \in 0..N : g[n] = of(first(n))}
  <2>1. g[0] = 0 /\ \A n \in 0..(N - 1) : g[n + 1] = g[n] + b[n + 1]
    BY SumsStep
  <2>2. 0 \in S
    <3>1. first(0) = {}
      OBVIOUS
    <3> QED BY <1>4, <2>1, <3>1
  <2>3. ASSUME NEW n \in 0..(N - 1), n \in S PROVE n + 1 \in S
    <3>1. n + 1 \in 1..N /\ n + 1 \in 0..N /\ \A j : j \in 1..(n + 1) <=> j \in 1..n \/ j = n + 1
      OBVIOUS
    <3>2. first(n + 1) = first(n) \cup {p[n + 1]}
      BY <3>1
    <3>3. p[n + 1] \notin first(n) /\ p[n + 1] \in 1..N
      <4>1. \A j \in 1..n : j \in 1..N /\ j # n + 1
        OBVIOUS
      <4> QED BY <1>1, <3>1, <4>1
    <3>4. b[n + 1] = a[p[n + 1]]
      BY <3>1
    <3> HIDE DEF first
    <3>5. of(first(n + 1)) = of(first(n)) + a[p[n + 1]]
      BY <1>3, <3>2, <3>3
    <3> QED BY <2>1, <2>3, <3>1, <3>4, <3>5
  <2> HIDE DEF S
  <2>4. 0..N \subseteq S
    BY <2>2, <2>3, Counting
  <2> QED BY <2>4 DEF S
<1>7. first(N) = 1..N
  BY <1>1
<1> HIDE DEF first
<1>8. g[N] = of(first(N))
  BY <1>6
<1> QED BY <1>5, <1>7, <1>8

-----------------------------------------------------------------------------
(* Sorting.                                                                *)

\* R orders S strictly and totally.
Strict(R, S) ==
    /\ \A i \in S : <<i, i>> \notin R
    /\ \A i, j \in S : i # j => <<i, j>> \in R \/ <<j, i>> \in R
    /\ \A i, j, k \in S : <<i, j>> \in R /\ <<j, k>> \in R => <<i, k>> \in R

\* Whatever is strictly and totally ordered can be put in order.
LEMMA CanBeArranged ==
    ASSUME NEW N \in Nat, NEW R, Strict(R, 1..N)
    PROVE  \E q \in Orders(N) : \A i, j \in 1..N : i < j => <<q[i], q[j]>> \in R
<1> DEFINE S == 1..N
           before(i) == {j \in S : <<j, i>> \in R}
           place(i) == Cardinality(before(i)) + 1
           f == [i \in S |-> place(i)]
<1>1. IsFiniteSet(S) /\ Cardinality(S) = N
  <2>1. Cardinality(1..N) = IF 1 > N THEN 0 ELSE N - 1 + 1
    BY FS_Interval
  <2> QED BY <2>1, FS_Interval
<1>2. \A T \in SUBSET S : IsFiniteSet(T) /\ Cardinality(T) \in Nat
  BY <1>1, FS_Subset, FS_CardinalityType
<1>3. \A T \in SUBSET S, U \in SUBSET S :
         U \subseteq T /\ U # T => Cardinality(U) < Cardinality(T)
  <2> SUFFICES ASSUME NEW T \in SUBSET S, NEW U \in SUBSET S, U \subseteq T, U # T
               PROVE  Cardinality(U) < Cardinality(T)
    OBVIOUS
  <2>1. Cardinality(U) <= Cardinality(T) /\ Cardinality(T) # Cardinality(U)
    BY <1>2, FS_Subset
  <2> QED BY <1>2, <2>1
<1>4. \A i \in S : before(i) \in SUBSET S /\ i \notin before(i)
  BY DEF Strict
<1>5. \A i \in S : place(i) \in S
  <2> SUFFICES ASSUME NEW i \in S PROVE place(i) \in S
    OBVIOUS
  <2>1. Cardinality(before(i)) < Cardinality(S) /\ Cardinality(before(i)) \in Nat
    BY <1>2, <1>3, <1>4
  <2> QED BY <1>1, <2>1
<1>6. ASSUME NEW i \in S, NEW j \in S, <<j, i>> \in R
      PROVE  place(j) < place(i)
  <2>1. before(j) \subseteq before(i) /\ j \in before(i) /\ j \notin before(j)
    BY <1>6 DEF Strict
  <2>2. before(j) # before(i) /\ before(j) \in SUBSET S /\ before(i) \in SUBSET S
    BY <2>1
  <2> HIDE DEF before
  <2>3. Cardinality(before(j)) < Cardinality(before(i))
    BY <1>3, <2>1, <2>2
  <2>4. Cardinality(before(j)) \in Nat /\ Cardinality(before(i)) \in Nat
    BY <1>2, <2>2
  <2> QED BY <2>3, <2>4
<1> HIDE DEF place, before
<1>7. \A i, j \in S : place(i) = place(j) => i = j
  <2> SUFFICES ASSUME NEW i \in S, NEW j \in S, i # j
               PROVE  place(i) # place(j)
    OBVIOUS
  <2>1. place(i) < place(j) \/ place(j) < place(i)
    BY <1>6 DEF Strict
  <2>2. \A x, y \in Int : x < y \/ y < x => x # y
    OBVIOUS
  <2>3. place(i) \in Int /\ place(j) \in Int
    BY <1>5
  <2> QED BY <2>1, <2>2, <2>3
<1>8. f \in Orders(N)
  BY <1>5, <1>7 DEF Orders
<1>9. \A k \in S : \E i \in S : place(i) = k
  <2>1. \A k \in 1..N : \E i \in 1..N : f[i] = k
    BY <1>8, ArrangesAll
  <2> QED BY <2>1
<1>10. PICK q : q = [k \in S |-> CHOOSE i \in S : place(i) = k]
  OBVIOUS
<1>11. \A k \in S : q[k] \in S /\ place(q[k]) = k
  BY <1>9, <1>10
<1>12. q \in Orders(N)
  BY <1>10, <1>11 DEF Orders
<1>13. \A i, j \in S : i < j => <<q[i], q[j]>> \in R
  <2> SUFFICES ASSUME NEW i \in S, NEW j \in S, i < j PROVE <<q[i], q[j]>> \in R
    OBVIOUS
  <2>1. q[i] # q[j] /\ ~(<<q[j], q[i]>> \in R)
    <3>1. place(q[i]) = i /\ place(q[j]) = j /\ q[i] \in S /\ q[j] \in S
      BY <1>11
    <3>2. ~(j < i) /\ i # j
      OBVIOUS
    <3> QED BY <1>6, <3>1, <3>2
  <2> QED BY <1>11, <2>1 DEF Strict
<1> QED BY <1>12, <1>13

Key(W) == [1..W -> Int]

\* Keys of one length are ordered strictly and totally.
LEMMA BeforeOrders ==
    ASSUME NEW W \in Nat
    PROVE  /\ \A s, t \in Key(W) : Before(s, t)
                <=> \E i \in 1..W : s[i] < t[i] /\ \A j \in 1..(i - 1) : s[j] = t[j]
           /\ \A s \in Key(W) : ~Before(s, s)
           /\ \A s, t \in Key(W) : s # t => Before(s, t) \/ Before(t, s)
           /\ \A s, t, u \in Key(W) : Before(s, t) /\ Before(t, u) => Before(s, u)
           /\ \A s, t \in Key(W) : ~(Before(s, t) /\ Before(t, s))
<1> DEFINE less(s, t, i) == s[i] < t[i] /\ \A j \in 1..(i - 1) : s[j] = t[j]
<1>1. \A s \in Key(W) : DOMAIN s = 1..W /\ Len(s) = W /\ \A i \in 1..W : s[i] \in Int
  BY DEF Key
<1>2. \A s, t \in Key(W) : Before(s, t) <=> \E i \in 1..W : less(s, t, i)
  <2> SUFFICES ASSUME NEW s \in Key(W), NEW t \in Key(W)
               PROVE  Before(s, t) <=> \E i \in 1..W : less(s, t, i)
    OBVIOUS
  <2>1. Len(s) = W /\ Len(t) = W /\ DOMAIN s = 1..W /\ ~(W < W)
    BY <1>1
  <2> QED BY <2>1 DEF Before
<1>3. \A s \in Key(W) : ~Before(s, s)
  <2>1. \A s \in Key(W) : \A i \in 1..W : ~(s[i] < s[i])
    BY <1>1
  <2> QED BY <1>2, <2>1
<1>4. ASSUME NEW s \in Key(W), NEW t \in Key(W), s # t
      PROVE  Before(s, t) \/ Before(t, s)
  <2> DEFINE T == {i \in 1..W : s[i] # t[i]}
  <2>1. T # {} /\ T \in SUBSET Nat
    BY <1>4 DEF Key
  <2>2. PICK i \in T : \A j \in T : i <= j
    BY <2>1, LeastNat
  <2>3. i \in 1..W /\ s[i] \in Int /\ t[i] \in Int /\ s[i] # t[i]
    BY <1>1, <2>2
  <2>4. \A j \in 1..(i - 1) : s[j] = t[j]
    <3>1. \A j \in 1..(i - 1) : j \in 1..W /\ ~(i <= j)
      BY <2>3
    <3> QED BY <2>2, <3>1
  <2>5. less(s, t, i) \/ less(t, s, i)
    BY <2>3, <2>4
  <2> HIDE DEF less
  <2> QED BY <1>2, <2>3, <2>5
<1>5. ASSUME NEW s \in Key(W), NEW t \in Key(W), NEW u \in Key(W), Before(s, t), Before(t, u)
      PROVE  Before(s, u)
  <2>1. PICK i \in 1..W : less(s, t, i)
    BY <1>2, <1>5
  <2>2. PICK k \in 1..W : less(t, u, k)
    BY <1>2, <1>5
  <2>3. \A j \in 1..W : s[j] \in Int /\ t[j] \in Int /\ u[j] \in Int
    BY <1>1
  <2>4. CASE i < k
    <3>1. i \in 1..(k - 1) /\ \A j \in 1..(i - 1) : j \in 1..(k - 1)
      BY <2>4
    <3>2. less(s, u, i)
      BY <2>1, <2>2, <2>3, <3>1
    <3> QED BY <1>2, <3>2
  <2>5. CASE k < i
    <3>1. k \in 1..(i - 1) /\ \A j \in 1..(k - 1) : j \in 1..(i - 1)
      BY <2>5
    <3>2. less(s, u, k)
      BY <2>1, <2>2, <2>3, <3>1
    <3> QED BY <1>2, <3>2
  <2>6. CASE k = i
    <3>1. s[i] < t[i] /\ t[i] < u[i]
      BY <2>1, <2>2, <2>6
    <3>2. s[i] < u[i]
      BY <2>3, <3>1
    <3>3. less(s, u, i)
      BY <2>1, <2>2, <2>6, <3>2
    <3> QED BY <1>2, <3>3
  <2> QED BY <2>4, <2>5, <2>6
<1> QED BY <1>2, <1>3, <1>4, <1>5

\* Whatever has keys of one length can be sorted by them.
LEMMA CanBeSorted ==
    ASSUME NEW W \in Nat, NEW N \in Nat, NEW k, \A i \in 1..N : k[i] \in Key(W)
    PROVE  \E q \in Orders(N) : Monotone([i \in 1..N |-> k[q[i]]])
<1> DEFINE before(i, j) == Before(k[i], k[j]) \/ (k[i] = k[j] /\ i < j)
           R == {x \in (1..N) \X (1..N) : before(x[1], x[2])}
<1>1. \A i, j \in 1..N : <<i, j>> \in R <=> before(i, j)
  OBVIOUS
<1> HIDE DEF R
<1>2. Strict(R, 1..N)
  <2>1. \A i \in 1..N : ~before(i, i)
    BY BeforeOrders
  <2>2. ASSUME NEW i \in 1..N, NEW j \in 1..N, i # j
        PROVE  before(i, j) \/ before(j, i)
    <3>1. i < j \/ j < i
      BY <2>2
    <3>2. k[i] \in Key(W) /\ k[j] \in Key(W)
      OBVIOUS
    <3>3. k[i] # k[j] => Before(k[i], k[j]) \/ Before(k[j], k[i])
      BY <3>2, BeforeOrders
    <3> QED BY <3>1, <3>3
  <2>3. ASSUME NEW i \in 1..N, NEW j \in 1..N, NEW l \in 1..N, before(i, j), before(j, l)
        PROVE  before(i, l)
    <3>1. i < j /\ j < l => i < l
      OBVIOUS
    <3>2. k[i] \in Key(W) /\ k[j] \in Key(W) /\ k[l] \in Key(W)
      OBVIOUS
    <3> QED BY <2>3, <3>1, <3>2, BeforeOrders
  <2> HIDE DEF before
  <2> QED BY <1>1, <2>1, <2>2, <2>3 DEF Strict
<1>3. PICK q \in Orders(N) : \A i, j \in 1..N : i < j => <<q[i], q[j]>> \in R
  BY <1>2, CanBeArranged
<1>4. \A i \in 1..N : q[i] \in 1..N
  BY DEF Orders
<1>5. PICK s : s = [i \in 1..N |-> k[q[i]]]
  OBVIOUS
<1>6. \A i \in 1..(N - 1) : ~Before(s[i + 1], s[i])
  <2> SUFFICES ASSUME NEW i \in 1..(N - 1) PROVE ~Before(s[i + 1], s[i])
    OBVIOUS
  <2>1. i \in 1..N /\ i + 1 \in 1..N /\ i < i + 1
    OBVIOUS
  <2>2. <<q[i], q[i + 1]>> \in R
    BY <1>3, <2>1
  <2>3. q[i] \in 1..N /\ q[i + 1] \in 1..N
    BY <1>4, <2>1
  <2>4. before(q[i], q[i + 1])
    BY <1>1, <2>2, <2>3
  <2>5. s[i] = k[q[i]] /\ s[i + 1] = k[q[i + 1]]
    BY <1>5, <2>1
  <2>6. s[i] \in Key(W) /\ s[i + 1] \in Key(W)
    BY <2>3, <2>5
  <2>7. Before(s[i], s[i + 1]) \/ s[i] = s[i + 1]
    BY <2>4, <2>5
  <2> QED BY <2>6, <2>7, BeforeOrders
<1>7. Len(s) = N
  BY <1>5
<1>8. Monotone(s)
  BY <1>6, <1>7 DEF Monotone
<1> QED BY <1>5, <1>8

\* In an increasing list all keys differ; a list that is in order and not
\* increasing holds two keys that do not.
LEMMA IncreasingKeys ==
    ASSUME NEW W \in Nat, NEW N \in Nat, NEW k \in [1..N -> Key(W)]
    PROVE  /\ Increasing(k) => \A i, j \in 1..N : k[i] = k[j] => i = j
           /\ Monotone(k) /\ ~Increasing(k) => \E i, j \in 1..N : i # j /\ k[i] = k[j]
<1>1. Len(k) = N /\ \A i \in 1..N : k[i] \in Key(W)
  OBVIOUS
<1>2. ASSUME Increasing(k)
      PROVE  \A i, j \in 1..N : k[i] = k[j] => i = j
  <2>1. \A i \in 1..(N - 1) : Before(k[i], k[i + 1])
    BY <1>1, <1>2 DEF Increasing
  <2> DEFINE S == {n \in 0..N : \A i, j \in 1..n : i < j => Before(k[i], k[j])}
  <2>2. 0 \in S
    OBVIOUS
  <2>3. ASSUME NEW n \in 0..(N - 1), n \in S PROVE n + 1 \in S
    <3>1. n \in Nat /\ n + 1 \in 0..N
      OBVIOUS
    <3>2. ASSUME NEW i \in 1..(n + 1), NEW j \in 1..(n + 1), i < j
          PROVE  Before(k[i], k[j])
      <4>1. CASE j # n + 1
        <5>1. i \in 1..n /\ j \in 1..n
          BY <3>1, <3>2, <4>1
        <5> QED BY <2>3, <3>2, <5>1
      <4>2. CASE j = n + 1
        <5>1. i \in 1..n /\ n \in 1..(N - 1) /\ n \in 1..n
          BY <3>1, <3>2, <4>2
        <5>2. Before(k[n], k[j])
          BY <2>1, <4>2, <5>1
        <5>3. CASE i = n
          BY <5>2, <5>3
        <5>4. CASE i # n
          <6>1. i < n
            BY <5>1, <5>4, <3>1
          <6>2. Before(k[i], k[n])
            BY <2>3, <5>1, <6>1
          <6>3. i \in 1..N /\ n \in 1..N /\ j \in 1..N
            BY <3>1, <4>2, <5>1
          <6>4. k[i] \in Key(W) /\ k[n] \in Key(W) /\ k[j] \in Key(W)
            BY <1>1, <6>3
          <6> QED BY <5>2, <6>2, <6>4, BeforeOrders
        <5> QED BY <5>3, <5>4
      <4> QED BY <4>1, <4>2
    <3> QED BY <3>1, <3>2
  <2> HIDE DEF S
  <2>4. 0..N \subseteq S
    BY <2>2, <2>3, Counting
  <2>5. N \in S
    BY <2>4
  <2>6. \A i, j \in 1..N : i < j => Before(k[i], k[j])
    BY <2>5 DEF S
  <2> SUFFICES ASSUME NEW i \in 1..N, NEW j \in 1..N, k[i] = k[j], i # j PROVE FALSE
    OBVIOUS
  <2>7. i < j \/ j < i
    OBVIOUS
  <2>8. Before(k[i], k[i])
    BY <2>6, <2>7
  <2> QED BY <1>1, <2>8, BeforeOrders
<1>3. ASSUME Monotone(k), ~Increasing(k)
      PROVE  \E i, j \in 1..N : i # j /\ k[i] = k[j]
  <2>1. PICK i \in 1..(N - 1) : ~Before(k[i], k[i + 1]) /\ ~Before(k[i + 1], k[i])
    BY <1>1, <1>3 DEF Monotone, Increasing
  <2>2. i \in 1..N /\ i + 1 \in 1..N /\ i # i + 1
    OBVIOUS
  <2>3. k[i] \in Key(W) /\ k[i + 1] \in Key(W)
    BY <1>1, <2>2
  <2>4. k[i] = k[i + 1]
    BY <2>1, <2>3, BeforeOrders
  <2> QED BY <2>2, <2>4
<1> QED BY <1>2, <1>3

-----------------------------------------------------------------------------
(* Joining short sequences, element by element.                            *)
Joins(s, t, u) ==
    /\ Len(u) = Len(s) + Len(t)
    /\ \A i \in 1..Len(s) : u[i] = s[i]
    /\ \A i \in 1..Len(t) : u[Len(s) + i] = t[i]

\* A joined sequence is the one followed by the other.
LEMMA JoinsShow ==
    ASSUME NEW S, NEW s \in Seq(S), NEW t \in Seq(S)
    PROVE  s \o t \in Seq(S) /\ Joins(s, t, s \o t)
BY DEF Joins

\* Four and four elements are eight.
LEMMA JoinFourFour ==
    ASSUME NEW S, NEW s \in Seq(S), NEW t \in Seq(S), NEW u \in Seq(S), Joins(s, t, u),
           Len(s) = 4, Len(t) = 4
    PROVE  u = <<s[1], s[2], s[3], s[4], t[1], t[2], t[3], t[4]>>
<1>1. Len(u) = 8 /\ (\A i \in 1..4 : u[i] = s[i]) /\ \A i \in 1..4 : u[4 + i] = t[i]
  BY DEF Joins
<1>2. /\ u[1] = s[1] /\ u[2] = s[2] /\ u[3] = s[3] /\ u[4] = s[4]
      /\ u[4 + 1] = t[1] /\ u[4 + 2] = t[2] /\ u[4 + 3] = t[3] /\ u[4 + 4] = t[4]
  BY <1>1
<1>3. u = <<u[1], u[2], u[3], u[4], u[5], u[6], u[7], u[8]>>
  BY <1>1
<1> QED BY <1>2, <1>3

\* The same for sequences written out.
LEMMA FourAndFour ==
    ASSUME NEW a, NEW b, NEW c, NEW d, NEW e, NEW f, NEW g, NEW h
    PROVE  <<a, b, c, d>> \o <<e, f, g, h>> = <<a, b, c, d, e, f, g, h>>
<1>0. PICK Z : Z = {a, b, c, d, e, f, g, h}
  OBVIOUS
<1>1. PICK s : s = <<a, b, c, d>>
  OBVIOUS
<1>2. PICK t : t = <<e, f, g, h>>
  OBVIOUS
<1>3. Len(s) = 4 /\ s[1] = a /\ s[2] = b /\ s[3] = c /\ s[4] = d
  BY <1>1
<1>4. Len(t) = 4 /\ t[1] = e /\ t[2] = f /\ t[3] = g /\ t[4] = h
  BY <1>2
<1>5. s \in Seq(Z)
  BY <1>0, <1>1
<1>6. t \in Seq(Z)
  BY <1>0, <1>2
<1>7. PICK u : u = s \o t
  OBVIOUS
<1>8. u \in Seq(Z) /\ Joins(s, t, u)
  BY <1>5, <1>6, <1>7, JoinsShow
<1>9. u = <<s[1], s[2], s[3], s[4], t[1], t[2], t[3], t[4]>>
  BY <1>8, <1>3, <1>4, <1>5, <1>6, JoinFourFour
<1>10. u = <<a, b, c, d, e, f, g, h>>
  BY <1>9, <1>3, <1>4
<1> QED BY <1>1, <1>2, <1>7, <1>10

\* Eight and two elements are ten.
LEMMA JoinEightTwo ==
    ASSUME NEW S, NEW s \in Seq(S), NEW t \in Seq(S), NEW u \in Seq(S), Joins(s, t, u),
           Len(s) = 8, Len(t) = 2
    PROVE  u = <<s[1], s[2], s[3], s[4], s[5], s[6], s[7], s[8], t[1], t[2]>>
<1>1. Len(u) = 10 /\ (\A i \in 1..8 : u[i] = s[i]) /\ \A i \in 1..2 : u[8 + i] = t[i]
  BY DEF Joins
<1>2. /\ u[1] = s[1] /\ u[2] = s[2] /\ u[3] = s[3] /\ u[4] = s[4] /\ u[5] = s[5] /\ u[6] = s[6] /\ u[7] = s[7] /\ u[8] = s[8]
      /\ u[8 + 1] = t[1] /\ u[8 + 2] = t[2]
  BY <1>1
<1>3. u = <<u[1], u[2], u[3], u[4], u[5], u[6], u[7], u[8], u[9], u[10]>>
  BY <1>1
<1> QED BY <1>2, <1>3

\* The same for sequences written out.
LEMMA EightAndTwo ==
    ASSUME NEW a, NEW b, NEW c, NEW d, NEW e, NEW f, NEW g, NEW h, NEW k, NEW l
    PROVE  <<a, b, c, d, e, f, g, h>> \o <<k, l>> = <<a, b, c, d, e, f, g, h, k, l>>
<1>0. PICK Z : Z = {a, b, c, d, e, f, g, h, k, l}
  OBVIOUS
<1>1. PICK s : s = <<a, b, c, d, e, f, g, h>>
  OBVIOUS
<1>2. PICK t : t = <<k, l>>
  OBVIOUS
<1>3. Len(s) = 8 /\ s[1] = a /\ s[2] = b /\ s[3] = c /\ s[4] = d /\ s[5] = e /\ s[6] = f /\ s[7] = g /\ s[8] = h
  BY <1>1
<1>4. Len(t) = 2 /\ t[1] = k /\ t[2] = l
  BY <1>2
<1>5. s \in Seq(Z)
  BY <1>0, <1>1
<1>6. t \in Seq(Z)
  BY <1>0, <1>2
<1>7. PICK u : u = s \o t
  OBVIOUS
<1>8. u \in Seq(Z) /\ Joins(s, t, u)
  BY <1>5, <1>6, <1>7, JoinsShow
<1>9. u = <<s[1], s[2], s[3], s[4], s[5], s[6], s[7], s[8], t[1], t[2]>>
  BY <1>8, <1>3, <1>4, <1>5, <1>6, JoinEightTwo
<1>10. u = <<a, b, c, d, e, f, g, h, k, l>>
  BY <1>9, <1>3, <1>4
<1> QED BY <1>1, <1>2, <1>7, <1>10

\* Ten and four elements are fourteen.
LEMMA JoinTenFour ==
    ASSUME NEW S, NEW s \in Seq(S), NEW t \in Seq(S), NEW u \in Seq(S), Joins(s, t, u),
           Len(s) = 10, Len(t) = 4
    PROVE  u = <<s[1], s[2], s[3], s[4], s[5], s[6], s[7], s[8], s[9], s[10], t[1], t[2], t[3], t[4]>>
<1>1. Len(u) = 14 /\ (\A i \in 1..10 : u[i] = s[i]) /\ \A i \in 1..4 : u[10 + i] = t[i]
  BY DEF Joins
<1>2. /\ u[1] = s[1] /\ u[2] = s[2] /\ u[3] = s[3] /\ u[4] = s[4] /\ u[5] = s[5] /\ u[6] = s[6] /\ u[7] = s[7] /\ u[8] = s[8] /\ u[9] = s[9] /\ u[10] = s[10]
      /\ u[10 + 1] = t[1] /\ u[10 + 2] = t[2] /\ u[10 + 3] = t[3] /\ u[10 + 4] = t[4]
  BY <1>1
<1>3. u = <<u[1], u[2], u[3], u[4], u[5], u[6], u[7], u[8], u[9], u[10], u[11], u[12], u[13], u[14]>>
  BY <1>1
<1> QED BY <1>2, <1>3

\* The same for sequences written out.
LEMMA TenAndFour ==
    ASSUME NEW a, NEW b, NEW c, NEW d, NEW e, NEW f, NEW g, NEW h, NEW k, NEW l, NEW m, NEW n, NEW p, NEW q
    PROVE  <<a, b, c, d, e, f, g, h, k, l>> \o <<m, n, p, q>> = <<a, b, c, d, e, f, g, h, k, l, m, n, p, q>>
<1>0. PICK Z : Z = {a, b, c, d, e, f, g, h, k, l, m, n, p, q}
  OBVIOUS
<1>1. PICK s : s = <<a, b, c, d, e, f, g, h, k, l>>
  OBVIOUS
<1>2. PICK t : t = <<m, n, p, q>>
  OBVIOUS
<1>3. Len(s) = 10 /\ s[1] = a /\ s[2] = b /\ s[3] = c /\ s[4] = d /\ s[5] = e /\ s[6] = f /\ s[7] = g /\ s[8] = h /\ s[9] = k /\ s[10] = l
  BY <1>1
<1>4. Len(t) = 4 /\ t[1] = m /\ t[2] = n /\ t[3] = p /\ t[4] = q
  BY <1>2
<1>5. s \in Seq(Z)
  BY <1>0, <1>1
<1>6. t \in Seq(Z)
  BY <1>0, <1>2
<1>7. PICK u : u = s \o t
  OBVIOUS
<1>8. u \in Seq(Z) /\ Joins(s, t, u)
  BY <1>5, <1>6, <1>7, JoinsShow
<1>9. u = <<s[1], s[2], s[3], s[4], s[5], s[6], s[7], s[8], s[9], s[10], t[1], t[2], t[3], t[4]>>
  BY <1>8, <1>3, <1>4, <1>5, <1>6, JoinTenFour
<1>10. u = <<a, b, c, d, e, f, g, h, k, l, m, n, p, q>>
  BY <1>9, <1>3, <1>4
<1> QED BY <1>1, <1>2, <1>7, <1>10

-----------------------------------------------------------------------------
(* The keys of artifacts, facts and warnings.                              *)

\* The order key of an artifact that comes from the source, by what it shows.
KeyOf(look, data, size, length, occurrence) ==
    <<0, 0, 0, 0, 2 + look, data, size, length, 1, occurrence, 2 + look, data, size, length>>

\* An order key tells apart what is not alike.
LEMMA KeysOfShows ==
    ASSUME NEW l \in Nat, NEW d \in Nat, NEW s \in Nat, NEW n \in Nat, NEW o \in Nat
    PROVE  /\ KeyOf(l, d, s, n, o) \in Key(14)
           /\ \A m, e, t, k, q \in Nat :
                 KeyOf(l, d, s, n, o) = KeyOf(m, e, t, k, q)
                     => l = m /\ d = e /\ s = t /\ o = q
<1>1. /\ DOMAIN KeyOf(l, d, s, n, o) = 1..14
      /\ \A i \in 1..14 : KeyOf(l, d, s, n, o)[i] \in Int
  BY DEF KeyOf
<1>2. KeyOf(l, d, s, n, o) = [i \in 1..14 |-> KeyOf(l, d, s, n, o)[i]]
  BY DEF KeyOf
<1>3. KeyOf(l, d, s, n, o) \in Key(14)
  BY <1>1, <1>2 DEF Key
<1>4. ASSUME NEW m \in Nat, NEW e \in Nat, NEW t \in Nat, NEW k \in Nat, NEW q \in Nat,
             KeyOf(l, d, s, n, o) = KeyOf(m, e, t, k, q)
      PROVE  l = m /\ d = e /\ s = t /\ o = q
  <2>1. /\ KeyOf(l, d, s, n, o)[5] = 2 + l /\ KeyOf(l, d, s, n, o)[6] = d
        /\ KeyOf(l, d, s, n, o)[7] = s /\ KeyOf(l, d, s, n, o)[10] = o
        /\ KeyOf(m, e, t, k, q)[5] = 2 + m /\ KeyOf(m, e, t, k, q)[6] = e
        /\ KeyOf(m, e, t, k, q)[7] = t /\ KeyOf(m, e, t, k, q)[10] = q
    BY DEF KeyOf
  <2> QED BY <1>4, <2>1
<1> QED BY <1>3, <1>4

\* There is one way to arrange one thing.
LEMMA OrdersOfOne == \A q \in Orders(1) : q[1] = 1
BY DEF Orders

\* A single relation is its own list in order.
LEMMA OneRelationKey ==
    ASSUME NEW refs, NEW a, NEW r, a.relations = <<r>>
    PROVE  RelationKeys(refs, a) = <<RelationKey(refs, a, r)>>
<1> DEFINE s == [i \in 1..Len(a.relations) |-> RelationKey(refs, a, a.relations[i])]
           ordered(q) == Monotone([i \in 1..Len(s) |-> s[q[i]]])
           p == CHOOSE q \in Orders(Len(s)) : ordered(q)
<1>1. RelationKeys(refs, a) = [i \in 1..Len(s) |-> s[p[i]]]
  BY DEF RelationKeys, SortedBy
<1>2. Len(a.relations) = 1 /\ a.relations[1] = r
  OBVIOUS
<1>3. Len(s) = 1 /\ s[1] = RelationKey(refs, a, r) /\ s = <<RelationKey(refs, a, r)>>
  BY <1>2
<1>4. \E q \in Orders(Len(s)) : ordered(q)
  <2>1. PICK q : q = [i \in 1..1 |-> 1]
    OBVIOUS
  <2>2. q \in Orders(1)
    BY <2>1 DEF Orders
  <2>3. PICK t : t = [i \in 1..Len(s) |-> s[q[i]]]
    OBVIOUS
  <2> HIDE DEF s
  <2>4. Len(t) = 1
    BY <1>3, <2>3
  <2>5. \A i \in 1..(1 - 1) : FALSE
    OBVIOUS
  <2>6. Monotone(t)
    BY <2>4, <2>5 DEF Monotone
  <2> QED BY <1>3, <2>2, <2>3, <2>6
<1> HIDE DEF ordered
<1>5. p \in Orders(Len(s))
  BY <1>4
<1> HIDE DEF p, s
<1>6. p[1] = 1
  BY <1>3, <1>5, OrdersOfOne
<1>7. [i \in 1..Len(s) |-> s[p[i]]] = <<s[1]>>
  BY <1>3, <1>6
<1> QED BY <1>1, <1>3, <1>7

\* The order key of an artifact that has one relation, to itself.
LEMMA OneOrderKey ==
    ASSUME NEW refs, NEW a, NEW r, a.relations = <<r>>, r.kind = "derived_from", r.to = a.id,
           Endpoint(refs, a, r.from) = SourceKey,
           NEW x \in Nat, NEW y \in Nat, a.identity = <<"sha256", x, y>>,
           a.look \in Nat, a.length \in Nat, r.occurrence \in Nat
    PROVE  OrderKey(refs, a) = KeyOf(a.look, x, y, a.length, r.occurrence)
<1> DEFINE key == RelationKey(refs, a, r)
           keys == RelationKeys(refs, a)
           Joined(f) == f = [n \in 0..Len(keys) |-> IF n = 0 THEN <<>> ELSE f[n - 1] \o keys[n]]
<1>1. keys = <<key>> /\ Len(keys) = 1 /\ keys[1] = key
  BY OneRelationKey
<1>2. OrderKey(refs, a) = (CHOOSE f : Joined(f))[Len(keys)] \o ReferenceKey(a)
  BY DEF OrderKey
<1>3. ReferenceKey(a) = <<2 + a.look, x, y, a.length>>
  BY DEF ReferenceKey
<1>4. key = (<<0, 0, 0, 0>> \o <<2 + a.look, x, y, a.length>>) \o <<1, r.occurrence>>
  <2>1. Endpoint(refs, a, r.to) = ReferenceKey(a)
    BY DEF Endpoint
  <2>2. KindRank(r.kind) = 1
    BY DEF KindRank
  <2> QED BY <1>3, <2>1, <2>2 DEF RelationKey, SourceKey
<1> HIDE DEF keys, key
<1>5. <<0, 0, 0, 0>> \o <<2 + a.look, x, y, a.length>>
          = <<0, 0, 0, 0, 2 + a.look, x, y, a.length>>
  BY FourAndFour
<1>6. key = <<0, 0, 0, 0, 2 + a.look, x, y, a.length, 1, r.occurrence>>
  <2>1. <<0, 0, 0, 0, 2 + a.look, x, y, a.length>> \o <<1, r.occurrence>>
            = <<0, 0, 0, 0, 2 + a.look, x, y, a.length, 1, r.occurrence>>
    BY EightAndTwo
  <2> QED BY <1>4, <1>5, <2>1
<1>7. key \in Seq(Int)
  BY <1>6
<1>8. <<>> \o key = key
  BY <1>7
<1>9. \E f : Joined(f)
  <2>1. PICK f : f = [n \in 0..1 |-> IF n = 0 THEN <<>> ELSE key]
    OBVIOUS
  <2>2. f[0] = <<>> /\ f[1] = key
    BY <2>1
  <2>3. \A n \in 0..1 : f[n] = IF n = 0 THEN <<>> ELSE f[n - 1] \o keys[n]
    <3>1. ASSUME NEW n \in 0..1, n = 1
          PROVE  f[n] = f[n - 1] \o keys[n]
      <4>1. n - 1 = 0
        BY <3>1
      <4> QED BY <1>1, <1>8, <2>2, <3>1, <4>1, Zenon
    <3>2. \A n \in 0..1 : n = 0 \/ (n # 0 /\ n = 1)
      OBVIOUS
    <3> QED BY <2>2, <3>1, <3>2, Zenon
  <2>4. f = [n \in 0..1 |-> IF n = 0 THEN <<>> ELSE f[n - 1] \o keys[n]]
    BY <2>1, <2>3
  <2> QED BY <1>1, <2>4
<1>10. PICK f : Joined(f) /\ OrderKey(refs, a) = f[Len(keys)] \o ReferenceKey(a)
  <2> HIDE DEF Joined
  <2> QED BY <1>2, <1>9
<1>11. f[0] = <<>> /\ f[1] = f[0] \o keys[1]
  <2>1. f = [n \in 0..1 |-> IF n = 0 THEN <<>> ELSE f[n - 1] \o keys[n]]
    BY <1>1, <1>10
  <2>2. 0 \in 0..1 /\ 1 \in 0..1 /\ 1 # 0 /\ 1 - 1 = 0
    OBVIOUS
  <2> QED BY <2>1, <2>2
<1>12. f[1] = key
  BY <1>1, <1>8, <1>11
<1>13. OrderKey(refs, a) = <<0, 0, 0, 0, 2 + a.look, x, y, a.length, 1, r.occurrence>>
                              \o <<2 + a.look, x, y, a.length>>
  BY <1>1, <1>3, <1>6, <1>10, <1>12
<1>14. <<0, 0, 0, 0, 2 + a.look, x, y, a.length, 1, r.occurrence>>
           \o <<2 + a.look, x, y, a.length>>
           = KeyOf(a.look, x, y, a.length, r.occurrence)
  BY TenAndFour DEF KeyOf
<1> QED BY <1>13, <1>14

-----------------------------------------------------------------------------
(* The stages of sealing, exactly.                                         *)

\* What the artifacts take, one by one and together.
Sizes(c) == [i \in DOMAIN c.artifacts |-> Owned[c.artifacts[i].slice].size]
Paid(c)  == CHOOSE f : Sums(f, Sizes(c), Len(c.artifacts))

\* A draft is the artifact, in a store of its own after the source's.
Exact(d, h, c) ==
    LET raw == c.artifacts[d.raw]
        b == Owned[raw.slice]
    IN  /\ d.raw \in DOMAIN c.artifacts /\ raw.described
        /\ d.store \in (SourceStore + 1)..Len(h)
        /\ d.look = raw.look /\ d.occurrence = raw.occurrence
        /\ h[d.store] = b
        /\ d.identity = <<"sha256", b.data, b.size>>
        /\ d.length = b.size

OwnKey(d) == KeyOf(d.look, d.identity[2], d.identity[3], d.length, d.occurrence)

Working == pc \notin {"start", "returned"}
Sorted  == pc \in {"rewriting", "assembling", "verifying"}
Closed  == pc \in {"assembling", "verifying"}

Drafted ==
    /\ pc = "start" => drafts = <<>> /\ heap = Owned
    /\ Working =>
          /\ ~conversion.foreign
          /\ heap[SourceStore] = Owned[1]
          /\ \A i \in DOMAIN drafts : Exact(drafts[i], heap, conversion)
          /\ \A i, j \in DOMAIN drafts :
                drafts[i].store = drafts[j].store \/ drafts[i].raw = drafts[j].raw => i = j
    /\ pc = "drafting" => \A i \in DOMAIN drafts : drafts[i].raw = i

Metered ==
    /\ pc \in {"start", "drafting", "rewriting"} => ledger.primaryBytes = 0
    /\ pc = "start" \/ Working =>
          /\ Len(drafts) <= Len(conversion.artifacts)
          /\ ledger.artifactCount = Len(drafts)
          /\ ledger.artifactBytes = Paid(conversion)[Len(drafts)]
          /\ \A i \in DOMAIN drafts : drafts[i].length <= MaxArtifactBytes
    /\ Closed => conversion.text <= MaxPrimaryBytes

\* Every artifact is one draft.
Covered ==
    /\ Len(drafts) = Len(conversion.artifacts)
    /\ \A i \in DOMAIN drafts : drafts[i].raw \in DOMAIN conversion.artifacts
    /\ \A i, j \in DOMAIN drafts : drafts[i].raw = drafts[j].raw => i = j

Arranged ==
    /\ Sorted \/ outcome = "ok" => Covered
    /\ Sorted => Increasing([i \in 1..Len(drafts) |-> OwnKey(drafts[i])])

Written ==
    Closed =>
        /\ heap[Len(heap)] = [data |-> tokens, size |-> conversion.text, present |-> TRUE]
        /\ \A i \in DOMAIN drafts : drafts[i].store < Len(heap)
        /\ conversion.rewrite => \A i \in DOMAIN conversion.tokens :
               conversion.tokens[i].opened =>
                   /\ conversion.tokens[i].shaped
                   /\ conversion.tokens[i].ordinal \in DOMAIN conversion.artifacts

Enveloped == pc = "verifying" => envelope = Assembled /\ ~FactsClash

StageInv == SealInv /\ Drafted /\ Metered /\ Arranged /\ Written /\ Enveloped

-----------------------------------------------------------------------------
\* What the owners hold.
LEMMA SliceTypes ==
    /\ 1 \in DOMAIN Owned
    /\ \A k \in DOMAIN Owned : /\ Owned[k] \in Slice
                               /\ Owned[k].data \in Nat /\ Owned[k].size \in Nat
                               /\ Owned[k].present \in BOOLEAN
<1>1. Owned \in Seq(Slice) /\ Owned # <<>>
  BY SealAssumption
<1>2. \A k \in DOMAIN Owned : Owned[k] \in Slice
  BY <1>1
<1> QED BY <1>1, <1>2 DEF Slice

\* The parts of a draft.
LEMMA DraftTypes ==
    ASSUME Shapes, NEW i \in DOMAIN drafts
    PROVE  /\ i \in 1..Len(drafts) /\ Len(drafts) \in Nat
           /\ drafts[i] \in DraftSet
           /\ drafts[i].look \in Nat /\ drafts[i].length \in Nat
           /\ drafts[i].occurrence \in Nat /\ drafts[i].store \in Nat /\ drafts[i].raw \in Nat
<1>1. drafts \in Seq(DraftSet)
  BY DEF Shapes
<1>2. drafts[i] \in DraftSet /\ i \in 1..Len(drafts) /\ Len(drafts) \in Nat
  BY <1>1
<1> QED BY <1>2 DEF DraftSet

\* The key of a draft, by the artifact it was made from.
LEMMA DraftKeys ==
    ASSUME Shapes, NEW i \in DOMAIN drafts, Exact(drafts[i], heap, conversion)
    PROVE  LET raw == conversion.artifacts[drafts[i].raw]
               b == Owned[raw.slice]
           IN  /\ OwnKey(drafts[i]) = KeyOf(raw.look, b.data, b.size, b.size, raw.occurrence)
               /\ raw.look \in Nat /\ b.data \in Nat /\ b.size \in Nat /\ raw.occurrence \in Nat
               /\ OwnKey(drafts[i]) \in Key(14)
<1> DEFINE raw == conversion.artifacts[drafts[i].raw]
           b == Owned[raw.slice]
<1>1. raw \in Raw
  BY ConversionTypes DEF Exact
<1>2. raw.look \in Nat /\ raw.occurrence \in Nat /\ raw.slice \in DOMAIN Owned
  BY <1>1 DEF Raw
<1>3. b.data \in Nat /\ b.size \in Nat
  BY <1>2, SliceTypes
<1>4. /\ drafts[i].look = raw.look /\ drafts[i].occurrence = raw.occurrence
      /\ drafts[i].identity = <<"sha256", b.data, b.size>> /\ drafts[i].length = b.size
  BY DEF Exact
<1> HIDE DEF raw, b
<1>5. drafts[i].identity[2] = b.data /\ drafts[i].identity[3] = b.size
  BY <1>4
<1>6. OwnKey(drafts[i]) = KeyOf(raw.look, b.data, b.size, b.size, raw.occurrence)
  BY <1>4, <1>5 DEF OwnKey
<1>7. KeyOf(raw.look, b.data, b.size, b.size, raw.occurrence) \in Key(14)
  BY <1>2, <1>3, KeysOfShows
<1> QED BY <1>2, <1>3, <1>6, <1>7 DEF raw, b

\* Drafts that have the same key are of artifacts that are given alike.
LEMMA SameKeys ==
    ASSUME Shapes, NEW i \in DOMAIN drafts, Exact(drafts[i], heap, conversion),
           NEW j \in DOMAIN drafts, Exact(drafts[j], heap, conversion),
           OwnKey(drafts[i]) = OwnKey(drafts[j])
    PROVE  Given(conversion.artifacts[drafts[i].raw]) = Given(conversion.artifacts[drafts[j].raw])
<1> DEFINE raw == conversion.artifacts[drafts[i].raw]
           b == Owned[raw.slice]
           other == conversion.artifacts[drafts[j].raw]
           k == Owned[other.slice]
<1>1. /\ OwnKey(drafts[i]) = KeyOf(raw.look, b.data, b.size, b.size, raw.occurrence)
      /\ raw.look \in Nat /\ b.data \in Nat /\ b.size \in Nat /\ raw.occurrence \in Nat
  BY DraftKeys
<1>2. /\ OwnKey(drafts[j]) = KeyOf(other.look, k.data, k.size, k.size, other.occurrence)
      /\ other.look \in Nat /\ k.data \in Nat /\ k.size \in Nat /\ other.occurrence \in Nat
  BY DraftKeys
<1>3. raw.look = other.look /\ b.data = k.data /\ b.size = k.size /\ raw.occurrence = other.occurrence
  <2> HIDE DEF raw, b, other, k
  <2>1. PICK l \in Nat, d \in Nat, s \in Nat, o \in Nat :
           l = raw.look /\ d = b.data /\ s = b.size /\ o = raw.occurrence
    BY <1>1
  <2>2. PICK m \in Nat, e \in Nat, t \in Nat, q \in Nat :
           m = other.look /\ e = k.data /\ t = k.size /\ q = other.occurrence
    BY <1>2
  <2>3. KeyOf(l, d, s, s, o) = KeyOf(m, e, t, t, q)
    BY <1>1, <1>2, <2>1, <2>2
  <2>4. /\ KeyOf(l, d, s, s, o)[5] = 2 + l /\ KeyOf(l, d, s, s, o)[6] = d
        /\ KeyOf(l, d, s, s, o)[7] = s /\ KeyOf(l, d, s, s, o)[10] = o
    BY DEF KeyOf
  <2>5. /\ KeyOf(m, e, t, t, q)[5] = 2 + m /\ KeyOf(m, e, t, t, q)[6] = e
        /\ KeyOf(m, e, t, t, q)[7] = t /\ KeyOf(m, e, t, t, q)[10] = q
    BY DEF KeyOf
  <2>6. 2 + l = 2 + m /\ d = e /\ s = t /\ o = q
    BY <2>3, <2>4, <2>5
  <2>7. l = m
    BY <2>6
  <2> QED BY <2>1, <2>2, <2>6, <2>7
<1> QED BY <1>3 DEF Given, Thing

\* The order key of an artifact of the envelope is that of its draft.
LEMMA ContentKey ==
    ASSUME NEW refs, NEW d, NEW id, NEW x \in Nat, NEW y \in Nat,
           d.identity = <<"sha256", x, y>>,
           d.look \in Nat, d.length \in Nat, d.occurrence \in Nat,
           Endpoint(refs, ContentArtifact(d, id), SourceIdentity) = SourceKey
    PROVE  OrderKey(refs, ContentArtifact(d, id)) = OwnKey(d)
<1>1. PICK a : a = ContentArtifact(d, id)
  OBVIOUS
<1>2. PICK r : r = Relation(SourceIdentity, id, d.occurrence)
  OBVIOUS
<1>3. /\ a.relations = <<r>> /\ a.id = id /\ a.look = d.look /\ a.length = d.length
      /\ a.identity = d.identity
  BY <1>1, <1>2 DEF ContentArtifact
<1>4. r.kind = "derived_from" /\ r.to = id /\ r.from = SourceIdentity /\ r.occurrence = d.occurrence
  BY <1>2 DEF Relation
<1>5. OrderKey(refs, a) = KeyOf(a.look, x, y, a.length, r.occurrence)
  <2>1. Endpoint(refs, a, r.from) = SourceKey
    BY <1>1, <1>4
  <2> QED BY <1>3, <1>4, <2>1, OneOrderKey
<1>6. d.identity[2] = x /\ d.identity[3] = y
  OBVIOUS
<1> QED BY <1>1, <1>3, <1>4, <1>5, <1>6 DEF OwnKey

\* No identity of content is the identifier of an artifact.
LEMMA IdentifiersApart ==
    /\ \A x, y, n : <<"sha256", x, y>> # ArtifactID(n)
    /\ \A m, n : ArtifactID(m) = ArtifactID(n) => m = n
<1>1. ASSUME NEW x, NEW y, NEW n PROVE <<"sha256", x, y>> # ArtifactID(n)
  <2>1. <<"sha256", x, y>>[1] = "sha256" /\ ArtifactID(n)[1] = "artifact"
    BY DEF ArtifactID
  <2> QED BY <2>1
<1>2. ASSUME NEW m, NEW n, ArtifactID(m) = ArtifactID(n) PROVE m = n
  <2>1. ArtifactID(m)[2] = m /\ ArtifactID(n)[2] = n
    BY DEF ArtifactID
  <2> QED BY <1>2, <2>1
<1> QED BY <1>1, <1>2

\* The key sorted by is the one the envelope shows.
LEMMA KeyOfDraft ==
    ASSUME Shapes, NEW i \in DOMAIN drafts, Exact(drafts[i], heap, conversion)
    PROVE  DraftKey(drafts[i]) = OwnKey(drafts[i])
<1> DEFINE b == Owned[conversion.artifacts[drafts[i].raw].slice]
<1>1. PICK refs : refs = <<[id |-> SourceIdentity, key |-> SourceKey]>>
  OBVIOUS
<1>2. /\ drafts[i].identity = <<"sha256", b.data, b.size>> /\ b.data \in Nat /\ b.size \in Nat
      /\ drafts[i].look \in Nat /\ drafts[i].length \in Nat /\ drafts[i].occurrence \in Nat
  BY DraftTypes, DraftKeys DEF Exact
<1>3. PICK a : a = ContentArtifact(drafts[i], ArtifactID(-1))
  OBVIOUS
<1>4. Endpoint(refs, a, SourceIdentity) = SourceKey
  <2>1. a.id = ArtifactID(-1)
    BY <1>3 DEF ContentArtifact
  <2>2. SourceIdentity # a.id
    BY <2>1, IdentifiersApart DEF SourceIdentity, Identity
  <2>3. DOMAIN refs = {1} /\ refs[1].id = SourceIdentity /\ refs[1].key = SourceKey
    BY <1>1
  <2> HIDE DEF SourceIdentity
  <2>4. Meaning(refs, SourceIdentity) = SourceKey
    BY <2>3 DEF Meaning
  <2> QED BY <2>2, <2>4 DEF Endpoint
<1> HIDE DEF b
<1>5. OrderKey(refs, a) = OwnKey(drafts[i])
  BY <1>2, <1>3, <1>4, ContentKey
<1> QED BY <1>1, <1>3, <1>5 DEF DraftKey

-----------------------------------------------------------------------------
(* What is charged.                                                        *)

\* A total that is said to pass its limit does.
LEMMA ExceedsMeans ==
    ASSUME NEW x \in Nat, NEW n \in Nat, NEW limit \in Nat, limit <= MaxInt64
    PROVE  ExceedsTotal(x, n, limit) => x + n > limit
<1>1. CASE ~checkedAdd(x, n).ok
  <2>1. x + n > MaxInt64
    BY <1>1, ValidLimits, CheckedAdd
  <2> QED BY <2>1, ValidLimits
<1>2. CASE checkedAdd(x, n).ok
  <2>1. checkedAdd(x, n).sum = x + n
    BY <1>2, CheckedAdd
  <2> QED BY <1>2, <2>1 DEF ExceedsTotal
<1> QED BY <1>1, <1>2

\* What admitting an artifact does to the ledger, and why it is refused.
LEMMA ArtifactCost ==
    ASSUME NEW b \in Ledger, NEW n \in Nat
    PROVE  LET call == AdmitArtifact(b, n)
           IN  /\ call.ledger.primaryBytes = b.primaryBytes
               /\ call.err = "nil" =>
                     /\ call.ledger.artifactCount = b.artifactCount + 1
                     /\ call.ledger.artifactBytes = b.artifactBytes + n
                     /\ n <= MaxArtifactBytes
               /\ call.err # "nil" =>
                     /\ call.err = "limit"
                     /\ \/ n > MaxArtifactBytes
                        \/ b.artifactCount >= MaxArtifacts
                        \/ b.artifactBytes + n > MaxTotalArtifactBytes
<1> DEFINE call == AdmitArtifact(b, n)
           refused == \/ n > MaxArtifactBytes
                      \/ b.artifactCount >= MaxArtifacts
                      \/ ExceedsTotal(b.artifactBytes, n, MaxTotalArtifactBytes)
<1>1. ~(n < 0) /\ b.artifactBytes \in Nat /\ b.artifactCount \in Nat /\ MaxTotalArtifactBytes \in Nat
      /\ MaxTotalArtifactBytes <= MaxInt64 /\ MaxArtifacts \in Nat /\ MaxArtifactBytes \in Nat
  BY ValidLimits DEF Ledger
<1>2. CASE refused
  <2>1. call = Refuse(b, "limit")
    BY <1>1, <1>2 DEF AdmitArtifact
  <2>2. call.ledger = b /\ call.err = "limit"
    BY <2>1 DEF Refuse
  <2>3. n > MaxArtifactBytes \/ b.artifactCount >= MaxArtifacts \/ b.artifactBytes + n > MaxTotalArtifactBytes
    BY <1>1, <1>2, ExceedsMeans
  <2> QED BY <2>2, <2>3
<1>3. CASE ~refused
  <2> DEFINE sum == checkedAdd(b.artifactBytes, n).sum
  <2>1. call = Accept([b EXCEPT !.artifactCount = @ + 1, !.artifactBytes = sum])
    BY <1>1, <1>3 DEF AdmitArtifact
  <2>2. sum = b.artifactBytes + n
    <3>1. /\ b.artifactBytes \in Nat /\ n \in Int /\ MaxTotalArtifactBytes \in Int
          /\ ~ExceedsTotal(b.artifactBytes, n, MaxTotalArtifactBytes)
      BY <1>1, <1>3
    <3> QED BY <3>1, TotalFits
  <2>3. n <= MaxArtifactBytes
    BY <1>1, <1>3
  <2> HIDE DEF sum
  <2>4. /\ call.err = "nil"
        /\ call.ledger = [b EXCEPT !.artifactCount = @ + 1, !.artifactBytes = sum]
    BY <2>1 DEF Accept
  <2>5. /\ call.ledger.artifactCount = b.artifactCount + 1
        /\ call.ledger.artifactBytes = sum
        /\ call.ledger.primaryBytes = b.primaryBytes
    BY <2>4 DEF Ledger
  <2> QED BY <2>2, <2>3, <2>4, <2>5
<1> QED BY <1>2, <1>3

\* The same of the primary artifact.
LEMMA PrimaryCost ==
    ASSUME NEW b \in Ledger, b.primaryBytes = 0, NEW n \in Nat
    PROVE  LET call == AdmitPrimary(b, n)
           IN  /\ call.ledger.artifactCount = b.artifactCount
               /\ call.ledger.artifactBytes = b.artifactBytes
               /\ call.err = "nil" => n <= MaxPrimaryBytes
               /\ call.err # "nil" => call.err = "limit" /\ n > MaxPrimaryBytes
<1> DEFINE call == AdmitPrimary(b, n)
<1>1. ~(n < 0) /\ 0 \in Nat /\ MaxPrimaryBytes \in Nat /\ MaxPrimaryBytes <= MaxInt64 /\ 0 + n = n
  BY ValidLimits
<1>2. CASE ExceedsTotal(b.primaryBytes, n, MaxPrimaryBytes)
  <2>1. call = Refuse(b, "limit")
    BY <1>1, <1>2 DEF AdmitPrimary
  <2>2. call.ledger = b /\ call.err = "limit"
    BY <2>1 DEF Refuse
  <2>3. 0 + n > MaxPrimaryBytes
    BY <1>1, <1>2, ExceedsMeans
  <2> QED BY <1>1, <2>2, <2>3
<1>3. CASE ~ExceedsTotal(b.primaryBytes, n, MaxPrimaryBytes)
  <2> DEFINE sum == checkedAdd(b.primaryBytes, n).sum
  <2>1. call = Accept([b EXCEPT !.primaryBytes = sum])
    BY <1>1, <1>3 DEF AdmitPrimary
  <2>2. 0 + n <= MaxPrimaryBytes
    <3>1. 0 \in Nat /\ n \in Int /\ MaxPrimaryBytes \in Int /\ ~ExceedsTotal(0, n, MaxPrimaryBytes)
      BY <1>1, <1>3
    <3> QED BY <3>1, TotalFits
  <2> HIDE DEF sum
  <2>4. /\ call.err = "nil"
        /\ call.ledger = [b EXCEPT !.primaryBytes = sum]
    BY <2>1 DEF Accept
  <2>5. /\ call.ledger.artifactCount = b.artifactCount
        /\ call.ledger.artifactBytes = b.artifactBytes
    BY <2>4 DEF Ledger
  <2> QED BY <1>1, <2>2, <2>4, <2>5
<1> QED BY <1>2, <1>3

\* The artifacts of a conversion and their sizes.
LEMMA SizeTypes ==
    ASSUME NEW c \in Conversion
    PROVE  /\ c.artifacts \in Seq(Raw) /\ c.text \in Nat
           /\ Len(c.artifacts) \in Nat /\ DOMAIN c.artifacts = 1..Len(c.artifacts)
           /\ DOMAIN Sizes(c) = 1..Len(c.artifacts)
           /\ \A i \in 1..Len(c.artifacts) :
                 /\ c.artifacts[i] \in Raw /\ c.artifacts[i].slice \in DOMAIN Owned
                 /\ Sizes(c)[i] \in Nat
                 /\ Sizes(c)[i] = Owned[c.artifacts[i].slice].size
<1>1. c.artifacts \in Seq(Raw) /\ c.text \in Nat
  BY DEF Conversion
<1>2. Len(c.artifacts) \in Nat /\ DOMAIN c.artifacts = 1..Len(c.artifacts)
      /\ \A i \in 1..Len(c.artifacts) : c.artifacts[i] \in Raw
  BY <1>1
<1>3. \A i \in 1..Len(c.artifacts) : c.artifacts[i].slice \in DOMAIN Owned
  BY <1>2 DEF Raw
<1>4. DOMAIN Sizes(c) = 1..Len(c.artifacts)
      /\ \A i \in 1..Len(c.artifacts) : Sizes(c)[i] = Owned[c.artifacts[i].slice].size
  BY <1>2 DEF Sizes
<1> QED BY <1>1, <1>2, <1>3, <1>4, SliceTypes

\* What the first artifacts take together only grows.
LEMMA PaidSums ==
    ASSUME NEW c \in Conversion
    PROVE  /\ Sums(Paid(c), Sizes(c), Len(c.artifacts))
           /\ Paid(c)[0] = 0
           /\ \A n \in 0..Len(c.artifacts) : Paid(c)[n] \in Nat /\ Paid(c)[n] <= Paid(c)[Len(c.artifacts)]
           /\ \A n \in 0..(Len(c.artifacts) - 1) : Paid(c)[n + 1] = Paid(c)[n] + Sizes(c)[n + 1]
<1>1. PICK N : N = Len(c.artifacts)
  OBVIOUS
<1>2. PICK a : a = Sizes(c)
  OBVIOUS
<1>3. N \in Nat /\ \A n \in 1..N : a[n] \in Nat
  BY <1>1, <1>2, SizeTypes
<1>4. PICK f : f = Paid(c)
  OBVIOUS
<1>5. Sums(f, a, N)
  <2>1. \E g : Sums(g, a, N)
    BY <1>3, SumsExist
  <2>2. f = CHOOSE g : Sums(g, a, N)
    BY <1>1, <1>2, <1>4 DEF Paid
  <2> QED BY <2>1, <2>2
<1>6. f[0] = 0 /\ \A n \in 0..(N - 1) : f[n + 1] = f[n] + a[n + 1]
  BY <1>3, <1>5, SumsStep
<1>7. \A n \in 0..N : f[n] \in Nat /\ f[n] <= f[N]
  BY <1>3, <1>5, SumsGrow
<1> QED BY <1>1, <1>2, <1>4, <1>5, <1>6, <1>7

\* Within the limits, without the recursion.
LEMMA WithinMeans ==
    ASSUME NEW c \in Conversion
    PROVE  Within(c) <=> /\ Len(c.artifacts) <= MaxArtifacts
                         /\ \A i \in DOMAIN c.artifacts : Sizes(c)[i] <= MaxArtifactBytes
                         /\ Paid(c)[Len(c.artifacts)] <= MaxTotalArtifactBytes
                         /\ c.text <= MaxPrimaryBytes
<1>1. Within(c) <=> /\ Len(c.artifacts) <= MaxArtifacts
                    /\ \A i \in DOMAIN Sizes(c) : Sizes(c)[i] <= MaxArtifactBytes
                    /\ Paid(c)[Len(c.artifacts)] <= MaxTotalArtifactBytes
                    /\ c.text <= MaxPrimaryBytes
  BY Zenon DEF Within, Paid, Sizes, Sums
<1>2. DOMAIN Sizes(c) = DOMAIN c.artifacts
  BY SizeTypes
<1> QED BY <1>1, <1>2

-----------------------------------------------------------------------------
(* The stages, step by step.                                               *)

\* Before the first step (ingestion.go:248-254).
LEMMA InitStages == Init => StageInv
<1> SUFFICES ASSUME Init PROVE StageInv
  OBVIOUS
<1>1. SealInv
  BY InitSeals
<1>2. pc = "start" /\ drafts = <<>> /\ heap = Owned /\ outcome = "pending" /\ conversion \in Conversion
  BY SealAssumption DEF Init
<1>3. Drafted
  BY <1>2 DEF Drafted, Working
<1>4. Metered
  <2>1. ZeroLedger \in Ledger
    BY ZeroLedgerFits
  <2>2. \E n : ledger = ZeroLedger \/ ledger = [ZeroLedger EXCEPT !.sourceBytes = n]
    BY DEF Init, AdmitSource, Refuse, Accept
  <2>3. ledger.primaryBytes = 0 /\ ledger.artifactCount = 0 /\ ledger.artifactBytes = 0
    BY <2>2 DEF ZeroLedger
  <2>4. Len(drafts) = 0 /\ Paid(conversion)[0] = 0 /\ Len(conversion.artifacts) \in Nat /\ DOMAIN drafts = {}
    BY <1>2, PaidSums, SizeTypes
  <2> QED BY <1>2, <2>3, <2>4 DEF Metered, Closed
<1>5. Arranged /\ Written /\ Enveloped
  BY <1>2 DEF Arranged, Sorted, Written, Closed, Enveloped
<1> QED BY <1>1, <1>3, <1>4, <1>5 DEF StageInv

(* A call that has failed has nothing to keep.                             *)
LEMMA FailedStages ==
    ASSUME SealInv', pc' = "returned", outcome' # "ok"
    PROVE  StageInv'
  BY DEF StageInv, Drafted, Metered, Arranged, Written, Enveloped, Working, Sorted, Closed

(* The copy of the source (ingestion.go:255-263).                          *)
LEMMA StartStages == StageInv /\ Start => StageInv'
<1> SUFFICES ASSUME StageInv, Start PROVE StageInv'
  OBVIOUS
<1>1. SealInv /\ SealInv'
  BY StartSeals DEF StageInv
<1>2. CASE cancelled \/ conversion.foreign
  <2>1. pc' = "returned" /\ outcome' # "ok"
    BY <1>2 DEF Start, Return
  <2> QED BY <1>1, <2>1, FailedStages
<1>3. CASE ~(cancelled \/ conversion.foreign)
  <2>1. /\ pc = "start" /\ heap' = Append(heap, heap[1]) /\ pc' = "drafting" /\ outcome' = outcome
        /\ UNCHANGED <<conversion, ledger, drafts, tokens, envelope>>
    BY <1>3 DEF Start, Clone, Proceed
  <2>2. drafts = <<>> /\ heap = Owned /\ DOMAIN drafts = {}
    BY <2>1 DEF StageInv, Drafted
  <2>3. heap'[SourceStore] = Owned[1]
    BY <2>1, <2>2, OwnedTypes DEF SourceStore
  <2>4. Drafted'
    BY <1>3, <2>1, <2>2, <2>3 DEF Drafted, Working, SourceStore
  <2>5. Metered'
    BY <2>1 DEF StageInv, Metered, Working, Closed
  <2>6. Arranged' /\ Written' /\ Enveloped'
    <3>1. outcome' # "ok"
      BY <2>1, <1>1 DEF SealInv, Decided
    <3> QED BY <2>1, <3>1 DEF Arranged, Sorted, Written, Closed, Enveloped
  <2> QED BY <1>1, <2>4, <2>5, <2>6 DEF StageInv
<1> QED BY <1>2, <1>3

\* What is added to the heap does not change what is in it.
LEMMA ExactStays ==
    ASSUME Shapes, NEW s \in Store, heap' = Append(heap, s), NEW d,
           Exact(d, heap, conversion), conversion' = conversion
    PROVE  Exact(d, heap', conversion') /\ d.store <= Len(heap) /\ d.store # Len(heap) + 1
<1>1. /\ Len(heap') = Len(heap) + 1 /\ Len(heap) \in Nat
      /\ \A k \in 1..Len(heap) : heap'[k] = heap[k]
  BY Grows
<1>2. SourceStore \in Nat /\ d.store \in (SourceStore + 1)..Len(heap)
  BY OwnedTypes DEF Exact, SourceStore
<1>3. d.store \in 1..Len(heap) /\ d.store \in (SourceStore + 1)..Len(heap')
      /\ d.store <= Len(heap) /\ d.store # Len(heap) + 1
  BY <1>1, <1>2
<1>4. heap'[d.store] = heap[d.store]
  BY <1>1, <1>3
<1> HIDE DEF SourceStore
<1> QED BY <1>3, <1>4 DEF Exact

(* The next artifact (ingestion.go:266-293).                               *)
LEMMA DraftStages == StageInv /\ Draft => StageInv'
<1> SUFFICES ASSUME StageInv, Draft PROVE StageInv'
  OBVIOUS
<1>0. SealInv /\ SealInv' /\ Shapes /\ Shapes' /\ conversion \in Conversion
  BY DraftSeals DEF StageInv, SealInv, Shapes
<1> DEFINE n == Len(drafts) + 1
           raw == conversion.artifacts[n]
           call == AdmitArtifact(ledger, heap[raw.slice].size)
           new == DraftOf(raw, n, Fresh)
<1>1. /\ pc = "drafting" /\ n <= Len(conversion.artifacts)
      /\ heap' = Append(heap, heap[raw.slice])
      /\ ledger' = call.ledger
      /\ UNCHANGED <<conversion, cancelled, tokens, envelope>>
      /\ \/ pc' = "returned" /\ outcome' = call.err /\ call.err # "nil"
         \/ pc' = "returned" /\ outcome' = "integrity"
         \/ /\ pc' = "drafting" /\ outcome' = outcome /\ drafts' = Append(drafts, new)
            /\ call.err = "nil" /\ raw.described
  BY DEF Draft, Clone, Return, Proceed
<1>2. n \in 1..Len(conversion.artifacts) /\ Len(drafts) \in Nat /\ DOMAIN drafts = 1..Len(drafts)
      /\ drafts \in Seq(DraftSet)
  <2>1. drafts \in Seq(DraftSet)
    BY <1>0 DEF Shapes
  <2>2. Len(conversion.artifacts) \in Nat
    BY <1>0, SizeTypes
  <2> QED BY <1>1, <2>1, <2>2
<1>3. /\ raw \in Raw /\ raw.slice \in DOMAIN Owned /\ raw.slice \in 1..Len(heap)
      /\ heap[raw.slice] \in Store /\ n \in DOMAIN conversion.artifacts
  BY <1>0, <1>2, ConversionTypes, SizeTypes, OwnedTypes
<1>4. heap[raw.slice] = Owned[raw.slice]
  BY <1>0, <1>1, <1>3 DEF SealInv, Lent
<1>5. heap[raw.slice].size = Sizes(conversion)[n] /\ Sizes(conversion)[n] \in Nat
  BY <1>0, <1>2, <1>4, SizeTypes
<1>6. ledger \in Ledger
  BY <1>0 DEF SealInv, Charged
<1>7. /\ call.ledger.primaryBytes = ledger.primaryBytes
      /\ call.err = "nil" =>
            /\ call.ledger.artifactCount = ledger.artifactCount + 1
            /\ call.ledger.artifactBytes = ledger.artifactBytes + Sizes(conversion)[n]
            /\ Sizes(conversion)[n] <= MaxArtifactBytes
      /\ call.err # "nil" => call.err = "limit"
  BY <1>5, <1>6, ArtifactCost
<1> HIDE DEF call
<1>8. CASE pc' = "returned"
  <2>1. outcome' # "ok"
    BY <1>1, <1>7, <1>8
  <2> QED BY <1>0, <1>8, <2>1, FailedStages
<1>9. CASE /\ pc' = "drafting" /\ outcome' = outcome /\ drafts' = Append(drafts, new)
           /\ call.err = "nil" /\ raw.described
  <2>1. /\ new.raw = n /\ new.store = Len(heap) + 1 /\ new.look = raw.look
        /\ new.occurrence = raw.occurrence /\ new.length = Owned[raw.slice].size
        /\ new.identity = <<"sha256", Owned[raw.slice].data, Owned[raw.slice].size>>
    BY <1>4 DEF DraftOf, Fresh, Identity
  <2>2. /\ ~conversion.foreign /\ heap[SourceStore] = Owned[1]
        /\ \A i \in DOMAIN drafts : Exact(drafts[i], heap, conversion) /\ drafts[i].raw = i
        /\ \A i, j \in DOMAIN drafts :
              drafts[i].store = drafts[j].store \/ drafts[i].raw = drafts[j].raw => i = j
    BY <1>1 DEF StageInv, Drafted, Working
  <2>3. /\ Len(heap') = Len(heap) + 1 /\ Len(heap) \in Nat
        /\ \A k \in 1..Len(heap) : heap'[k] = heap[k]
        /\ heap'[Len(heap) + 1] = heap[raw.slice]
    BY <1>0, <1>1, <1>3, Grows
  <2>4. SourceStore \in 1..Len(heap) /\ SourceStore \in Nat
    BY <1>0, <1>1, <2>3, OwnedTypes DEF SealInv, SourceCopied, SourceStore
  <2>5. Exact(new, heap', conversion')
    <3>1. Len(heap) + 1 \in (SourceStore + 1)..Len(heap')
      BY <2>3, <2>4
    <3>2. heap'[new.store] = Owned[raw.slice]
      BY <1>4, <2>1, <2>3
    <3> HIDE DEF new, SourceStore
    <3> QED BY <1>1, <1>3, <1>9, <2>1, <3>1, <3>2 DEF Exact
  <2> HIDE DEF new
  <2>6. \A i \in DOMAIN drafts : Exact(drafts[i], heap', conversion') /\ drafts[i].store # Len(heap) + 1
    BY <1>0, <1>1, <1>3, <2>2, ExactStays
  <2>7. /\ DOMAIN drafts' = 1..n /\ Len(drafts') = n
        /\ \A i \in 1..Len(drafts) : drafts'[i] = drafts[i]
        /\ drafts'[n] = new
        /\ \A i \in 1..n : i = n \/ i \in 1..Len(drafts)
    <3>1. new \in DraftSet
      <4>1. new = drafts'[Len(drafts) + 1]
        BY <1>2, <1>9
      <4>2. drafts' \in Seq(DraftSet) /\ Len(drafts) + 1 \in DOMAIN drafts'
        BY <1>0, <1>2, <1>9 DEF Shapes
      <4> QED BY <4>1, <4>2
    <3> QED BY <1>2, <1>9, <3>1
  <2>8. \A i \in DOMAIN drafts' : Exact(drafts'[i], heap', conversion') /\ drafts'[i].raw = i
    BY <1>2, <2>1, <2>2, <2>5, <2>6, <2>7
  <2>9. \A i, j \in DOMAIN drafts' :
            drafts'[i].store = drafts'[j].store \/ drafts'[i].raw = drafts'[j].raw => i = j
    <3>1. \A i, j \in DOMAIN drafts' : drafts'[i].raw = drafts'[j].raw => i = j
      BY <2>8
    <3>2. \A i \in 1..Len(drafts) : drafts'[i].store # drafts'[n].store
      BY <1>2, <2>1, <2>6, <2>7
    <3>3. \A i, j \in 1..Len(drafts) : drafts'[i].store = drafts'[j].store => i = j
      BY <1>2, <2>2, <2>7
    <3> QED BY <2>7, <3>1, <3>2, <3>3
  <2>10. heap'[SourceStore] = Owned[1]
    BY <2>2, <2>3, <2>4
  <2>11. Drafted'
    <3>1. SourceStore' = SourceStore
      BY DEF SourceStore
    <3> HIDE DEF SourceStore
    <3> QED BY <1>1, <1>9, <2>2, <2>8, <2>9, <2>10, <3>1 DEF Drafted, Working
  <2>12. Metered'
    <3>1. /\ ledger.primaryBytes = 0 /\ ledger.artifactCount = Len(drafts)
          /\ ledger.artifactBytes = Paid(conversion)[Len(drafts)]
          /\ \A i \in DOMAIN drafts : drafts[i].length <= MaxArtifactBytes
      BY <1>1 DEF StageInv, Metered, Working
    <3>2. Paid(conversion)[n] = Paid(conversion)[Len(drafts)] + Sizes(conversion)[n]
      <4>1. Len(drafts) \in 0..(Len(conversion.artifacts) - 1) /\ Len(conversion.artifacts) \in Nat
        BY <1>0, <1>2, SizeTypes
      <4> QED BY <1>0, <4>1, PaidSums
    <3>3. ledger'.artifactBytes = Paid(conversion')[Len(drafts')]
      BY <1>1, <1>7, <1>9, <2>7, <3>1, <3>2
    <3>4. \A i \in DOMAIN drafts' : drafts'[i].length <= MaxArtifactBytes
      <4>1. new.length <= MaxArtifactBytes
        BY <1>4, <1>5, <1>7, <1>9, <2>1
      <4> QED BY <1>2, <2>7, <3>1, <4>1
    <3>5. ledger'.primaryBytes = 0 /\ ledger'.artifactCount = Len(drafts')
          /\ Len(drafts') <= Len(conversion'.artifacts)
      BY <1>1, <1>7, <1>9, <2>7, <3>1
    <3> QED BY <1>9, <3>3, <3>4, <3>5 DEF Metered, Working, Closed
  <2>13. Arranged' /\ Written' /\ Enveloped'
    <3>1. outcome' # "ok"
      BY <1>0, <1>1, <1>9 DEF SealInv, Decided
    <3> QED BY <1>9, <3>1 DEF Arranged, Sorted, Written, Closed, Enveloped
  <2> QED BY <1>0, <2>11, <2>12, <2>13 DEF StageInv
<1> QED BY <1>1, <1>8, <1>9

(* Sorting keeps every draft and puts the keys in order                    *)
(* (ingestion.go:294-304).                                                 *)
LEMMA OrderStages == StageInv /\ Order => StageInv'
<1> SUFFICES ASSUME StageInv, Order PROVE StageInv'
  OBVIOUS
<1>0. SealInv /\ SealInv' /\ Shapes /\ Shapes' /\ conversion \in Conversion
  BY OrderSeals DEF StageInv, SealInv, Shapes
<1>1. PICK p \in Orders(Len(drafts)) :
         LET keys == [i \in 1..Len(drafts) |-> DraftKey(drafts[p[i]])]
         IN  /\ drafts' = [i \in 1..Len(drafts) |-> drafts[p[i]]]
             /\ \/ Increasing(keys) /\ pc' = "rewriting" /\ outcome' = outcome
                \/ pc' = "returned" /\ outcome' = "integrity"
  BY DEF Order, Return, Proceed
<1>2. /\ pc = "drafting" /\ Len(drafts) = Len(conversion.artifacts)
      /\ UNCHANGED <<conversion, heap, ledger, cancelled, tokens, envelope>>
  BY DEF Order
<1>3. PICK keys : keys = [i \in 1..Len(drafts) |-> DraftKey(drafts[p[i]])]
  OBVIOUS
<1>4. CASE pc' = "returned" /\ outcome' = "integrity"
  BY <1>0, <1>4, FailedStages
<1>5. CASE Increasing(keys) /\ pc' = "rewriting" /\ outcome' = outcome
  <2>1. /\ Len(drafts) \in Nat /\ DOMAIN drafts = 1..Len(drafts) /\ drafts \in Seq(DraftSet)
    BY <1>0 DEF Shapes
  <2>2. /\ p \in [1..Len(drafts) -> 1..Len(drafts)]
        /\ \A i, j \in 1..Len(drafts) : p[i] = p[j] => i = j
    BY DEF Orders
  <2>3. /\ DOMAIN drafts' = 1..Len(drafts) /\ Len(drafts') = Len(drafts)
        /\ \A i \in 1..Len(drafts) : drafts'[i] = drafts[p[i]] /\ p[i] \in DOMAIN drafts
    <3>1. drafts' = [i \in 1..Len(drafts) |-> drafts[p[i]]]
      BY <1>1
    <3>2. drafts' \in Seq(DraftSet)
      BY <1>0 DEF Shapes
    <3>3. DOMAIN drafts' = 1..Len(drafts) /\ \A i \in 1..Len(drafts) : drafts'[i] = drafts[p[i]]
      BY <3>1
    <3>4. DOMAIN drafts' = 1..Len(drafts') /\ Len(drafts') \in Nat
      BY <3>2
    <3>5. Len(drafts') = Len(drafts)
      BY <2>1, <3>3, <3>4
    <3> QED BY <2>1, <2>2, <3>3, <3>5
  <2>4. /\ ~conversion.foreign /\ heap[SourceStore] = Owned[1]
        /\ \A i \in DOMAIN drafts : Exact(drafts[i], heap, conversion) /\ drafts[i].raw = i
        /\ \A i, j \in DOMAIN drafts :
              drafts[i].store = drafts[j].store \/ drafts[i].raw = drafts[j].raw => i = j
    BY <1>2 DEF StageInv, Drafted, Working
  <2>5. \A i \in DOMAIN drafts' : Exact(drafts'[i], heap', conversion')
    <3>1. heap' = heap /\ conversion' = conversion
      BY <1>2
    <3> QED BY <2>3, <2>4, <3>1
  <2>6. \A i, j \in DOMAIN drafts' :
            drafts'[i].store = drafts'[j].store \/ drafts'[i].raw = drafts'[j].raw => i = j
    BY <2>1, <2>2, <2>3, <2>4
  <2>7. Drafted'
    <3>1. SourceStore' = SourceStore
      BY DEF SourceStore
    <3> HIDE DEF SourceStore
    <3> QED BY <1>2, <1>5, <2>4, <2>5, <2>6, <3>1 DEF Drafted, Working
  <2>8. Metered'
    <3>1. /\ ledger.primaryBytes = 0 /\ ledger.artifactCount = Len(drafts)
          /\ ledger.artifactBytes = Paid(conversion)[Len(drafts)]
          /\ \A i \in DOMAIN drafts : drafts[i].length <= MaxArtifactBytes
      BY <1>2 DEF StageInv, Metered, Working
    <3>2. \A i \in DOMAIN drafts' : drafts'[i].length <= MaxArtifactBytes
      BY <2>3, <3>1
    <3>3. Len(drafts) <= Len(conversion.artifacts)
      BY <1>0, <1>2, SizeTypes
    <3> QED BY <1>2, <1>5, <2>3, <3>1, <3>2, <3>3 DEF Metered, Working, Closed
  <2>9. Covered'
    <3>1. \A i \in DOMAIN drafts' : drafts'[i].raw \in DOMAIN conversion'.artifacts
      BY <2>5 DEF Exact
    <3> QED BY <1>2, <2>3, <2>6, <3>1 DEF Covered
  <2>10. Increasing([i \in 1..Len(drafts') |-> OwnKey(drafts'[i])])
    <3>1. \A i \in 1..Len(drafts) : DraftKey(drafts[p[i]]) = OwnKey(drafts'[i])
      <4>1. \A i \in DOMAIN drafts : DraftKey(drafts[i]) = OwnKey(drafts[i])
        BY <1>0, <2>4, KeyOfDraft
      <4> QED BY <2>3, <4>1
    <3>2. keys = [i \in 1..Len(drafts') |-> OwnKey(drafts'[i])]
      BY <1>3, <2>3, <3>1
    <3> QED BY <1>5, <3>2
  <2>11. Arranged'
    BY <2>9, <2>10 DEF Arranged
  <2>12. Written' /\ Enveloped'
    BY <1>5 DEF Written, Closed, Enveloped
  <2> QED BY <1>0, <2>7, <2>8, <2>11, <2>12 DEF StageInv
<1> QED BY <1>1, <1>3, <1>4, <1>5

(* What is true of the drafts while they are whole stays so when nothing    *)
(* but the heap grows.                                                      *)
LEMMA DraftedStays ==
    ASSUME StageInv, Working, Working', pc' # "drafting", pc' # "start", NEW s \in Store,
           heap' = heap \/ heap' = Append(heap, s), UNCHANGED <<conversion, drafts>>
    PROVE  Drafted'
<1>1. /\ ~conversion.foreign /\ heap[SourceStore] = Owned[1]
      /\ \A i \in DOMAIN drafts : Exact(drafts[i], heap, conversion)
      /\ \A i, j \in DOMAIN drafts :
            drafts[i].store = drafts[j].store \/ drafts[i].raw = drafts[j].raw => i = j
  BY DEF StageInv, Drafted
<1>2. Shapes
  BY DEF StageInv, SealInv
<1>3. \A i \in DOMAIN drafts : Exact(drafts[i], heap', conversion')
  <2>1. CASE heap' = heap
    BY <1>1, <2>1
  <2>2. CASE heap' = Append(heap, s)
    BY <1>1, <1>2, <2>2, ExactStays
  <2> QED BY <2>1, <2>2
<1>4. SourceStore \in 1..Len(heap)
  BY <1>2, OwnedTypes, ConversionTypes DEF StageInv, SealInv, SourceCopied, SourceStore, Working
<1>5. heap'[SourceStore] = heap[SourceStore]
  BY <1>2, <1>4, Grows
<1>6. SourceStore' = SourceStore
  BY DEF SourceStore
<1> HIDE DEF SourceStore
<1> QED BY <1>1, <1>3, <1>5, <1>6 DEF Drafted, Working

(* The Markdown is rewritten, stored and charged (ingestion.go:306-325).    *)
LEMMA RewriteStages == StageInv /\ Rewrite => StageInv'
<1> SUFFICES ASSUME StageInv, Rewrite PROVE StageInv'
  OBVIOUS
<1>0. SealInv /\ SealInv' /\ Shapes /\ Shapes' /\ conversion \in Conversion
  BY RewriteSeals DEF StageInv, SealInv, Shapes
<1> DEFINE call == AdmitPrimary(ledger, conversion.text)
           broken == conversion.rewrite /\ \E i \in DOMAIN tokens : Broken(tokens[i])
           text == [data |-> tokens', size |-> conversion.text, present |-> TRUE]
<1>1. pc = "rewriting" /\ UNCHANGED <<conversion, cancelled, drafts, envelope>>
  BY DEF Rewrite
<1>2. ledger \in Ledger /\ conversion.text \in Nat /\ ledger.primaryBytes = 0
  BY <1>0, <1>1, SizeTypes DEF StageInv, SealInv, Charged, Metered
<1>3. /\ call.ledger.artifactCount = ledger.artifactCount
      /\ call.ledger.artifactBytes = ledger.artifactBytes
      /\ call.err = "nil" => conversion.text <= MaxPrimaryBytes
      /\ call.err # "nil" => call.err = "limit"
  BY <1>2, PrimaryCost
<1>4. \/ pc' = "returned" /\ outcome' = "integrity"
      \/ pc' = "returned" /\ outcome' = call.err /\ call.err # "nil"
      \/ /\ ~broken /\ heap' = Append(heap, text) /\ ledger' = call.ledger
         /\ pc' = "assembling" /\ outcome' = outcome /\ call.err = "nil"
  BY DEF Rewrite, Return, Proceed
<1> HIDE DEF call, text, broken
<1>5. CASE pc' = "returned" /\ (outcome' = "integrity" \/ (outcome' = call.err /\ call.err # "nil"))
  <2>1. outcome' # "ok"
    BY <1>3, <1>5
  <2> QED BY <1>0, <1>5, <2>1, FailedStages
<1>6. CASE /\ ~broken /\ heap' = Append(heap, text) /\ ledger' = call.ledger
           /\ pc' = "assembling" /\ outcome' = outcome /\ call.err = "nil"
  <2>1. text \in Store
    <3>1. tokens' \in Seq(Token)
      BY <1>0 DEF Shapes
    <3> QED BY <1>2, <3>1 DEF text, Store, Data
  <2>2. /\ Len(heap') = Len(heap) + 1 /\ Len(heap) \in Nat
        /\ heap'[Len(heap')] = text
    BY <1>0, <1>1, <1>6, <2>1, Grows
  <2>3. Drafted'
    BY <1>1, <1>6, <2>1, DraftedStays DEF Working
  <2>4. \A i \in DOMAIN drafts : drafts[i].store < Len(heap')
    <3>1. \A i \in DOMAIN drafts : Exact(drafts[i], heap, conversion)
      BY <1>1 DEF StageInv, Drafted, Working
    <3>2. \A i \in DOMAIN drafts : drafts[i].store <= Len(heap)
      BY <1>0, <1>1, <1>6, <2>1, <3>1, ExactStays
    <3>3. \A i \in DOMAIN drafts : drafts[i].store \in Nat
      BY <1>0, DraftTypes
    <3> QED BY <2>2, <3>2, <3>3
  <2>5. Metered'
    BY <1>1, <1>3, <1>6 DEF StageInv, Metered, Working, Closed
  <2>6. Arranged'
    BY <1>1, <1>6 DEF StageInv, Arranged, Sorted, Covered
  <2>7. Written'
    <3>0. conversion.rewrite => \A i \in DOMAIN tokens : ~Broken(tokens[i])
      BY <1>6 DEF broken
    <3>1. ASSUME conversion.rewrite, NEW i \in DOMAIN conversion.tokens, conversion.tokens[i].opened
          PROVE  conversion.tokens[i].shaped /\ conversion.tokens[i].ordinal \in DOMAIN conversion.artifacts
      <4>1. tokens = conversion.tokens
        BY <1>0, <1>1 DEF SealInv, Linked
      <4>2. ~Broken(tokens[i])
        BY <3>0, <3>1, <4>1
      <4>3. conversion.tokens[i].shaped /\ Numbers(conversion.tokens[i].ordinal) # {}
        BY <3>1, <4>1, <4>2 DEF Broken
      <4>4. PICK k \in DOMAIN drafts : drafts[k].raw = conversion.tokens[i].ordinal
        BY <4>3 DEF Numbers
      <4>5. Covered
        BY <1>1 DEF StageInv, Arranged, Sorted
      <4> QED BY <4>3, <4>4, <4>5 DEF Covered
    <3>2. heap'[Len(heap')] = [data |-> tokens', size |-> conversion'.text, present |-> TRUE]
      BY <1>1, <2>2 DEF text
    <3> QED BY <1>1, <2>4, <3>1, <3>2 DEF Written
  <2>8. Enveloped'
    BY <1>6 DEF Enveloped
  <2> QED BY <1>0, <2>3, <2>5, <2>6, <2>7, <2>8 DEF StageInv
<1>7. \/ pc' = "returned" /\ (outcome' = "integrity" \/ (outcome' = call.err /\ call.err # "nil"))
      \/ /\ ~broken /\ heap' = Append(heap, text) /\ ledger' = call.ledger
         /\ pc' = "assembling" /\ outcome' = outcome /\ call.err = "nil"
  BY <1>4, Zenon
<1> QED BY <1>5, <1>6, <1>7, Zenon

\* The envelope that would be put together depends on nothing else.
LEMMA AssembledStays ==
    ASSUME UNCHANGED <<conversion, heap, drafts>>
    PROVE  Assembled' = Assembled /\ (FactsClash' <=> FactsClash)
<1>1. SourceIdentity' = SourceIdentity /\ \A k : Bytes(k)' = Bytes(k)
  BY DEF SourceIdentity, Bytes, SourceStore, Identity
<1>2. Primary' = Primary
  BY DEF Primary, Bytes, SourceIdentity, SourceStore
<1>3. AllFacts' = AllFacts
  BY DEF AllFacts
<1> DEFINE artifacts == [i \in 1..Len(drafts) |-> ContentArtifact(drafts[i], ArtifactID(i))]
           made == [source |-> [bytes |-> Bytes(SourceStore), identity |-> SourceIdentity,
                                length |-> heap[SourceStore].size],
                    primary |-> Primary, artifacts |-> artifacts,
                    sourceIdentity |-> SourceIdentity,
                    outputs |-> <<Primary.identity>> \o [i \in 1..Len(drafts) |-> artifacts[i].identity],
                    facts |-> AllFacts, warnings |-> AllWarnings]
<1>4. Assembled' = Assembled
  <2>1. Assembled = made
    BY Zenon DEF Assembled
  <2>2. (Assembled = made)'
    BY Zenon DEF Assembled
  <2>3. AllWarnings' = AllWarnings
    BY DEF AllWarnings
  <2>4. \A i \in 1..Len(drafts) : ContentArtifact(drafts[i], ArtifactID(i))' = ContentArtifact(drafts[i], ArtifactID(i))
    BY DEF ContentArtifact, Bytes, SourceIdentity, SourceStore
  <2>5. artifacts' = artifacts
    BY <2>4
  <2>6. Bytes(SourceStore)' = Bytes(SourceStore) /\ heap'[SourceStore'].size = heap[SourceStore].size
    BY DEF Bytes, SourceStore
  <2> HIDE DEF artifacts
  <2>7. made' = made
    BY <1>1, <1>2, <1>3, <2>3, <2>5, <2>6
  <2> HIDE DEF made
  <2> QED BY <2>1, <2>2, <2>7
<1>5. FactsClash' <=> FactsClash
  BY <1>3 DEF FactsClash
<1> QED BY <1>4, <1>5

\* The envelope is put together (ingestion.go:345-380).
LEMMA AssembleStages == StageInv /\ Assemble => StageInv'
<1> SUFFICES ASSUME StageInv, Assemble PROVE StageInv'
  OBVIOUS
<1>0. SealInv /\ SealInv' /\ Shapes
  BY AssembleSeals DEF StageInv, SealInv
<1>1. pc = "assembling" /\ UNCHANGED <<conversion, heap, ledger, cancelled, drafts, tokens>>
  BY DEF Assemble
<1>2. \/ pc' = "returned" /\ outcome' # "ok"
      \/ ~FactsClash /\ envelope' = Assembled /\ pc' = "verifying" /\ outcome' = outcome
  BY DEF Assemble, Return, Proceed
<1>3. CASE pc' = "returned" /\ outcome' # "ok"
  BY <1>0, <1>3, FailedStages
<1>4. CASE ~FactsClash /\ envelope' = Assembled /\ pc' = "verifying" /\ outcome' = outcome
  <2>1. 1 \in DOMAIN heap /\ heap[1] \in Store
    BY <1>0, OwnedTypes, ConversionTypes DEF Shapes
  <2>2. Drafted'
    BY <1>1, <1>4, <2>1, DraftedStays DEF Working
  <2>3. Metered' /\ Arranged' /\ Written'
    BY <1>1, <1>4 DEF StageInv, Metered, Working, Closed, Arranged, Sorted, Covered, Written
  <2>4. Enveloped'
    BY <1>1, <1>4, AssembledStays DEF Enveloped
  <2> QED BY <1>0, <2>2, <2>3, <2>4 DEF StageInv
<1> QED BY <1>2, <1>3, <1>4

\* Nothing is changed by the verification (ingestion.go:381-389).
LEMMA DeliverStages == StageInv /\ Deliver => StageInv'
<1> SUFFICES ASSUME StageInv, Deliver PROVE StageInv'
  OBVIOUS
<1>1. /\ pc = "verifying" /\ pc' = "returned"
      /\ UNCHANGED <<conversion, heap, ledger, cancelled, drafts, tokens, envelope>>
  BY DEF Deliver, Return
<1>2. SealInv'
  BY DeliverSeals DEF StageInv
<1>3. Covered'
  BY <1>1 DEF StageInv, Arranged, Sorted, Covered
<1> QED BY <1>1, <1>2, <1>3
        DEF StageInv, Drafted, Metered, Arranged, Written, Enveloped, Working, Sorted, Closed

\* The owners write to their own buffers, after the call.
LEMMA ScribbleStages == StageInv /\ Scribble => StageInv'
<1> SUFFICES ASSUME StageInv, Scribble PROVE StageInv'
  OBVIOUS
<1>1. /\ pc = "returned" /\ pc' = pc
      /\ UNCHANGED <<conversion, ledger, cancelled, drafts, tokens, envelope, outcome>>
  BY DEF Scribble
<1>2. SealInv'
  BY ScribbleSeals DEF StageInv
<1>3. outcome = "ok" => Covered'
  BY <1>1 DEF StageInv, Arranged, Covered
<1> QED BY <1>1, <1>2, <1>3
        DEF StageInv, Drafted, Metered, Arranged, Written, Enveloped, Working, Sorted, Closed

\* Cancelling takes nothing from the call.
LEMMA CancelStages == StageInv /\ (Cancel \/ UNCHANGED vars) => StageInv'
<1> SUFFICES ASSUME StageInv, Cancel \/ UNCHANGED vars PROVE StageInv'
  OBVIOUS
<1>1. UNCHANGED <<conversion, heap, ledger, drafts, tokens, envelope, pc, outcome>>
  BY DEF Cancel, vars
<1>2. SealInv'
  BY CancelSeals DEF StageInv
<1>3. Drafted'
  BY <1>1 DEF StageInv, Drafted, Working, SourceStore
<1>4. Metered' /\ Arranged' /\ Written'
  BY <1>1 DEF StageInv, Metered, Working, Closed, Arranged, Sorted, Covered, Written
<1>5. Enveloped'
  BY <1>1, AssembledStays DEF StageInv, Enveloped
<1> QED BY <1>2, <1>3, <1>4, <1>5 DEF StageInv

\* The stages hold for every conversion.
LEMMA StagesHold == Spec => []StageInv
<1>1. StageInv /\ [Next]_vars => StageInv'
  BY StartStages, DraftStages, OrderStages, RewriteStages, AssembleStages,
     DeliverStages, ScribbleStages, CancelStages DEF Next
<1> QED BY <1>1, InitStages, PTL DEF Spec

-----------------------------------------------------------------------------
(* What is put in order, and what is put in front.                         *)

\* A sequence with one element put in front.
LEMMA PutInFront ==
    ASSUME NEW n \in Nat, NEW s, DOMAIN s = 1..n, s = [i \in 1..n |-> s[i]], NEW x
    PROVE  /\ DOMAIN (<<x>> \o s) = 1..(n + 1) /\ Len(<<x>> \o s) = n + 1
           /\ (<<x>> \o s)[1] = x
           /\ \A i \in 1..n : (<<x>> \o s)[i + 1] = s[i]
           /\ <<x>> \o s = [i \in 1..(n + 1) |-> (<<x>> \o s)[i]]
<1>1. PICK Z : Z = {x} \cup {s[i] : i \in 1..n}
  OBVIOUS
<1>2. PICK t : t = <<x>>
  OBVIOUS
<1>3. t \in Seq(Z) /\ Len(t) = 1 /\ t[1] = x
  BY <1>1, <1>2
<1>4. s \in Seq(Z) /\ Len(s) = n
  BY <1>1
<1>5. PICK u : u = t \o s
  OBVIOUS
<1>6. u \in Seq(Z) /\ Joins(t, s, u)
  BY <1>3, <1>4, <1>5, JoinsShow
<1>7. Len(u) = 1 + n /\ (\A i \in 1..1 : u[i] = t[i]) /\ \A i \in 1..n : u[1 + i] = s[i]
  BY <1>3, <1>4, <1>6 DEF Joins
<1>8. DOMAIN u = 1..(n + 1) /\ Len(u) = n + 1 /\ u = [i \in 1..(n + 1) |-> u[i]]
  BY <1>6, <1>7
<1>9. u[1] = x /\ \A i \in 1..n : u[i + 1] = s[i]
  <2>1. 1 \in 1..1 /\ \A i \in 1..n : i + 1 = 1 + i
    OBVIOUS
  <2> QED BY <1>3, <1>7, <2>1
<1> QED BY <1>2, <1>5, <1>8, <1>9

\* Facts can be put in order, and SortedBy does.
LEMMA FactsInOrder ==
    ASSUME NEW s \in Seq(Fact)
    PROVE  \E p \in Orders(Len(s)) :
              /\ SortedBy(s, FactKey) = [i \in 1..Len(s) |-> s[p[i]]]
              /\ Monotone([i \in 1..Len(s) |-> FactKey(s[p[i]])])
<1>1. PICK k : k = [i \in 1..Len(s) |-> FactKey(s[i])]
  OBVIOUS
<1>2. \A i \in 1..Len(s) : k[i] \in Key(3)
  <2> SUFFICES ASSUME NEW i \in 1..Len(s) PROVE k[i] \in Key(3)
    OBVIOUS
  <2>1. s[i] \in Fact
    OBVIOUS
  <2>2. s[i].kind \in Int /\ s[i].origin \in Int /\ s[i].value \in Int
    BY <2>1 DEF Fact
  <2>3. k[i] = <<s[i].kind, s[i].origin, s[i].value>>
    BY <1>1 DEF FactKey
  <2>4. PICK t : t = <<s[i].kind, s[i].origin, s[i].value>>
    OBVIOUS
  <2>5. DOMAIN t = 1..3 /\ (\A j \in 1..3 : t[j] \in Int) /\ t = [j \in 1..3 |-> t[j]]
    BY <2>2, <2>4
  <2> QED BY <2>3, <2>4, <2>5 DEF Key
<1>3. \E q \in Orders(Len(s)) : Monotone([i \in 1..Len(s) |-> k[q[i]]])
  <2>1. Len(s) \in Nat /\ 3 \in Nat
    OBVIOUS
  <2> QED BY <1>2, <2>1, CanBeSorted
<1> DEFINE inOrder(q) == Monotone([i \in 1..Len(s) |-> FactKey(s[q[i]])])
           p == CHOOSE q \in Orders(Len(s)) : inOrder(q)
<1>4. \E q \in Orders(Len(s)) : inOrder(q)
  <2>1. PICK q \in Orders(Len(s)) : Monotone([i \in 1..Len(s) |-> k[q[i]]])
    BY <1>3
  <2>2. \A i \in 1..Len(s) : q[i] \in 1..Len(s)
    BY DEF Orders
  <2>3. [i \in 1..Len(s) |-> k[q[i]]] = [i \in 1..Len(s) |-> FactKey(s[q[i]])]
    BY <1>1, <2>2
  <2> QED BY <2>1, <2>3
<1> HIDE DEF inOrder
<1>5. p \in Orders(Len(s)) /\ inOrder(p)
  BY <1>4
<1>6. SortedBy(s, FactKey) = [i \in 1..Len(s) |-> s[p[i]]]
  BY Zenon DEF SortedBy, inOrder
<1> QED BY <1>5, <1>6 DEF inOrder

\* So can warnings.
LEMMA WarningsInOrder ==
    ASSUME NEW s \in Seq(Nat)
    PROVE  \E p \in Orders(Len(s)) :
              /\ SortedBy(s, WarningKey) = [i \in 1..Len(s) |-> s[p[i]]]
              /\ Monotone([i \in 1..Len(s) |-> WarningKey(s[p[i]])])
<1>1. PICK k : k = [i \in 1..Len(s) |-> WarningKey(s[i])]
  OBVIOUS
<1>2. \A i \in 1..Len(s) : k[i] \in Key(1)
  <2> SUFFICES ASSUME NEW i \in 1..Len(s) PROVE k[i] \in Key(1)
    OBVIOUS
  <2>2. s[i] \in Int
    OBVIOUS
  <2>3. k[i] = <<s[i]>>
    BY <1>1 DEF WarningKey
  <2>4. PICK t : t = <<s[i]>>
    OBVIOUS
  <2>5. DOMAIN t = 1..1 /\ (\A j \in 1..1 : t[j] \in Int) /\ t = [j \in 1..1 |-> t[j]]
    BY <2>2, <2>4
  <2> QED BY <2>3, <2>4, <2>5 DEF Key
<1>3. \E q \in Orders(Len(s)) : Monotone([i \in 1..Len(s) |-> k[q[i]]])
  <2>1. Len(s) \in Nat /\ 1 \in Nat
    OBVIOUS
  <2> QED BY <1>2, <2>1, CanBeSorted
<1> DEFINE inOrder(q) == Monotone([i \in 1..Len(s) |-> WarningKey(s[q[i]])])
           p == CHOOSE q \in Orders(Len(s)) : inOrder(q)
<1>4. \E q \in Orders(Len(s)) : inOrder(q)
  <2>1. PICK q \in Orders(Len(s)) : Monotone([i \in 1..Len(s) |-> k[q[i]]])
    BY <1>3
  <2>2. \A i \in 1..Len(s) : q[i] \in 1..Len(s)
    BY DEF Orders
  <2>3. [i \in 1..Len(s) |-> k[q[i]]] = [i \in 1..Len(s) |-> WarningKey(s[q[i]])]
    BY <1>1, <2>2
  <2> QED BY <2>1, <2>3
<1> HIDE DEF inOrder
<1>5. p \in Orders(Len(s)) /\ inOrder(p)
  BY <1>4
<1>6. SortedBy(s, WarningKey) = [i \in 1..Len(s) |-> s[p[i]]]
  BY Zenon DEF SortedBy, inOrder
<1> QED BY <1>5, <1>6 DEF inOrder

-----------------------------------------------------------------------------
(* The facts and the warnings of a conversion.                             *)
GivenFacts == conversion.sourceFacts \o conversion.facts

\* The facts shown are the facts given, in order.
LEMMA FactsShown ==
    ASSUME Shapes
    PROVE  /\ GivenFacts \in Seq(Fact)
           /\ Len(GivenFacts) = Len(conversion.sourceFacts) + Len(conversion.facts)
           /\ DOMAIN AllFacts = DOMAIN GivenFacts /\ Len(AllFacts) = Len(GivenFacts)
           /\ \E p \in Orders(Len(GivenFacts)) : \A i \in DOMAIN GivenFacts : AllFacts[i] = GivenFacts[p[i]]
           /\ Monotone([i \in 1..Len(AllFacts) |-> FactKey(AllFacts[i])])
           /\ \A i \in DOMAIN conversion.facts : \E j \in DOMAIN GivenFacts : GivenFacts[j] = conversion.facts[i]
<1>1. conversion.sourceFacts \in Seq(Fact) /\ conversion.facts \in Seq(Fact)
  BY DEF Shapes, Conversion
<1>2. PICK a : a = conversion.sourceFacts
  OBVIOUS
<1>3. PICK b : b = conversion.facts
  OBVIOUS
<1>4. PICK s : s = a \o b
  OBVIOUS
<1>5. a \in Seq(Fact) /\ b \in Seq(Fact) /\ s = GivenFacts
  BY <1>1, <1>2, <1>3, <1>4 DEF GivenFacts
<1>6. s \in Seq(Fact) /\ Joins(a, b, s)
  BY <1>4, <1>5, JoinsShow
<1>7. Len(s) = Len(a) + Len(b) /\ \A i \in 1..Len(b) : s[Len(a) + i] = b[i]
  BY <1>6 DEF Joins
<1>8. \A i \in DOMAIN b : \E j \in DOMAIN s : s[j] = b[i]
  <2>1. DOMAIN b = 1..Len(b) /\ DOMAIN s = 1..Len(s) /\ Len(a) \in Nat /\ Len(b) \in Nat
    BY <1>5, <1>6
  <2> QED BY <1>7, <2>1
<1>9. AllFacts = SortedBy(s, FactKey)
  BY <1>5 DEF AllFacts, GivenFacts
<1>10. PICK p \in Orders(Len(s)) : /\ AllFacts = [i \in 1..Len(s) |-> s[p[i]]]
                                   /\ Monotone([i \in 1..Len(s) |-> FactKey(s[p[i]])])
  BY <1>6, <1>9, FactsInOrder
<1>11. PICK t : t = AllFacts
  OBVIOUS
<1>12. /\ Len(s) \in Nat /\ DOMAIN s = 1..Len(s) /\ DOMAIN t = 1..Len(s) /\ Len(t) = Len(s)
       /\ \A i \in DOMAIN s : t[i] = s[p[i]]
  BY <1>6, <1>10, <1>11
<1>13. Monotone([i \in 1..Len(t) |-> FactKey(t[i])])
  <2>1. [i \in 1..Len(t) |-> FactKey(t[i])] = [i \in 1..Len(s) |-> FactKey(s[p[i]])]
    BY <1>12
  <2> QED BY <1>10, <2>1
<1> HIDE DEF GivenFacts, AllFacts
<1> QED BY <1>2, <1>3, <1>5, <1>6, <1>7, <1>8, <1>11, <1>12, <1>13

\* The warnings shown are the warnings given, in order.
LEMMA WarningsShown ==
    ASSUME Shapes
    PROVE  /\ conversion.warnings \in Seq(Nat)
           /\ DOMAIN AllWarnings = DOMAIN conversion.warnings /\ Len(AllWarnings) = Len(conversion.warnings)
           /\ \E p \in Orders(Len(conversion.warnings)) :
                 \A i \in DOMAIN conversion.warnings : AllWarnings[i] = conversion.warnings[p[i]]
           /\ Monotone([i \in 1..Len(AllWarnings) |-> WarningKey(AllWarnings[i])])
<1>1. PICK s : s = conversion.warnings
  OBVIOUS
<1>2. s \in Seq(Nat)
  BY <1>1 DEF Shapes, Conversion
<1>3. AllWarnings = SortedBy(s, WarningKey)
  BY <1>1 DEF AllWarnings
<1>4. PICK p \in Orders(Len(s)) : /\ AllWarnings = [i \in 1..Len(s) |-> s[p[i]]]
                                   /\ Monotone([i \in 1..Len(s) |-> WarningKey(s[p[i]])])
  BY <1>2, <1>3, WarningsInOrder
<1>5. PICK t : t = AllWarnings
  OBVIOUS
<1>6. /\ Len(s) \in Nat /\ DOMAIN s = 1..Len(s) /\ DOMAIN t = 1..Len(s) /\ Len(t) = Len(s)
      /\ \A i \in DOMAIN s : t[i] = s[p[i]]
  BY <1>2, <1>4, <1>5
<1>7. Monotone([i \in 1..Len(t) |-> WarningKey(t[i])])
  <2>1. [i \in 1..Len(t) |-> WarningKey(t[i])] = [i \in 1..Len(s) |-> WarningKey(s[p[i]])]
    BY <1>6
  <2> QED BY <1>4, <2>1
<1> HIDE DEF AllWarnings
<1> QED BY <1>1, <1>2, <1>5, <1>6, <1>7

-----------------------------------------------------------------------------
(* The envelope that is verified.                                          *)
SourceID == <<"sha256", Owned[1].data, Owned[1].size>>
Count    == Len(conversion.artifacts)
Origin(i) == conversion.artifacts[drafts[i].raw]
Copy(i)   == Owned[Origin(i).slice]

\* Once they are in order, the drafts are the artifacts, each one once.
LEMMA DraftsWhole ==
    ASSUME StageInv, Sorted
    PROVE  /\ Shapes /\ conversion \in Conversion /\ Count \in Nat
           /\ DOMAIN drafts = 1..Count /\ Len(drafts) = Count
           /\ \A i \in 1..Count :
                 /\ Exact(drafts[i], heap, conversion)
                 /\ drafts[i].raw \in 1..Count
                 /\ Origin(i).look \in Nat /\ Origin(i).occurrence \in Nat
                 /\ Copy(i).data \in Nat /\ Copy(i).size \in Nat /\ Copy(i).present \in BOOLEAN
                 /\ Origin(i).described
                 /\ OwnKey(drafts[i]) = KeyOf(Origin(i).look, Copy(i).data, Copy(i).size,
                                              Copy(i).size, Origin(i).occurrence)
                 /\ OwnKey(drafts[i]) \in Key(14)
           /\ \A i, j \in 1..Count :
                 drafts[i].store = drafts[j].store \/ drafts[i].raw = drafts[j].raw => i = j
           /\ \A k \in 1..Count : \E i \in 1..Count : drafts[i].raw = k
<1>1. Shapes /\ conversion \in Conversion
  BY DEF StageInv, SealInv, Shapes
<1>2. Covered /\ Working
  BY DEF StageInv, Arranged, Sorted, Working
<1>3. /\ Count \in Nat /\ DOMAIN conversion.artifacts = 1..Count
      /\ \A k \in 1..Count : conversion.artifacts[k] \in Raw /\ conversion.artifacts[k].slice \in DOMAIN Owned
  BY <1>1, SizeTypes DEF Count
<1>4. drafts \in Seq(DraftSet) /\ Len(drafts) = Count
  BY <1>1, <1>2 DEF Shapes, Covered, Count
<1>5. DOMAIN drafts = 1..Count
  BY <1>4
<1>6. /\ \A i \in 1..Count : Exact(drafts[i], heap, conversion)
      /\ \A i, j \in 1..Count :
            drafts[i].store = drafts[j].store \/ drafts[i].raw = drafts[j].raw => i = j
  BY <1>2, <1>5 DEF StageInv, Drafted
<1>7. \A i \in 1..Count : drafts[i].raw \in 1..Count /\ Origin(i).described
  BY <1>3, <1>6 DEF Exact, Origin
<1>8. \A i \in 1..Count :
         /\ Origin(i).look \in Nat /\ Origin(i).occurrence \in Nat
         /\ Copy(i).data \in Nat /\ Copy(i).size \in Nat
         /\ OwnKey(drafts[i]) = KeyOf(Origin(i).look, Copy(i).data, Copy(i).size,
                                      Copy(i).size, Origin(i).occurrence)
         /\ OwnKey(drafts[i]) \in Key(14)
  BY <1>1, <1>5, <1>6, DraftKeys DEF Origin, Copy
<1>9. \A i \in 1..Count : Copy(i).present \in BOOLEAN
  <2>1. \A i \in 1..Count : Origin(i).slice \in DOMAIN Owned
    BY <1>3, <1>7 DEF Origin
  <2> QED BY <2>1, SliceTypes DEF Copy
<1>10. \A k \in 1..Count : \E i \in 1..Count : drafts[i].raw = k
  <2>1. PICK p : p = [i \in 1..Count |-> drafts[i].raw]
    OBVIOUS
  <2>2. p \in Orders(Count)
    BY <1>6, <1>7, <2>1 DEF Orders
  <2>3. \A k \in 1..Count : \E i \in 1..Count : p[i] = k
    BY <1>3, <2>2, ArrangesAll
  <2> QED BY <2>1, <2>3
<1> QED BY <1>1, <1>3, <1>4, <1>5, <1>6, <1>7, <1>8, <1>9, <1>10

\* The parts of the envelope, by the conversion.
LEMMA EnvelopeParts ==
    ASSUME StageInv, pc = "verifying"
    PROVE  /\ SourceIdentity = SourceID
           /\ envelope.source.bytes.data = Owned[1].data
           /\ envelope.source.bytes.size = Owned[1].size
           /\ envelope.source.bytes.present = Owned[1].present
           /\ envelope.source.bytes.store = SourceStore
           /\ envelope.source.identity = SourceID
           /\ envelope.source.length = Owned[1].size
           /\ envelope.sourceIdentity = SourceID
           /\ envelope.primary = Primary
           /\ envelope.artifacts = [i \in 1..Count |-> ContentArtifact(drafts[i], ArtifactID(i))]
           /\ envelope.outputs = <<Primary.identity>> \o [i \in 1..Count |-> envelope.artifacts[i].identity]
           /\ envelope.facts = AllFacts
           /\ envelope.warnings = AllWarnings
<1>1. envelope = Assembled
  BY DEF StageInv, Enveloped
<1>2. heap[SourceStore] = Owned[1] /\ Len(drafts) = Count
  BY DraftsWhole DEF StageInv, Drafted, Working, Sorted
<1>3. SourceIdentity = SourceID
  BY <1>2 DEF SourceIdentity, Identity, SourceID
<1> DEFINE artifacts == [i \in 1..Len(drafts) |-> ContentArtifact(drafts[i], ArtifactID(i))]
<1>4. envelope = [source |-> [bytes |-> Bytes(SourceStore), identity |-> SourceIdentity,
                              length |-> heap[SourceStore].size],
                  primary |-> Primary, artifacts |-> artifacts,
                  sourceIdentity |-> SourceIdentity,
                  outputs |-> <<Primary.identity>> \o [i \in 1..Len(drafts) |-> artifacts[i].identity],
                  facts |-> AllFacts, warnings |-> AllWarnings]
  BY <1>1, Zenon DEF Assembled
<1>5. /\ envelope.source = [bytes |-> Bytes(SourceStore), identity |-> SourceIdentity,
                            length |-> heap[SourceStore].size]
      /\ envelope.primary = Primary /\ envelope.artifacts = artifacts
      /\ envelope.sourceIdentity = SourceIdentity
      /\ envelope.outputs = <<Primary.identity>> \o [i \in 1..Len(drafts) |-> artifacts[i].identity]
      /\ envelope.facts = AllFacts /\ envelope.warnings = AllWarnings
  <2> HIDE DEF artifacts, SourceIdentity, SourceStore
  <2> QED BY <1>4
<1>6. /\ envelope.source.bytes = Bytes(SourceStore) /\ envelope.source.identity = SourceID
      /\ envelope.source.length = Owned[1].size
  <2> HIDE DEF artifacts, SourceIdentity, SourceStore
  <2> QED BY <1>2, <1>3, <1>5
<1>7. /\ Bytes(SourceStore).data = Owned[1].data
      /\ Bytes(SourceStore).size = Owned[1].size
      /\ Bytes(SourceStore).present = Owned[1].present
      /\ Bytes(SourceStore).store = SourceStore
  BY <1>2 DEF Bytes
<1>8. envelope.artifacts = [i \in 1..Count |-> ContentArtifact(drafts[i], ArtifactID(i))]
  BY <1>2, <1>5
<1>9. envelope.outputs = <<Primary.identity>> \o [i \in 1..Count |-> envelope.artifacts[i].identity]
  <2> HIDE DEF artifacts
  <2> QED BY <1>2, <1>5, Zenon
<1> HIDE DEF SourceIdentity, SourceStore, artifacts
<1> QED BY <1>3, <1>5, <1>6, <1>7, <1>8, <1>9

\* An artifact of the envelope, by the one it was made from.
LEMMA ArtifactParts ==
    ASSUME StageInv, pc = "verifying", NEW i \in 1..Count
    PROVE  LET a == envelope.artifacts[i]
           IN  /\ a = ContentArtifact(drafts[i], ArtifactID(i))
               /\ a.id = ArtifactID(i)
               /\ a.look = Origin(i).look
               /\ a.bytes.data = Copy(i).data /\ a.bytes.size = Copy(i).size
               /\ a.bytes.present = Copy(i).present /\ a.bytes.store = drafts[i].store
               /\ a.identity = Identity(a.bytes) /\ a.length = Copy(i).size
               /\ a.relations = <<Relation(SourceID, ArtifactID(i), Origin(i).occurrence)>>
<1>1. SourceIdentity = SourceID
  BY EnvelopeParts
<1>2. envelope.artifacts[i] = ContentArtifact(drafts[i], ArtifactID(i))
  BY EnvelopeParts
<1>3. Exact(drafts[i], heap, conversion)
  BY DraftsWhole DEF Sorted
<1>4. /\ drafts[i].look = Origin(i).look /\ drafts[i].occurrence = Origin(i).occurrence
      /\ heap[drafts[i].store] = Copy(i) /\ drafts[i].length = Copy(i).size
      /\ drafts[i].identity = <<"sha256", Copy(i).data, Copy(i).size>>
  BY <1>3 DEF Exact, Origin, Copy
<1>5. PICK a : a = ContentArtifact(drafts[i], ArtifactID(i))
  OBVIOUS
<1>6. /\ a.id = ArtifactID(i) /\ a.look = drafts[i].look /\ a.bytes = Bytes(drafts[i].store)
      /\ a.identity = drafts[i].identity /\ a.length = drafts[i].length
      /\ a.relations = <<Relation(SourceIdentity, ArtifactID(i), drafts[i].occurrence)>>
  BY <1>5 DEF ContentArtifact
<1>7. /\ Bytes(drafts[i].store).data = Copy(i).data
      /\ Bytes(drafts[i].store).size = Copy(i).size
      /\ Bytes(drafts[i].store).present = Copy(i).present
      /\ Bytes(drafts[i].store).store = drafts[i].store
  BY <1>4 DEF Bytes
<1>8. a.identity = Identity(a.bytes)
  BY <1>4, <1>6, <1>7 DEF Identity
<1> HIDE DEF Origin, Copy
<1> QED BY <1>1, <1>2, <1>4, <1>5, <1>6, <1>7, <1>8

\* The primary artifact of the envelope.
LEMMA PrimaryParts ==
    ASSUME StageInv, pc = "verifying"
    PROVE  LET a == envelope.primary
           IN  /\ a.id = ArtifactID(0) /\ a.look = 0
               /\ a.bytes.size = conversion.text /\ a.bytes.present = TRUE
               /\ a.bytes.store = Len(heap)
               /\ a.identity = Identity(a.bytes) /\ a.length = conversion.text
               /\ a.relations = <<Relation(SourceID, ArtifactID(0), 0)>>
<1>1. SourceIdentity = SourceID /\ envelope.primary = Primary
  BY EnvelopeParts
<1>2. heap[Len(heap)] = [data |-> tokens, size |-> conversion.text, present |-> TRUE]
  BY DEF StageInv, Written, Closed
<1>3. PICK b : b = Bytes(Len(heap))
  OBVIOUS
<1>4. b.size = conversion.text /\ b.present = TRUE /\ b.store = Len(heap)
  BY <1>2, <1>3 DEF Bytes
<1>5. Primary = [id |-> ArtifactID(0), look |-> 0, bytes |-> b, identity |-> Identity(b),
                 length |-> b.size, relations |-> <<Relation(SourceIdentity, ArtifactID(0), 0)>>]
  BY <1>3 DEF Primary
<1> HIDE DEF Primary
<1>6. PICK a : a = envelope.primary
  OBVIOUS
<1>7. /\ a.id = ArtifactID(0) /\ a.look = 0 /\ a.bytes = b /\ a.identity = Identity(b)
      /\ a.length = b.size /\ a.relations = <<Relation(SourceID, ArtifactID(0), 0)>>
  BY <1>1, <1>5, <1>6
<1> QED BY <1>4, <1>6, <1>7

-----------------------------------------------------------------------------
(* What the verifier finds, object by object.                              *)

\* What is identified in the envelope.
LEMMA IdentifiersAre ==
    ASSUME StageInv, pc = "verifying"
    PROVE  /\ Identifiers(envelope) = {SourceID} \cup {ArtifactID(k) : k \in 0..Count}
           /\ DOMAIN Outputs(envelope) = 1..(Count + 1) /\ Len(Outputs(envelope)) = Count + 1
           /\ Outputs(envelope)[1] = envelope.primary
           /\ \A i \in 1..Count : Outputs(envelope)[i + 1] = envelope.artifacts[i]
           /\ Len(envelope.artifacts) = Count /\ DOMAIN envelope.artifacts = 1..Count
<1>1. Count \in Nat
  BY DraftsWhole DEF Sorted
<1>2. PICK s : s = envelope.artifacts
  OBVIOUS
<1>3. s = [i \in 1..Count |-> ContentArtifact(drafts[i], ArtifactID(i))]
  BY <1>2, EnvelopeParts
<1>4. DOMAIN s = 1..Count /\ s = [i \in 1..Count |-> s[i]] /\ Len(s) = Count
  BY <1>1, <1>3
<1>5. PICK x : x = envelope.primary
  OBVIOUS
<1>6. PICK u : u = <<x>> \o s
  OBVIOUS
<1>7. /\ DOMAIN u = 1..(Count + 1) /\ Len(u) = Count + 1
      /\ u[1] = x /\ \A i \in 1..Count : u[i + 1] = s[i]
  BY <1>1, <1>4, <1>6, PutInFront
<1>8. Outputs(envelope) = u
  BY <1>2, <1>5, <1>6 DEF Outputs
<1>9. \A i \in 1..Count : s[i].id = ArtifactID(i)
  BY <1>2, ArtifactParts
<1>10. u[1].id = ArtifactID(0) /\ \A i \in 1..Count : u[i + 1].id = ArtifactID(i)
  BY <1>5, <1>7, <1>9, PrimaryParts
<1>11. {u[i].id : i \in DOMAIN u} = {ArtifactID(k) : k \in 0..Count}
  <2>1. ASSUME NEW i \in 1..(Count + 1) PROVE u[i].id \in {ArtifactID(k) : k \in 0..Count}
    <3>1. CASE i = 1
      BY <1>1, <1>10, <3>1
    <3>2. CASE i # 1
      <4>1. i - 1 \in 1..Count /\ (i - 1) + 1 = i /\ i - 1 \in 0..Count
        BY <1>1, <3>2
      <4>2. u[(i - 1) + 1].id = ArtifactID(i - 1)
        BY <1>10, <4>1
      <4> QED BY <4>1, <4>2
    <3> QED BY <3>1, <3>2
  <2>2. ASSUME NEW k \in 0..Count PROVE ArtifactID(k) \in {u[i].id : i \in 1..(Count + 1)}
    <3>1. k + 1 \in 1..(Count + 1)
      BY <1>1
    <3>2. u[k + 1].id = ArtifactID(k)
      <4>1. CASE k = 0
        BY <1>10, <4>1
      <4>2. CASE k # 0
        <5>1. k \in 1..Count
          BY <1>1, <4>2
        <5> QED BY <1>10, <5>1
      <4> QED BY <4>1, <4>2
    <3> QED BY <3>1, <3>2
  <2> QED BY <1>7, <2>1, <2>2
<1>12. Identifiers(envelope) = {SourceID} \cup {u[i].id : i \in DOMAIN u}
  <2>1. envelope.source.identity = SourceID
    BY EnvelopeParts
  <2> QED BY <1>8, <2>1 DEF Identifiers
<1> QED BY <1>2, <1>4, <1>5, <1>7, <1>8, <1>11, <1>12

\* The source holds (verifySource).
LEMMA SourceVerifies ==
    ASSUME StageInv, pc = "verifying"
    PROVE  SourceHolds(envelope) <=> Owned[1].present /\ Owned[1].size <= V1MaxByteLength
<1>1. Owned[1].size <= MaxSourceBytes
  BY SealAssumption
<1>2. PICK e : e = envelope
  OBVIOUS
<1>3. /\ e.source.bytes.data = Owned[1].data /\ e.source.bytes.size = Owned[1].size
      /\ e.source.bytes.present = Owned[1].present
      /\ e.source.identity = SourceID /\ e.source.length = Owned[1].size
  BY <1>2, EnvelopeParts
<1>4. e.source.identity = Identity(e.source.bytes)
  BY <1>3 DEF SourceID, Identity
<1> QED BY <1>1, <1>2, <1>3, <1>4 DEF SourceHolds

\* A single relation from another object of the envelope.
LEMMA RelationVerifies ==
    ASSUME NEW e, NEW a, NEW from, NEW occurrence,
           a.relations = <<Relation(from, a.id, occurrence)>>,
           from \in Identifiers(e), from # a.id
    PROVE  RelationsHold(e, a) <=> occurrence \notin UnsafeLabels
<1>1. PICK r : r = Relation(from, a.id, occurrence)
  OBVIOUS
<1>2. r.kind = "derived_from" /\ r.from = from /\ r.to = a.id /\ r.occurrence = occurrence
  BY <1>1 DEF Relation
<1>3. a.relations = <<r>>
  BY <1>1
<1>4. Len(a.relations) = 1 /\ DOMAIN a.relations = {1} /\ a.relations[1] = r /\ a.relations # <<>>
  BY <1>3
<1>5. Increasing([i \in 1..Len(a.relations) |-> TextKey(a.relations[i])])
  <2>1. PICK k : k = [i \in 1..Len(a.relations) |-> TextKey(a.relations[i])]
    OBVIOUS
  <2>2. Len(k) = 1
    BY <1>4, <2>1
  <2>3. Increasing(k)
    BY <2>2 DEF Increasing
  <2> QED BY <2>1, <2>3
<1>6. RelationsHold(e, a) <=>
         /\ r.kind \in RelationKind /\ r.from \in Identifiers(e) \ {a.id}
         /\ r.to = a.id /\ r.occurrence \notin UnsafeLabels
  BY <1>4, <1>5 DEF RelationsHold
<1>7. r.kind \in RelationKind
  BY <1>2 DEF RelationKind
<1> QED BY <1>2, <1>6, <1>7

\* The primary artifact holds (verifyArtifact).
LEMMA PrimaryVerifies ==
    ASSUME StageInv, pc = "verifying"
    PROVE  ObjectHolds(envelope, envelope.primary, MaxPrimaryBytes) <=> conversion.text <= V1MaxByteLength
<1>1. PICK a : a = envelope.primary
  OBVIOUS
<1>2. /\ a.id = ArtifactID(0) /\ a.look = 0
      /\ a.bytes.size = conversion.text /\ a.bytes.present = TRUE
      /\ a.identity = Identity(a.bytes) /\ a.length = conversion.text
      /\ a.relations = <<Relation(SourceID, ArtifactID(0), 0)>>
  BY <1>1, PrimaryParts
<1>3. conversion.text <= MaxPrimaryBytes
  BY DEF StageInv, Metered, Closed
<1>4. 0 \notin UnsafeLabels
  BY CeilingAssumption
<1>5. RelationsHold(envelope, a)
  <2>1. SourceID \in Identifiers(envelope)
    BY IdentifiersAre
  <2>2. SourceID # a.id
    BY <1>2, IdentifiersApart DEF SourceID
  <2> QED BY <1>2, <1>4, <2>1, <2>2, RelationVerifies
<1> QED BY <1>1, <1>2, <1>3, <1>4, <1>5 DEF ObjectHolds

\* Another artifact holds (verifyArtifact).
LEMMA ArtifactVerifies ==
    ASSUME StageInv, pc = "verifying", NEW i \in 1..Count
    PROVE  ObjectHolds(envelope, envelope.artifacts[i], MaxArtifactBytes) <=>
              /\ Copy(i).present /\ Copy(i).size <= V1MaxByteLength
              /\ Origin(i).look \notin UnsafeLabels /\ Origin(i).occurrence \notin UnsafeLabels
<1>1. PICK a : a = envelope.artifacts[i]
  OBVIOUS
<1>2. /\ a.id = ArtifactID(i) /\ a.look = Origin(i).look
      /\ a.bytes.size = Copy(i).size /\ a.bytes.present = Copy(i).present
      /\ a.identity = Identity(a.bytes) /\ a.length = Copy(i).size
      /\ a.relations = <<Relation(SourceID, ArtifactID(i), Origin(i).occurrence)>>
  BY <1>1, ArtifactParts
<1>3. Copy(i).size <= MaxArtifactBytes
  <2>1. i \in DOMAIN drafts /\ Exact(drafts[i], heap, conversion)
    BY DraftsWhole DEF Sorted
  <2>2. drafts[i].length = Copy(i).size
    BY <2>1 DEF Exact, Copy, Origin
  <2>3. drafts[i].length <= MaxArtifactBytes
    BY <2>1 DEF StageInv, Metered, Working
  <2> QED BY <2>2, <2>3
<1>4. RelationsHold(envelope, a) <=> Origin(i).occurrence \notin UnsafeLabels
  <2>1. SourceID \in Identifiers(envelope)
    BY IdentifiersAre
  <2>2. SourceID # a.id
    BY <1>2, IdentifiersApart DEF SourceID
  <2> HIDE DEF Origin
  <2> QED BY <1>2, <2>1, <2>2, RelationVerifies
<1>5. Copy(i).present \in BOOLEAN
  BY DraftsWhole DEF Sorted
<1> HIDE DEF Copy, Origin
<1> QED BY <1>1, <1>2, <1>3, <1>4 DEF ObjectHolds

\* A sequence with two elements put in front.
LEMMA TwoInFront ==
    ASSUME NEW n \in Nat, NEW s, DOMAIN s = 1..n, s = [i \in 1..n |-> s[i]], NEW x, NEW y
    PROVE  /\ DOMAIN (<<x, y>> \o s) = 1..(n + 2)
           /\ (<<x, y>> \o s)[1] = x /\ (<<x, y>> \o s)[2] = y
           /\ \A i \in 1..n : (<<x, y>> \o s)[i + 2] = s[i]
<1>1. PICK Z : Z = {x, y} \cup {s[i] : i \in 1..n}
  OBVIOUS
<1>2. PICK t : t = <<x, y>>
  OBVIOUS
<1>3. t \in Seq(Z) /\ Len(t) = 2 /\ t[1] = x /\ t[2] = y
  BY <1>1, <1>2
<1>4. s \in Seq(Z) /\ Len(s) = n
  BY <1>1
<1>5. PICK u : u = t \o s
  OBVIOUS
<1>6. u \in Seq(Z) /\ Joins(t, s, u)
  BY <1>3, <1>4, <1>5, JoinsShow
<1>7. Len(u) = 2 + n /\ (\A i \in 1..2 : u[i] = t[i]) /\ \A i \in 1..n : u[2 + i] = s[i]
  BY <1>3, <1>4, <1>6 DEF Joins
<1>8. DOMAIN u = 1..(n + 2)
  BY <1>6, <1>7
<1>9. u[1] = x /\ u[2] = y /\ \A i \in 1..n : u[i + 2] = s[i]
  <2>1. 1 \in 1..2 /\ 2 \in 1..2 /\ \A i \in 1..n : i + 2 = 2 + i
    OBVIOUS
  <2> QED BY <1>3, <1>7, <2>1
<1> QED BY <1>2, <1>5, <1>8, <1>9

(* The source is found among the referents, and is the only one of its kind.*)
LEMMA SourceResolves ==
    ASSUME StageInv, pc = "verifying"
    PROVE  /\ Resolves(Referents(envelope), SourceID)
           /\ Meaning(Referents(envelope), SourceID) = SourceKey
<1> DEFINE shown(a) == [id |-> a.id, key |-> ReferenceKey(a)]
<1>0. Count \in Nat
  BY DraftsWhole DEF Sorted
<1>1. PICK s : s = [i \in 1..Count |-> shown(envelope.artifacts[i])]
  OBVIOUS
<1>2. PICK x : x = [id |-> SourceID, key |-> SourceKey]
  OBVIOUS
<1>3. PICK y : y = [id |-> ArtifactID(0), key |-> PrimaryKey]
  OBVIOUS
<1>4. PICK refs : refs = <<x, y>> \o s
  OBVIOUS
<1>5. Referents(envelope) = refs
  <2>1. envelope.source.identity = SourceID /\ envelope.primary.id = ArtifactID(0)
    BY EnvelopeParts, PrimaryParts
  <2>2. Len(envelope.artifacts) = Count
    BY IdentifiersAre
  <2>3. Referents(envelope) = <<[id |-> envelope.source.identity, key |-> SourceKey],
                                [id |-> envelope.primary.id, key |-> PrimaryKey]>>
                              \o [i \in 1..Len(envelope.artifacts) |->
                                     [id |-> envelope.artifacts[i].id, key |-> ReferenceKey(envelope.artifacts[i])]]
    BY Zenon DEF Referents
  <2> QED BY <1>1, <1>2, <1>3, <1>4, <2>1, <2>2, <2>3, Zenon
<1>6. /\ DOMAIN refs = 1..(Count + 2) /\ refs[1] = x /\ refs[2] = y
      /\ \A i \in 1..Count : refs[i + 2] = s[i]
  <2>1. DOMAIN s = 1..Count /\ s = [i \in 1..Count |-> s[i]]
    BY <1>1
  <2> QED BY <1>0, <1>4, <2>1, TwoInFront
<1>7. \A i \in 1..Count : s[i].id # SourceID /\ s[i].key # SourceKey
  <2> SUFFICES ASSUME NEW i \in 1..Count PROVE s[i].id # SourceID /\ s[i].key # SourceKey
    OBVIOUS
  <2>1. PICK a : a = envelope.artifacts[i]
    OBVIOUS
  <2>2. a.id = ArtifactID(i) /\ a.look \in Nat
    BY <2>1, ArtifactParts, DraftsWhole DEF Sorted
  <2>3. ReferenceKey(a)[1] = 2 + a.look /\ SourceKey[1] = 0
    BY DEF ReferenceKey, SourceKey
  <2>4. ReferenceKey(a) # SourceKey
    BY <2>2, <2>3
  <2>5. a.id # SourceID
    BY <2>2, IdentifiersApart DEF SourceID
  <2>6. s[i].id = a.id /\ s[i].key = ReferenceKey(a)
    BY <1>1, <2>1
  <2> QED BY <2>4, <2>5, <2>6
<1>8. y.id # SourceID /\ y.key # SourceKey
  <2>1. PrimaryKey[1] = 1 /\ SourceKey[1] = 0
    BY DEF PrimaryKey, SourceKey
  <2>2. ArtifactID(0) # SourceID
    BY IdentifiersApart DEF SourceID
  <2> QED BY <1>3, <2>1, <2>2
<1>9. \A j \in DOMAIN refs \ {1} : refs[j].id # SourceID /\ refs[j].key # SourceKey
  <2> SUFFICES ASSUME NEW j \in DOMAIN refs \ {1} PROVE refs[j].id # SourceID /\ refs[j].key # SourceKey
    OBVIOUS
  <2>1. CASE j = 2
    BY <1>6, <1>8, <2>1
  <2>2. CASE j # 2
    <3>1. j - 2 \in 1..Count /\ (j - 2) + 2 = j
      BY <1>0, <1>6, <2>2
    <3>2. refs[(j - 2) + 2] = s[j - 2]
      BY <1>6, <3>1
    <3> QED BY <1>7, <3>1, <3>2
  <2> QED BY <2>1, <2>2
<1>10. 1 \in DOMAIN refs /\ refs[1].id = SourceID /\ refs[1].key = SourceKey
  BY <1>0, <1>2, <1>6
<1>11. Resolves(refs, SourceID)
  BY <1>9, <1>10 DEF Resolves
<1>12. (CHOOSE i \in DOMAIN refs : refs[i].id = SourceID) = 1
  <2>1. \A i \in DOMAIN refs : refs[i].id = SourceID => i = 1
    BY <1>9
  <2> QED BY <1>10, <2>1
<1>13. Meaning(refs, SourceID) = SourceKey
  BY <1>10, <1>12 DEF Meaning
<1> QED BY <1>5, <1>11, <1>13

\* The key of an artifact in the envelope is the one it was sorted by.
LEMMA ArtifactsKeyed ==
    ASSUME StageInv, pc = "verifying", NEW i \in 1..Count
    PROVE  /\ Keyed(Referents(envelope), envelope.artifacts[i])
           /\ OrderKey(Referents(envelope), envelope.artifacts[i]) = OwnKey(drafts[i])
<1>1. PICK refs : refs = Referents(envelope)
  OBVIOUS
<1>2. Resolves(refs, SourceID) /\ Meaning(refs, SourceID) = SourceKey
  BY <1>1, SourceResolves
<1>3. PICK a : a = envelope.artifacts[i]
  OBVIOUS
<1>4. /\ a = ContentArtifact(drafts[i], ArtifactID(i)) /\ a.id = ArtifactID(i)
      /\ a.relations = <<Relation(SourceID, ArtifactID(i), Origin(i).occurrence)>>
  BY <1>3, ArtifactParts
<1>5. Keyed(refs, a)
  <2>1. PICK r : r = Relation(SourceID, ArtifactID(i), Origin(i).occurrence)
    OBVIOUS
  <2>2. r.from = SourceID /\ r.to = ArtifactID(i)
    BY <2>1 DEF Relation
  <2>3. DOMAIN a.relations = {1} /\ a.relations[1] = r
    BY <1>4, <2>1
  <2> QED BY <1>2, <1>4, <2>2, <2>3 DEF Keyed
<1>6. Endpoint(refs, a, SourceID) = SourceKey
  <2>1. SourceID # a.id
    BY <1>4, IdentifiersApart DEF SourceID
  <2> QED BY <1>2, <2>1 DEF Endpoint
<1>7. SourceIdentity = SourceID
  BY EnvelopeParts
<1>8. /\ Copy(i).data \in Nat /\ Copy(i).size \in Nat
      /\ drafts[i].identity = <<"sha256", Copy(i).data, Copy(i).size>>
      /\ drafts[i].look \in Nat /\ drafts[i].length \in Nat /\ drafts[i].occurrence \in Nat
  <2>1. /\ Shapes /\ i \in DOMAIN drafts /\ Exact(drafts[i], heap, conversion)
        /\ Copy(i).data \in Nat /\ Copy(i).size \in Nat
    BY DraftsWhole DEF Sorted
  <2>2. drafts[i].identity = <<"sha256", Copy(i).data, Copy(i).size>>
    BY <2>1 DEF Exact, Copy, Origin
  <2> QED BY <2>1, <2>2, DraftTypes
<1>9. OrderKey(refs, ContentArtifact(drafts[i], ArtifactID(i))) = OwnKey(drafts[i])
  <2>1. Endpoint(refs, ContentArtifact(drafts[i], ArtifactID(i)), SourceIdentity) = SourceKey
    BY <1>4, <1>6, <1>7, Zenon
  <2>2. PICK m \in Nat, n \in Nat : m = Copy(i).data /\ n = Copy(i).size
    BY <1>8
  <2>3. drafts[i].identity = <<"sha256", m, n>>
    BY <1>8, <2>2
  <2> HIDE DEF SourceIdentity, Copy
  <2> QED BY <1>8, <2>1, <2>3, ContentKey
<1> QED BY <1>1, <1>3, <1>4, <1>5, <1>9, Zenon

(* The lengths of the artifacts add up to what was charged.                 *)
LEMMA TotalIsPaid ==
    ASSUME StageInv, pc = "verifying"
    PROVE  Total(envelope) = Paid(conversion)[Count]
<1>1. conversion \in Conversion /\ Count \in Nat
  BY DraftsWhole DEF Sorted
<1>2. PICK b : b = [i \in 1..Count |-> envelope.artifacts[i].length]
  OBVIOUS
<1>3. PICK a : a = Sizes(conversion)
  OBVIOUS
<1>4. PICK p : p = [i \in 1..Count |-> drafts[i].raw]
  OBVIOUS
<1>5. p \in Orders(Count)
  <2>1. /\ \A i \in 1..Count : drafts[i].raw \in 1..Count
        /\ \A i, j \in 1..Count : drafts[i].raw = drafts[j].raw => i = j
    BY DraftsWhole DEF Sorted
  <2> QED BY <1>4, <2>1 DEF Orders
<1>6. \A n \in 1..Count : a[n] \in Nat
  BY <1>1, <1>3, SizeTypes DEF Count
<1>7. \A n \in 1..Count : b[n] = a[p[n]]
  <2> SUFFICES ASSUME NEW n \in 1..Count PROVE b[n] = a[p[n]]
    OBVIOUS
  <2>1. b[n] = Copy(n).size
    BY <1>2, ArtifactParts
  <2>2. drafts[n].raw \in 1..Count
    BY DraftsWhole DEF Sorted
  <2>3. a[drafts[n].raw] = Owned[conversion.artifacts[drafts[n].raw].slice].size
    BY <1>1, <1>3, <2>2, SizeTypes DEF Count
  <2> QED BY <1>4, <2>1, <2>3 DEF Copy, Origin
<1>8. \A n \in 1..Count : b[n] \in Nat
  <2>1. \A n \in 1..Count : p[n] \in 1..Count
    BY <1>5 DEF Orders
  <2> QED BY <1>6, <1>7, <2>1
<1>9. Sums(Paid(conversion), a, Count)
  BY <1>1, <1>3, PaidSums DEF Count
<1>10. Len(envelope.artifacts) = Count
  BY IdentifiersAre
<1> DEFINE lengths == envelope.artifacts
           Adds(f) == f = [n \in 0..Len(lengths) |-> IF n = 0 THEN 0 ELSE f[n - 1] + lengths[n].length]
<1>11. Total(envelope) = (CHOOSE f : Adds(f))[Len(lengths)]
  BY Zenon DEF Total
<1>12. \A f : Adds(f) <=> Sums(f, b, Count)
  <2> SUFFICES ASSUME NEW f PROVE Adds(f) <=> Sums(f, b, Count)
    OBVIOUS
  <2>1. \A n \in 0..Count : n # 0 => b[n] = lengths[n].length
    <3>1. \A n \in 0..Count : n # 0 => n \in 1..Count
      BY <1>1
    <3> QED BY <1>2, <3>1
  <2>2. [n \in 0..Count |-> IF n = 0 THEN 0 ELSE f[n - 1] + lengths[n].length]
          = [n \in 0..Count |-> IF n = 0 THEN 0 ELSE f[n - 1] + b[n]]
    BY <2>1
  <2>3. Adds(f) <=> f = [n \in 0..Count |-> IF n = 0 THEN 0 ELSE f[n - 1] + lengths[n].length]
    BY <1>10, Zenon
  <2> QED BY <2>2, <2>3 DEF Sums
<1> HIDE DEF Adds
<1>13. PICK g : Sums(g, b, Count)
  BY <1>1, <1>8, SumsExist
<1>14. PICK f : Adds(f) /\ Total(envelope) = f[Count]
  BY <1>10, <1>11, <1>12, <1>13
<1>15. Sums(f, b, Count)
  BY <1>12, <1>14
<1>16. PICK h : h = Paid(conversion)
  OBVIOUS
<1>17. f[Count] = h[Count]
  BY <1>1, <1>5, <1>6, <1>7, <1>9, <1>15, <1>16, SumsPermuted
<1> QED BY <1>14, <1>16, <1>17

(* The artifacts are within the request's limits when they are all drafted. *)
LEMMA ChargesFit ==
    ASSUME StageInv, pc = "verifying"
    PROVE  Within(conversion)
<1>1. conversion \in Conversion /\ Count \in Nat /\ Len(drafts) = Count
  BY DraftsWhole DEF Sorted
<1>2. /\ ledger.artifactCount = Count /\ ledger.artifactBytes = Paid(conversion)[Count]
      /\ \A i \in DOMAIN drafts : drafts[i].length <= MaxArtifactBytes
      /\ conversion.text <= MaxPrimaryBytes
  BY <1>1 DEF StageInv, Metered, Working, Closed
<1>3. ledger.artifactCount <= MaxArtifacts /\ ledger.artifactBytes <= MaxTotalArtifactBytes
  BY DEF StageInv, SealInv, Charged, WithinLimits
<1>4. ASSUME NEW k \in DOMAIN conversion.artifacts PROVE Sizes(conversion)[k] <= MaxArtifactBytes
  <2>1. k \in 1..Count
    BY <1>1, SizeTypes DEF Count
  <2>2. PICK i \in 1..Count : drafts[i].raw = k
    BY <2>1, DraftsWhole DEF Sorted
  <2>3. i \in DOMAIN drafts /\ Exact(drafts[i], heap, conversion)
    BY DraftsWhole DEF Sorted
  <2>4. drafts[i].length = Owned[conversion.artifacts[k].slice].size
    BY <2>2, <2>3 DEF Exact
  <2>5. Sizes(conversion)[k] = Owned[conversion.artifacts[k].slice].size
    BY <1>1, <2>1, SizeTypes DEF Count
  <2> QED BY <1>2, <2>3, <2>4, <2>5
<1>5. Len(conversion.artifacts) <= MaxArtifacts /\ Paid(conversion)[Len(conversion.artifacts)] <= MaxTotalArtifactBytes
  BY <1>2, <1>3 DEF Count
<1> QED BY <1>1, <1>2, <1>4, <1>5, WithinMeans

\* The inventory holds (verifyArtifacts).
LEMMA InventoryVerifies ==
    ASSUME StageInv, pc = "verifying"
    PROVE  InventoryHolds(envelope) <=>
              /\ Count <= DefaultMaxArtifacts
              /\ \A i \in 1..Count :
                    /\ Copy(i).present /\ Copy(i).size <= V1MaxByteLength
                    /\ Origin(i).look \notin UnsafeLabels /\ Origin(i).occurrence \notin UnsafeLabels
<1> DEFINE holds(i) == ObjectHolds(envelope, envelope.artifacts[i], MaxArtifactBytes)
           sound(i) == /\ Copy(i).present /\ Copy(i).size <= V1MaxByteLength
                       /\ Origin(i).look \notin UnsafeLabels /\ Origin(i).occurrence \notin UnsafeLabels
<1>1. Len(envelope.artifacts) = Count
  BY IdentifiersAre
<1>2. Count <= MaxArtifacts /\ Paid(conversion)[Count] <= MaxTotalArtifactBytes
  <2>1. conversion \in Conversion
    BY DraftsWhole DEF Sorted
  <2> QED BY <2>1, ChargesFit, WithinMeans DEF Count
<1>3. Total(envelope) <= MaxTotalArtifactBytes
  BY <1>2, TotalIsPaid
<1>4. \A i \in 1..Count : envelope.artifacts[i].id = ArtifactID(i)
  BY ArtifactParts
<1>5. \A i \in 1..Count : Keyed(Referents(envelope), envelope.artifacts[i])
  BY ArtifactsKeyed
<1>6. Increasing([i \in 1..Count |-> OrderKey(Referents(envelope), envelope.artifacts[i])])
  <2>1. Increasing([i \in 1..Count |-> OwnKey(drafts[i])])
    <3>1. Len(drafts) = Count
      BY DraftsWhole DEF Sorted
    <3> QED BY <3>1 DEF StageInv, Arranged, Sorted
  <2>2. [i \in 1..Count |-> OrderKey(Referents(envelope), envelope.artifacts[i])]
          = [i \in 1..Count |-> OwnKey(drafts[i])]
    <3>1. \A i \in 1..Count : OrderKey(Referents(envelope), envelope.artifacts[i]) = OwnKey(drafts[i])
      BY ArtifactsKeyed
    <3> QED BY <3>1
  <2> QED BY <2>1, <2>2
<1>7. InventoryHolds(envelope) <=>
         /\ Count <= DefaultMaxArtifacts /\ Count <= MaxArtifacts
         /\ \A i \in 1..Count : /\ envelope.artifacts[i].id = ArtifactID(i)
                                /\ Keyed(Referents(envelope), envelope.artifacts[i])
                                /\ holds(i)
         /\ Increasing([i \in 1..Count |-> OrderKey(Referents(envelope), envelope.artifacts[i])])
         /\ Total(envelope) <= MaxTotalArtifactBytes
  BY <1>1, Zenon DEF InventoryHolds
<1>8. \A i \in 1..Count : holds(i) <=> sound(i)
  BY ArtifactVerifies
<1> HIDE DEF holds, sound
<1>9. InventoryHolds(envelope) <=> Count <= DefaultMaxArtifacts /\ \A i \in 1..Count : sound(i)
  BY <1>2, <1>3, <1>4, <1>5, <1>6, <1>7, <1>8, Zenon
<1> QED BY <1>9, Zenon DEF sound

(* No two things of the envelope have one identifier.                       *)
LEMMA IdentifiersVerify ==
    ASSUME StageInv, pc = "verifying"
    PROVE  IdentifiersDiffer(envelope)
<1>1. Count \in Nat /\ Len(envelope.artifacts) = Count
  BY IdentifiersAre, DraftsWhole DEF Sorted
<1>2. Identifiers(envelope) = {SourceID} \cup {ArtifactID(k) : k \in 0..Count}
  BY IdentifiersAre
<1> DEFINE S == {ArtifactID(k) : k \in 0..Count}
           name == [k \in 0..Count |-> ArtifactID(k)]
<1>3. name \in Bijection(0..Count, S)
  <2>1. name \in [0..Count -> S]
    OBVIOUS
  <2>2. \A j, k \in 0..Count : name[j] = name[k] => j = k
    BY IdentifiersApart
  <2>3. \A t \in S : \E k \in 0..Count : name[k] = t
    OBVIOUS
  <2> QED BY <2>1, <2>2, <2>3 DEF Bijection, Injection, Surjection, IsInjective
<1>4. IsFiniteSet(0..Count) /\ Cardinality(0..Count) = Count + 1
  <2>1. 0 \in Int /\ Count \in Int
    BY <1>1
  <2>2. IsFiniteSet(0..Count) /\ Cardinality(0..Count) = IF 0 > Count THEN 0 ELSE Count - 0 + 1
    BY <2>1, FS_Interval
  <2> QED BY <1>1, <2>2
<1> HIDE DEF S, name
<1>5. IsFiniteSet(S) /\ Cardinality(S) = Count + 1
  <2>1. ExistsBijection(0..Count, S)
    BY <1>3 DEF ExistsBijection
  <2> QED BY <1>4, <2>1, FS_Bijection
<1>6. SourceID \notin S
  BY IdentifiersApart DEF S, SourceID
<1>7. Cardinality(S \cup {SourceID}) = (Count + 1) + 1
  BY <1>5, <1>6, FS_AddElement
<1>8. S \cup {SourceID} = Identifiers(envelope) /\ (Count + 1) + 1 = 2 + Count
  BY <1>1, <1>2 DEF S
<1> QED BY <1>1, <1>7, <1>8 DEF IdentifiersDiffer

(* The provenance names what the envelope holds, in its order.              *)
LEMMA ProvenanceVerifies ==
    ASSUME StageInv, pc = "verifying"
    PROVE  ProvenanceHolds(envelope)
<1>1. Count \in Nat
  BY DraftsWhole DEF Sorted
<1>2. PICK s : s = [i \in 1..Count |-> envelope.artifacts[i].identity]
  OBVIOUS
<1>3. PICK x : x = envelope.primary.identity
  OBVIOUS
<1>4. PICK u : u = <<x>> \o s
  OBVIOUS
<1>5. envelope.outputs = u
  BY <1>2, <1>3, <1>4, EnvelopeParts, Zenon
<1>6. /\ u[1] = x /\ (\A i \in 1..Count : u[i + 1] = s[i])
      /\ u = [i \in 1..(Count + 1) |-> u[i]]
  <2>1. DOMAIN s = 1..Count /\ s = [i \in 1..Count |-> s[i]]
    BY <1>2
  <2> QED BY <1>1, <1>4, <2>1, PutInFront
<1>7. PICK o : o = Outputs(envelope)
  OBVIOUS
<1>8. Len(o) = Count + 1 /\ o[1] = envelope.primary /\ \A i \in 1..Count : o[i + 1] = envelope.artifacts[i]
  BY <1>7, IdentifiersAre
<1>9. \A i \in 1..(Count + 1) : u[i] = o[i].identity
  <2> SUFFICES ASSUME NEW i \in 1..(Count + 1) PROVE u[i] = o[i].identity
    OBVIOUS
  <2>1. CASE i = 1
    BY <1>3, <1>6, <1>8, <2>1
  <2>2. CASE i # 1
    <3>1. i - 1 \in 1..Count /\ (i - 1) + 1 = i
      BY <1>1, <2>2
    <3>2. u[(i - 1) + 1] = s[i - 1] /\ o[(i - 1) + 1] = envelope.artifacts[i - 1]
      BY <1>6, <1>8, <3>1
    <3> QED BY <1>2, <3>1, <3>2
  <2> QED BY <2>1, <2>2
<1>10. u = [i \in 1..Len(o) |-> o[i].identity]
  BY <1>6, <1>8, <1>9
<1>11. envelope.sourceIdentity = envelope.source.identity
  BY EnvelopeParts
<1> QED BY <1>5, <1>7, <1>10, <1>11, Zenon DEF ProvenanceHolds

(* Everything in the envelope is in a store of its own.                     *)
LEMMA OwnershipVerifies ==
    ASSUME StageInv, pc = "verifying"
    PROVE  OwnershipHolds(envelope)
<1>1. Count \in Nat /\ Shapes
  BY DraftsWhole DEF Sorted
<1>2. PICK o : o = Outputs(envelope)
  OBVIOUS
<1>3. /\ DOMAIN o = 1..(Count + 1) /\ Len(o) = Count + 1
      /\ o[1] = envelope.primary /\ \A i \in 1..Count : o[i + 1] = envelope.artifacts[i]
  BY <1>2, IdentifiersAre
<1>4. PICK t : t = [i \in 1..Len(o) |-> o[i].bytes]
  OBVIOUS
<1>5. PICK u : u = <<envelope.source.bytes>> \o t
  OBVIOUS
<1>6. DOMAIN t = 1..(Count + 1) /\ t = [i \in 1..(Count + 1) |-> t[i]] /\ Count + 1 \in Nat
  BY <1>1, <1>3, <1>4
<1>7. /\ DOMAIN u = 1..((Count + 1) + 1) /\ u[1] = envelope.source.bytes
      /\ \A i \in 1..(Count + 1) : u[i + 1] = t[i]
  BY <1>5, <1>6, PutInFront
<1>8. PICK h \in Nat, first \in Nat : h = Len(heap) /\ first = SourceStore
  <2>1. Len(heap) \in Nat /\ SourceStore \in Nat
    BY <1>1, SliceTypes, SealAssumption DEF StageInv, SealInv, TypeOK, Shapes, SourceStore
  <2> QED BY <2>1
<1>9. /\ u[1].store = first /\ t[1].store = h
      /\ \A i \in 1..Count : t[i + 1].store = drafts[i].store
  <2>1. envelope.source.bytes.store = SourceStore /\ envelope.primary.bytes.store = Len(heap)
    BY EnvelopeParts, PrimaryParts
  <2>2. \A i \in 1..Count : envelope.artifacts[i].bytes.store = drafts[i].store
    BY ArtifactParts
  <2>3. 1 \in 1..(Count + 1) /\ \A i \in 1..Count : i + 1 \in 1..(Count + 1)
    BY <1>1
  <2> HIDE DEF SourceStore
  <2> QED BY <1>3, <1>4, <1>7, <1>8, <2>1, <2>2, <2>3
<1>10. \A i \in 1..Count : drafts[i].store \in Nat /\ drafts[i].store > first /\ drafts[i].store < h
  <2> SUFFICES ASSUME NEW i \in 1..Count
               PROVE  drafts[i].store \in Nat /\ drafts[i].store > first /\ drafts[i].store < h
    OBVIOUS
  <2>1. i \in DOMAIN drafts /\ Exact(drafts[i], heap, conversion)
    BY DraftsWhole DEF Sorted
  <2>2. drafts[i].store \in (SourceStore + 1)..Len(heap)
    BY <2>1 DEF Exact
  <2>3. drafts[i].store < Len(heap)
    BY <2>1 DEF StageInv, Written, Closed
  <2> HIDE DEF SourceStore
  <2> QED BY <1>8, <2>2, <2>3
<1>11. first < h
  BY <1>8 DEF StageInv, SealInv, Linked
<1>12. \A i, j \in 1..Count : drafts[i].store = drafts[j].store => i = j
  BY DraftsWhole DEF Sorted
<1>13. \A i, j \in 1..(Count + 1) : t[i].store = t[j].store => i = j
  <2> SUFFICES ASSUME NEW i \in 1..(Count + 1), NEW j \in 1..(Count + 1), t[i].store = t[j].store, i # j
               PROVE  FALSE
    OBVIOUS
  <2>1. \A k \in 1..(Count + 1) : k # 1 => k - 1 \in 1..Count /\ (k - 1) + 1 = k
    BY <1>1
  <2>2. \A k \in 1..(Count + 1) : k # 1 => t[k].store = drafts[k - 1].store
    BY <1>9, <2>1
  <2>3. \A k \in 1..(Count + 1) : k # 1 => t[k].store # t[1].store
    BY <1>8, <1>9, <1>10, <2>1, <2>2
  <2>4. i # 1 /\ j # 1
    BY <2>3
  <2>5. i - 1 = j - 1
    BY <1>12, <2>1, <2>2, <2>4
  <2> QED BY <2>5
<1>14. \A i \in 1..(Count + 1) : t[i].store # first
  <2> SUFFICES ASSUME NEW i \in 1..(Count + 1) PROVE t[i].store # first
    OBVIOUS
  <2>1. CASE i = 1
    BY <1>8, <1>9, <1>11, <2>1
  <2>2. CASE i # 1
    <3>1. i - 1 \in 1..Count /\ (i - 1) + 1 = i
      BY <1>1, <2>2
    <3> QED BY <1>8, <1>9, <1>10, <3>1
  <2> QED BY <2>1, <2>2
<1>15. \A i, j \in DOMAIN u : u[i].store = u[j].store => i = j
  <2> SUFFICES ASSUME NEW i \in DOMAIN u, NEW j \in DOMAIN u, u[i].store = u[j].store, i # j
               PROVE  FALSE
    OBVIOUS
  <2>1. \A k \in DOMAIN u : k # 1 => k - 1 \in 1..(Count + 1) /\ (k - 1) + 1 = k /\ u[k] = t[k - 1]
    <3>1. \A k \in DOMAIN u : k # 1 => k - 1 \in 1..(Count + 1) /\ (k - 1) + 1 = k
      BY <1>1, <1>7
    <3> QED BY <1>7, <3>1
  <2>2. i # 1 /\ j # 1
    BY <1>9, <1>14, <2>1
  <2>3. i - 1 = j - 1
    BY <1>13, <2>1, <2>2
  <2>4. i \in Int /\ j \in Int
    BY <1>7
  <2> QED BY <2>3, <2>4
<1>16. OwnershipHolds(envelope) <=>
          \A i, j \in DOMAIN u : /\ u[i].size > 0 /\ u[j].size > 0
                                 /\ u[i].store = u[j].store
                                 => i = j
  <2> DEFINE U == <<envelope.source.bytes>>
                    \o [i \in 1..Len(Outputs(envelope)) |-> Outputs(envelope)[i].bytes]
  <2>1. OwnershipHolds(envelope) <=>
           \A i, j \in DOMAIN U : /\ U[i].size > 0 /\ U[j].size > 0
                                  /\ U[i].store = U[j].store
                                  => i = j
    BY Zenon DEF OwnershipHolds
  <2>2. u = U
    BY <1>2, <1>4, <1>5, Zenon
  <2> HIDE DEF U
  <2> QED BY <2>1, <2>2
<1> QED BY <1>15, <1>16, Zenon

-----------------------------------------------------------------------------
(* What a well-formed conversion is, part by part.                         *)
SoundArtifacts ==
    \A i \in DOMAIN conversion.artifacts :
        /\ conversion.artifacts[i].described /\ Owned[conversion.artifacts[i].slice].present
        /\ conversion.artifacts[i].look \notin UnsafeLabels
        /\ conversion.artifacts[i].occurrence \notin UnsafeLabels
        /\ Owned[conversion.artifacts[i].slice].size <= V1MaxByteLength
        /\ \A j \in DOMAIN conversion.artifacts \ {i} :
              Given(conversion.artifacts[j]) # Given(conversion.artifacts[i])

SoundLinks ==
    conversion.rewrite =>
        \A i \in DOMAIN conversion.tokens :
            conversion.tokens[i].opened => /\ conversion.tokens[i].shaped
                                           /\ conversion.tokens[i].ordinal \in DOMAIN conversion.artifacts

SoundFacts ==
    /\ \A i \in DOMAIN conversion.facts : conversion.facts[i].origin = Converted
    /\ \A i \in DOMAIN GivenFacts : /\ GivenFacts[i].kind \notin UnsafeLabels
                                    /\ GivenFacts[i].value \notin UnsafeLabels
    /\ \A i, j \in DOMAIN GivenFacts :
          GivenFacts[i].kind = GivenFacts[j].kind /\ GivenFacts[i].origin = GivenFacts[j].origin => i = j

SoundWarnings == \A i \in DOMAIN conversion.warnings : conversion.warnings[i] \notin UnsafeLabels

\* Well formed is all of these.
LEMMA WellFormedMeans ==
    WellFormed(conversion) <=>
        /\ Owned[1].present /\ ~conversion.foreign
        /\ SoundArtifacts /\ SoundLinks /\ SoundFacts /\ SoundWarnings
        /\ Len(conversion.artifacts) <= DefaultMaxArtifacts
        /\ {conversion.text, Owned[1].size} \subseteq 0..V1MaxByteLength
  BY Zenon DEF WellFormed, SoundArtifacts, SoundLinks, SoundFacts, SoundWarnings, GivenFacts

-----------------------------------------------------------------------------
\* The facts that are shown are the facts that were given.
LEMMA FactsClashMeans ==
    ASSUME Shapes
    PROVE  /\ FactsClash => ~SoundFacts
           /\ ~FactsClash =>
                 /\ \A i \in DOMAIN conversion.facts : conversion.facts[i].origin = Converted
                 /\ \A i, j \in DOMAIN AllFacts :
                       AllFacts[i].kind = AllFacts[j].kind /\ AllFacts[i].origin = AllFacts[j].origin
                           => i = j
                 /\ \A i, j \in DOMAIN GivenFacts :
                       GivenFacts[i].kind = GivenFacts[j].kind /\ GivenFacts[i].origin = GivenFacts[j].origin
                           => i = j
<1>1. PICK s : s = GivenFacts
  OBVIOUS
<1>2. PICK t : t = AllFacts
  OBVIOUS
<1>3. PICK N : N = Len(s)
  OBVIOUS
<1>4. s \in Seq(Fact) /\ N \in Nat /\ DOMAIN s = 1..N /\ DOMAIN t = 1..N
  <2>1. s \in Seq(Fact) /\ DOMAIN t = DOMAIN s
    BY <1>1, <1>2, FactsShown, Zenon
  <2> QED BY <1>3, <2>1
<1>5. PICK p \in Orders(N) : \A i \in DOMAIN s : t[i] = s[p[i]]
  <2>1. \E p \in Orders(Len(GivenFacts)) : \A i \in DOMAIN GivenFacts : AllFacts[i] = GivenFacts[p[i]]
    BY FactsShown
  <2> QED BY <1>1, <1>2, <1>3, <2>1, Zenon
<1>6. /\ \A i \in 1..N : p[i] \in 1..N
      /\ \A i, j \in 1..N : p[i] = p[j] => i = j
      /\ \A k \in 1..N : \E i \in 1..N : p[i] = k
  <2>1. /\ p \in [1..N -> 1..N]
        /\ \A i, j \in 1..N : p[i] = p[j] => i = j
        /\ \A k \in 1..N : \E i \in 1..N : p[i] = k
    BY <1>4, <1>5, ArrangesAll
  <2> QED BY <2>1
<1>7. \A i \in DOMAIN conversion.facts : \E j \in DOMAIN s : s[j] = conversion.facts[i]
  BY <1>1, FactsShown, Zenon
<1> DEFINE same(f, i, j) == f[i].kind = f[j].kind /\ f[i].origin = f[j].origin
<1>11. FactsClash <=> \/ \E i \in DOMAIN conversion.facts :
                           \/ conversion.facts[i].origin # Converted
                           \/ conversion.facts[i].value \in UnsafeLabels
                     \/ \E i, j \in DOMAIN t :
                           /\ i # j
                           /\ t[i].kind = t[j].kind /\ t[i].origin = t[j].origin
  BY <1>2, Zenon DEF FactsClash
<1>8. FactsClash => ~SoundFacts
  <2>1. ASSUME NEW i \in DOMAIN conversion.facts, conversion.facts[i].origin # Converted
        PROVE  ~SoundFacts
    BY <2>1 DEF SoundFacts
  <2>2. ASSUME NEW i \in DOMAIN conversion.facts, conversion.facts[i].value \in UnsafeLabels
        PROVE  ~SoundFacts
    <3>1. PICK j \in DOMAIN s : s[j] = conversion.facts[i]
      BY <1>7
    <3> HIDE DEF GivenFacts
    <3> QED BY <1>1, <2>2, <3>1 DEF SoundFacts
  <2>3. ASSUME NEW i \in DOMAIN t, NEW j \in DOMAIN t, i # j, t[i].kind = t[j].kind, t[i].origin = t[j].origin
        PROVE  ~SoundFacts
    <3>1. /\ p[i] \in DOMAIN s /\ p[j] \in DOMAIN s /\ p[i] # p[j]
          /\ s[p[i]].kind = s[p[j]].kind /\ s[p[i]].origin = s[p[j]].origin
      BY <1>4, <1>5, <1>6, <2>3
    <3> HIDE DEF GivenFacts
    <3> QED BY <1>1, <3>1 DEF SoundFacts
  <2> HIDE DEF SoundFacts, FactsClash
  <2> QED BY <1>11, <2>1, <2>2, <2>3, Zenon
<1>9. ASSUME ~FactsClash
      PROVE  /\ \A i \in DOMAIN conversion.facts : conversion.facts[i].origin = Converted
             /\ \A i, j \in DOMAIN t : same(t, i, j) => i = j
  <2> HIDE DEF FactsClash
  <2>1. \A i \in DOMAIN conversion.facts : conversion.facts[i].origin = Converted
    BY <1>9, <1>11, Zenon
  <2>2. ASSUME NEW i \in DOMAIN t, NEW j \in DOMAIN t, same(t, i, j) PROVE i = j
    BY <1>9, <1>11, <2>2, Zenon
  <2> QED BY <2>1, <2>2, Zenon
<1>10. ASSUME ~FactsClash, NEW k \in DOMAIN s, NEW l \in DOMAIN s, same(s, k, l)
       PROVE  k = l
  <2>1. PICK i \in 1..N : p[i] = k
    BY <1>4, <1>6
  <2>2. PICK j \in 1..N : p[j] = l
    BY <1>4, <1>6
  <2>3. t[i] = s[k] /\ t[j] = s[l]
    BY <1>4, <1>5, <2>1, <2>2
  <2>4. i \in DOMAIN t /\ j \in DOMAIN t
    BY <1>4, Zenon
  <2>5. same(t, i, j)
    BY <1>10, <2>3, Zenon
  <2>6. i = j
    BY <1>9, <1>10, <2>4, <2>5, Zenon
  <2> QED BY <2>1, <2>2, <2>6
<1> HIDE DEF GivenFacts, AllFacts, FactsClash, SoundFacts
<1> QED BY <1>1, <1>2, <1>8, <1>9, <1>10

\* The facts hold (verifyFacts).
LEMMA FactsVerify ==
    ASSUME StageInv, pc = "verifying"
    PROVE  FactsHold(envelope) <=> SoundFacts
<1>0. Shapes
  BY DraftsWhole DEF Sorted
<1>1. PICK s : s = GivenFacts
  OBVIOUS
<1>2. PICK t : t = AllFacts
  OBVIOUS
<1>3. envelope.facts = t
  BY <1>2, EnvelopeParts
<1>4. /\ DOMAIN t = DOMAIN s
      /\ Monotone([i \in 1..Len(t) |-> FactKey(t[i])])
      /\ s \in Seq(Fact)
  BY <1>0, <1>1, <1>2, FactsShown, Zenon
<1>5. PICK p \in Orders(Len(s)) : \A i \in DOMAIN s : t[i] = s[p[i]]
  <2>1. \E p \in Orders(Len(GivenFacts)) : \A i \in DOMAIN GivenFacts : AllFacts[i] = GivenFacts[p[i]]
    BY <1>0, FactsShown
  <2> QED BY <1>1, <1>2, <2>1, Zenon
<1>6. /\ DOMAIN s = 1..Len(s) /\ Len(s) \in Nat
      /\ \A i \in DOMAIN s : p[i] \in DOMAIN s
      /\ \A k \in DOMAIN s : \E i \in DOMAIN s : p[i] = k
  <2>1. DOMAIN s = 1..Len(s) /\ Len(s) \in Nat
    BY <1>4
  <2>2. /\ p \in [1..Len(s) -> 1..Len(s)]
        /\ \A k \in 1..Len(s) : \E i \in 1..Len(s) : p[i] = k
    BY <1>5, <2>1, ArrangesAll
  <2> QED BY <2>1, <2>2
<1> DEFINE safe(f) == f.kind \notin UnsafeLabels /\ f.value \notin UnsafeLabels
           apart(f) == \A i, j \in DOMAIN f : f[i].kind = f[j].kind /\ f[i].origin = f[j].origin => i = j
<1>7. (\A i \in DOMAIN t : safe(t[i])) <=> (\A i \in DOMAIN s : safe(s[i]))
  <2> HIDE DEF safe
  <2>1. ASSUME \A i \in DOMAIN t : safe(t[i]), NEW k \in DOMAIN s PROVE safe(s[k])
    <3>1. PICK i \in DOMAIN s : p[i] = k
      BY <1>6
    <3>2. t[i] = s[k] /\ i \in DOMAIN t
      BY <1>4, <1>5, <3>1
    <3> QED BY <2>1, <3>2
  <2>2. ASSUME \A i \in DOMAIN s : safe(s[i]), NEW i \in DOMAIN t PROVE safe(t[i])
    <3>1. t[i] = s[p[i]] /\ p[i] \in DOMAIN s
      BY <1>4, <1>5, <1>6
    <3> QED BY <2>2, <3>1
  <2> QED BY <2>1, <2>2
<1>8. ~FactsClash
  BY DEF StageInv, Enveloped
<1>9. (\A i \in DOMAIN conversion.facts : conversion.facts[i].origin = Converted) /\ apart(t) /\ apart(s)
  BY <1>0, <1>1, <1>2, <1>8, FactsClashMeans, Zenon
<1> HIDE DEF apart
<1>10. FactsHold(envelope) <=>
          /\ Monotone([i \in 1..Len(t) |-> FactKey(t[i])]) /\ apart(t) /\ \A i \in DOMAIN t : safe(t[i])
  <2>1. \A i : {t[i].kind, t[i].value} \cap UnsafeLabels = {} <=> safe(t[i])
    OBVIOUS
  <2>2. FactsHold(envelope) <=>
           /\ Monotone([i \in 1..Len(t) |-> FactKey(t[i])]) /\ apart(t)
           /\ \A i \in DOMAIN t : {t[i].kind, t[i].value} \cap UnsafeLabels = {}
    BY <1>3, Zenon DEF FactsHold, apart
  <2> HIDE DEF safe
  <2> QED BY <2>1, <2>2, Zenon
<1>11. SoundFacts <=>
          /\ \A i \in DOMAIN conversion.facts : conversion.facts[i].origin = Converted
          /\ (\A i \in DOMAIN s : safe(s[i])) /\ apart(s)
  BY <1>1, Zenon DEF SoundFacts, safe, apart
<1> HIDE DEF safe
<1> QED BY <1>4, <1>7, <1>9, <1>10, <1>11, Zenon

\* The warnings hold (verifyWarnings).
LEMMA WarningsVerify ==
    ASSUME StageInv, pc = "verifying"
    PROVE  WarningsHold(envelope) <=> SoundWarnings
<1>0. Shapes
  BY DraftsWhole DEF Sorted
<1>1. PICK s : s = conversion.warnings
  OBVIOUS
<1>2. PICK t : t = AllWarnings
  OBVIOUS
<1>3. envelope.warnings = t
  BY <1>2, EnvelopeParts
<1>4. /\ s \in Seq(Nat) /\ DOMAIN t = DOMAIN s
      /\ Monotone([i \in 1..Len(t) |-> WarningKey(t[i])])
  BY <1>0, <1>1, <1>2, WarningsShown, Zenon
<1>5. PICK p \in Orders(Len(s)) : \A i \in DOMAIN s : t[i] = s[p[i]]
  BY <1>0, <1>1, <1>2, WarningsShown, Zenon
<1>6. DOMAIN s = 1..Len(s) /\ Len(s) \in Nat
  BY <1>4
<1>7. /\ \A i \in DOMAIN s : p[i] \in DOMAIN s
      /\ \A k \in DOMAIN s : \E i \in DOMAIN s : p[i] = k
  <2>1. /\ p \in [1..Len(s) -> 1..Len(s)]
        /\ \A k \in 1..Len(s) : \E i \in 1..Len(s) : p[i] = k
    BY <1>5, <1>6, ArrangesAll
  <2> QED BY <1>6, <2>1
<1>8. (\A i \in DOMAIN t : t[i] \notin UnsafeLabels) <=> (\A i \in DOMAIN s : s[i] \notin UnsafeLabels)
  <2>1. ASSUME \A i \in DOMAIN t : t[i] \notin UnsafeLabels, NEW k \in DOMAIN s PROVE s[k] \notin UnsafeLabels
    <3>1. PICK i \in DOMAIN s : p[i] = k
      BY <1>7
    <3> QED BY <1>4, <1>5, <2>1, <3>1
  <2>2. ASSUME \A i \in DOMAIN s : s[i] \notin UnsafeLabels, NEW i \in DOMAIN t PROVE t[i] \notin UnsafeLabels
    BY <1>4, <1>5, <1>7, <2>2
  <2> QED BY <2>1, <2>2
<1>9. WarningsHold(envelope) <=> \A i \in DOMAIN t : t[i] \notin UnsafeLabels
  BY <1>3, <1>4, Zenon DEF WarningsHold
<1> QED BY <1>1, <1>8, <1>9, Zenon DEF SoundWarnings

\* Artifacts that are given alike agree in every part.
LEMMA GivenMeans ==
    ASSUME NEW r, NEW q, Given(r) = Given(q)
    PROVE  /\ r.look = q.look /\ r.occurrence = q.occurrence
           /\ Owned[r.slice].data = Owned[q.slice].data
           /\ Owned[r.slice].size = Owned[q.slice].size
<1>1. /\ Given(r)[1] = r.look /\ Given(r)[2] = Owned[r.slice].data
      /\ Given(r)[3] = Owned[r.slice].size /\ Given(r)[4] = r.occurrence
  BY DEF Given, Thing
<1>2. /\ Given(q)[1] = q.look /\ Given(q)[2] = Owned[q.slice].data
      /\ Given(q)[3] = Owned[q.slice].size /\ Given(q)[4] = q.occurrence
  BY DEF Given, Thing
<1> QED BY <1>1, <1>2

\* Artifacts that could be put in strict order all differ.
LEMMA GivenDiffer ==
    ASSUME StageInv, Sorted, NEW k \in 1..Count, NEW l \in 1..Count, k # l
    PROVE  Given(conversion.artifacts[l]) # Given(conversion.artifacts[k])
<1> SUFFICES ASSUME Given(conversion.artifacts[l]) = Given(conversion.artifacts[k]) PROVE FALSE
  OBVIOUS
<1>0. Len(drafts) = Count /\ Count \in Nat
  BY DraftsWhole
<1>1. PICK keys : keys = [i \in 1..Count |-> OwnKey(drafts[i])]
  OBVIOUS
<1>2. Increasing(keys)
  BY <1>0, <1>1 DEF StageInv, Arranged
<1>3. keys \in [1..Count -> Key(14)] /\ 14 \in Nat
  BY <1>1, DraftsWhole
<1>4. \A i, j \in 1..Count : keys[i] = keys[j] => i = j
  BY <1>0, <1>2, <1>3, IncreasingKeys
<1>5. PICK i \in 1..Count : drafts[i].raw = k
  BY DraftsWhole
<1>6. PICK j \in 1..Count : drafts[j].raw = l
  BY DraftsWhole
<1>7. Origin(i) = conversion.artifacts[k] /\ Origin(j) = conversion.artifacts[l]
  BY <1>5, <1>6 DEF Origin
<1>8. /\ Origin(j).look = Origin(i).look /\ Origin(j).occurrence = Origin(i).occurrence
      /\ Copy(j).data = Copy(i).data /\ Copy(j).size = Copy(i).size
  <2>1. Given(Origin(j)) = Given(Origin(i))
    BY <1>7
  <2> HIDE DEF Origin
  <2> QED BY <2>1, GivenMeans DEF Copy
<1>9. /\ OwnKey(drafts[i]) = KeyOf(Origin(i).look, Copy(i).data, Copy(i).size,
                                   Copy(i).size, Origin(i).occurrence)
      /\ OwnKey(drafts[j]) = KeyOf(Origin(j).look, Copy(j).data, Copy(j).size,
                                   Copy(j).size, Origin(j).occurrence)
  BY DraftsWhole
<1>10. keys[i] = keys[j]
  <2>1. OwnKey(drafts[i]) = OwnKey(drafts[j])
    BY <1>8, <1>9, Zenon
  <2> QED BY <1>1, <2>1
<1>11. i = j
  BY <1>4, <1>10
<1> QED BY <1>5, <1>6, <1>11

\* The inventory holds when the artifacts are sound and few enough.
LEMMA ArtifactsVerify ==
    ASSUME StageInv, pc = "verifying"
    PROVE  InventoryHolds(envelope) <=> Count <= DefaultMaxArtifacts /\ SoundArtifacts
<1> DEFINE safe(k) == /\ Owned[conversion.artifacts[k].slice].present
                      /\ Owned[conversion.artifacts[k].slice].size <= V1MaxByteLength
                      /\ conversion.artifacts[k].look \notin UnsafeLabels
                      /\ conversion.artifacts[k].occurrence \notin UnsafeLabels
<1>1. DOMAIN conversion.artifacts = 1..Count
  BY SizeTypes, DraftsWhole DEF Sorted, Count
<1>2. /\ \A i \in 1..Count : drafts[i].raw \in 1..Count /\ Origin(i).described
      /\ \A k \in 1..Count : \E i \in 1..Count : drafts[i].raw = k
  BY DraftsWhole DEF Sorted
<1>3. InventoryHolds(envelope) <=> Count <= DefaultMaxArtifacts /\ \A i \in 1..Count : safe(drafts[i].raw)
  BY InventoryVerifies, Zenon DEF Copy, Origin
<1>4. \A k \in 1..Count : conversion.artifacts[k].described
  BY <1>2 DEF Origin
<1>5. \A k \in 1..Count : \A l \in (1..Count) \ {k} : Given(conversion.artifacts[l]) # Given(conversion.artifacts[k])
  BY GivenDiffer DEF Sorted
<1>6. SoundArtifacts <=> \A k \in 1..Count : safe(k)
  <2>1. SoundArtifacts <=>
           \A k \in 1..Count :
               /\ conversion.artifacts[k].described /\ safe(k)
               /\ \A l \in (1..Count) \ {k} : Given(conversion.artifacts[l]) # Given(conversion.artifacts[k])
    BY <1>1, Zenon DEF SoundArtifacts
  <2> HIDE DEF safe
  <2> QED BY <1>4, <1>5, <2>1, Zenon
<1> HIDE DEF safe
<1>7. (\A i \in 1..Count : safe(drafts[i].raw)) <=> \A k \in 1..Count : safe(k)
  BY <1>2
<1> QED BY <1>3, <1>6, <1>7, Zenon

(* The verifier accepts what sealing made of a conversion exactly when the *)
(* conversion was well formed.                                             *)
LEMMA VerifiesWellFormed ==
    ASSUME StageInv, pc = "verifying"
    PROVE  VerifyEnvelope(envelope) <=> WellFormed(conversion)
<1>1. conversion \in Conversion /\ conversion.text \in Nat /\ Owned[1].size \in Nat /\ V1MaxByteLength \in Nat
  BY SizeTypes, SliceTypes, CeilingAssumption, DraftsWhole DEF Sorted
<1>2. ~conversion.foreign /\ SoundLinks
  BY DEF StageInv, Drafted, Working, Written, Closed, SoundLinks
<1>3. envelope.primary.id = ArtifactID(0)
  BY PrimaryParts
<1>4. VerifyEnvelope(envelope) <=>
         /\ SourceHolds(envelope) /\ ObjectHolds(envelope, envelope.primary, MaxPrimaryBytes)
         /\ InventoryHolds(envelope) /\ FactsHold(envelope) /\ WarningsHold(envelope)
  BY <1>3, IdentifiersVerify, ProvenanceVerifies, OwnershipVerifies, Zenon DEF VerifyEnvelope
<1>5. VerifyEnvelope(envelope) <=>
         /\ Owned[1].present /\ Owned[1].size <= V1MaxByteLength /\ conversion.text <= V1MaxByteLength
         /\ Count <= DefaultMaxArtifacts /\ SoundArtifacts /\ SoundFacts /\ SoundWarnings
  BY <1>4, SourceVerifies, PrimaryVerifies, ArtifactsVerify, FactsVerify, WarningsVerify, Zenon
<1>6. {conversion.text, Owned[1].size} \subseteq 0..V1MaxByteLength <=>
         conversion.text <= V1MaxByteLength /\ Owned[1].size <= V1MaxByteLength
  BY <1>1
<1> QED BY <1>2, <1>5, <1>6, WellFormedMeans, Zenon DEF Count

-----------------------------------------------------------------------------
(* What was asked for, and what is handed out.                             *)
Asked == [things |-> {Given(conversion.artifacts[i]) : i \in DOMAIN conversion.artifacts},
          links  |-> [i \in DOMAIN conversion.tokens |->
                         Leads(conversion.tokens[i], conversion.artifacts, Given)]]
Held  == [things |-> {Delivered(View.artifacts[i]) : i \in DOMAIN View.artifacts},
          links  |-> [i \in DOMAIN envelope.primary.bytes.data |->
                         Leads(envelope.primary.bytes.data[i], View.artifacts, Delivered)]]

(* An envelope that was handed out holds what was asked for, and nothing   *)
(* else.                                                                   *)
LEMMA HeldIsAsked == StageInv /\ outcome = "ok" => Held = Asked
<1> SUFFICES ASSUME StageInv, outcome = "ok" PROVE Held = Asked
  OBVIOUS
<1>1. /\ View = envelope /\ DOMAIN envelope.artifacts = DOMAIN drafts
      /\ envelope.primary.bytes.data = tokens /\ DOMAIN tokens = DOMAIN conversion.tokens
  BY DEF StageInv, SealInv, Shown, Linked, Renamed
<1>2. [i \in DOMAIN envelope.primary.bytes.data |->
          Leads(envelope.primary.bytes.data[i], View.artifacts, Delivered)]
        = [i \in DOMAIN conversion.tokens |-> Leads(conversion.tokens[i], conversion.artifacts, Given)]
  <2>1. ReferencesKeepMeaning
    BY MeaningKept DEF StageInv
  <2>2. \A i \in DOMAIN conversion.tokens :
           Leads(envelope.primary.bytes.data[i], View.artifacts, Delivered)
             = Leads(conversion.tokens[i], conversion.artifacts, Given)
    BY <2>1, Zenon DEF ReferencesKeepMeaning
  <2>3. DOMAIN envelope.primary.bytes.data = DOMAIN conversion.tokens
    BY <1>1
  <2> QED BY <2>2, <2>3, Zenon
<1>3. Covered /\ Shapes
  BY DEF StageInv, Arranged, SealInv
<1>4. PICK N \in Nat : N = Len(drafts)
  BY <1>3 DEF Shapes
<1>5. DOMAIN drafts = 1..N /\ DOMAIN conversion.artifacts = 1..N
  BY <1>3, <1>4, ConversionTypes DEF Shapes, Covered
<1>6. \A k \in 1..N : \E i \in 1..N : drafts[i].raw = k
  <2>1. PICK p : p = [i \in 1..N |-> drafts[i].raw]
    OBVIOUS
  <2>2. p \in Orders(N)
    BY <1>3, <1>5, <2>1 DEF Orders, Covered
  <2>3. \A k \in 1..N : \E i \in 1..N : p[i] = k
    BY <1>4, <2>2, ArrangesAll
  <2> QED BY <2>1, <2>3
<1>7. \A i \in 1..N : Delivered(View.artifacts[i]) = Given(conversion.artifacts[drafts[i].raw])
  <2> SUFFICES ASSUME NEW i \in 1..N
               PROVE  Delivered(View.artifacts[i]) = Given(conversion.artifacts[drafts[i].raw])
    OBVIOUS
  <2> DEFINE a == envelope.artifacts[i]
             raw == conversion.artifacts[drafts[i].raw]
  <2>1. i \in DOMAIN drafts
    BY <1>5
  <2>2. /\ a.look = raw.look
        /\ a.relations[1].occurrence = raw.occurrence
        /\ heap[a.bytes.store].data = Owned[raw.slice].data
        /\ heap[a.bytes.store].size = Owned[raw.slice].size
    BY <2>1 DEF StageInv, SealInv, Copied, Faithful, Shown
  <2>3. Delivered(a) = Given(raw)
    BY <2>2 DEF Delivered, Given, Thing, Bytes
  <2> QED BY <1>1, <2>3
<1>8. {Delivered(View.artifacts[i]) : i \in DOMAIN View.artifacts}
        = {Given(conversion.artifacts[i]) : i \in DOMAIN conversion.artifacts}
  <2>1. DOMAIN View.artifacts = 1..N
    BY <1>1, <1>5
  <2>2. \A i \in 1..N : drafts[i].raw \in 1..N
    BY <1>3, <1>5 DEF Covered
  <2>3. ASSUME NEW i \in 1..N
        PROVE  Delivered(View.artifacts[i]) \in {Given(conversion.artifacts[k]) : k \in 1..N}
    BY <1>7, <2>2, Zenon
  <2>4. ASSUME NEW k \in 1..N
        PROVE  Given(conversion.artifacts[k]) \in {Delivered(View.artifacts[i]) : i \in 1..N}
    <3>1. PICK i \in 1..N : drafts[i].raw = k
      BY <1>6
    <3>2. Given(conversion.artifacts[k]) = Delivered(View.artifacts[i])
      BY <1>7, <3>1, Zenon
    <3> QED BY <3>2, Zenon
  <2>5. {Delivered(View.artifacts[i]) : i \in 1..N} = {Given(conversion.artifacts[k]) : k \in 1..N}
    <3> HIDE DEF View, Given, Delivered
    <3> QED BY <2>3, <2>4
  <2> QED BY <1>5, <2>1, <2>5, Zenon
<1> QED BY <1>2, <1>8, Zenon DEF Held, Asked

-----------------------------------------------------------------------------
(* The steps as steps of the promise.                                      *)
Handed == IF outcome # "ok" THEN {} ELSE Held

Decides(o) ==
    \/ o = "limit" /\ ~Within(conversion)
    \/ o = "integrity" /\ ~WellFormed(conversion)
    \/ o = "cancelled" /\ cancelled
    \/ o = "ok" /\ WellFormed(conversion) /\ Within(conversion) /\ ~cancelled

\* A decision that holds is a step of the promise.
LEMMA PromiseSteps ==
    ASSUME StageInv, StageInv', conversion' = conversion, cancelled' = cancelled,
           outcome = "pending", outcome' # "pending", Decides(outcome')
    PROVE  Promise!Next
<1>1. Asked' = Asked
  BY DEF Asked, Leads
<1>2. outcome' = "ok" => Held' = Asked
  <2>1. (StageInv /\ outcome = "ok" => Held = Asked)'
    BY HeldIsAsked, PTL
  <2> QED BY <1>1, <2>1
<1> DEFINE R == [content |-> Asked, sound |-> WellFormed(conversion), fits |-> Within(conversion)]
<1>3. R.content = Asked /\ R.sound = WellFormed(conversion) /\ R.fits = Within(conversion)
  OBVIOUS
<1>4. R' = R
  BY <1>1
<1>5. Handed = {} /\ (outcome' = "ok" => Handed' = R.content) /\ (outcome' # "ok" => Handed' = Handed)
  BY <1>2, <1>3 DEF Handed
<1> HIDE DEF R
<1>6. Promise!Next <=>
        \/ /\ outcome = "pending"
           /\ \/ /\ R.sound /\ R.fits /\ ~cancelled
                 /\ outcome' = "ok" /\ Handed' = R.content
              \/ /\ \/ outcome' = "limit" /\ ~R.fits
                    \/ outcome' = "integrity" /\ ~R.sound
                    \/ outcome' = "cancelled" /\ cancelled
                 /\ Handed' = Handed
           /\ R' = R /\ cancelled' = cancelled
        \/ /\ ~cancelled /\ outcome = "pending" /\ cancelled' = TRUE
           /\ R' = R /\ outcome' = outcome /\ Handed' = Handed
  BY Zenon DEF Promise!Next, Promise!Deliver, Promise!Refuse, Promise!Cancel, R, Handed, Asked, Held
<1> QED BY <1>3, <1>4, <1>5, <1>6, Zenon DEF Decides

\* Nothing else is seen of sealing.
LEMMA PromiseStutters ==
    ASSUME StageInv, StageInv', UNCHANGED <<conversion, cancelled, outcome>>
    PROVE  UNCHANGED Promise!vars
<1>1. Asked' = Asked
  BY DEF Asked, Leads
<1>2. outcome = "ok" => Held = Asked
  BY HeldIsAsked
<1>3. outcome' = "ok" => Held' = Asked'
  <2>1. (StageInv /\ outcome = "ok" => Held = Asked)'
    BY HeldIsAsked, PTL
  <2> QED BY <2>1
<1> DEFINE R == [content |-> Asked, sound |-> WellFormed(conversion), fits |-> Within(conversion)]
<1>4. R' = R
  BY <1>1
<1>5. Handed' = Handed
  BY <1>1, <1>2, <1>3 DEF Handed
<1> HIDE DEF R
<1>6. UNCHANGED Promise!vars <=> <<R, cancelled, outcome, Handed>>' = <<R, cancelled, outcome, Handed>>
  BY Zenon DEF Promise!vars, R, Handed, Asked, Held
<1> QED BY <1>4, <1>5, <1>6

\* The context is cancelled.
LEMMA PromiseCancels ==
    ASSUME StageInv, Cancel
    PROVE  Promise!Next
<1>1. /\ ~cancelled /\ cancelled' = TRUE /\ outcome = "pending" /\ outcome' = outcome
      /\ conversion' = conversion
  BY DEF Cancel, StageInv, SealInv, Decided
<1>2. Asked' = Asked
  BY <1>1 DEF Asked, Leads
<1> DEFINE R == [content |-> Asked, sound |-> WellFormed(conversion), fits |-> Within(conversion)]
<1>3. R' = R
  BY <1>1, <1>2
<1>4. Handed' = Handed
  BY <1>1 DEF Handed
<1> HIDE DEF R
<1>5. Promise!Cancel <=>
        /\ ~cancelled /\ outcome = "pending" /\ cancelled' = TRUE
        /\ R' = R /\ outcome' = outcome /\ Handed' = Handed
  BY Zenon DEF Promise!Cancel, R, Handed, Asked, Held
<1> QED BY <1>1, <1>3, <1>4, <1>5, Zenon DEF Promise!Next

-----------------------------------------------------------------------------
(* Why each step that fails may.                                           *)

\* A call is refused when it is cancelled or names a foreign component.
LEMMA StartDecides == StageInv /\ Start => outcome' = outcome \/ Decides(outcome')
<1> SUFFICES ASSUME StageInv, Start PROVE outcome' = outcome \/ Decides(outcome')
  OBVIOUS
<1>1. CASE cancelled
  BY <1>1 DEF Start, Return, Decides
<1>2. CASE ~cancelled /\ conversion.foreign
  <2>1. ~WellFormed(conversion)
    BY <1>2, WellFormedMeans
  <2> QED BY <1>2, <2>1 DEF Start, Return, Decides
<1>3. CASE ~cancelled /\ ~conversion.foreign
  BY <1>3 DEF Start, Proceed
<1> QED BY <1>1, <1>2, <1>3

(* An artifact is refused when the request has no room for all, or when    *)
(* its attributes do not hold.                                             *)
LEMMA DraftDecides == StageInv /\ Draft => outcome' = outcome \/ Decides(outcome')
<1> SUFFICES ASSUME StageInv, Draft PROVE outcome' = outcome \/ Decides(outcome')
  OBVIOUS
<1> DEFINE n == Len(drafts) + 1
           raw == conversion.artifacts[n]
           call == AdmitArtifact(ledger, heap[raw.slice].size)
<1>1. /\ pc = "drafting" /\ n <= Len(conversion.artifacts)
      /\ call.err # "nil" => outcome' = call.err
      /\ call.err = "nil" => IF ~raw.described THEN outcome' = "integrity" ELSE outcome' = outcome
  BY DEF Draft, Return, Proceed
<1>2. conversion \in Conversion /\ Len(drafts) \in Nat /\ ledger \in Ledger
  BY DEF StageInv, SealInv, Shapes, Charged
<1>3. PICK m \in 1..Len(conversion.artifacts) : m = n
  BY <1>1, <1>2, SizeTypes
<1>4. /\ m \in DOMAIN conversion.artifacts /\ raw = conversion.artifacts[m]
      /\ raw.slice \in DOMAIN Owned /\ m = Len(drafts) + 1
  BY <1>2, <1>3, SizeTypes
<1>5. PICK s \in Nat : s = heap[raw.slice].size /\ s = Sizes(conversion)[m]
  <2>1. heap[raw.slice] = Owned[raw.slice]
    BY <1>1, <1>4 DEF StageInv, SealInv, Lent
  <2>2. Sizes(conversion)[m] = Owned[raw.slice].size /\ Sizes(conversion)[m] \in Nat
    BY <1>2, <1>4, SizeTypes
  <2> QED BY <2>1, <2>2
<1>6. CASE call.err = "nil" /\ ~raw.described
  <2>1. ~SoundArtifacts
    BY <1>4, <1>6 DEF SoundArtifacts
  <2>2. ~WellFormed(conversion)
    BY <2>1, WellFormedMeans
  <2> QED BY <1>1, <1>6, <2>2 DEF Decides
<1>7. CASE call.err # "nil"
  <2>1. call.err = "limit" /\ \/ s > MaxArtifactBytes
                              \/ ledger.artifactCount >= MaxArtifacts
                              \/ ledger.artifactBytes + s > MaxTotalArtifactBytes
    <3>1. call = AdmitArtifact(ledger, s)
      BY <1>5
    <3> HIDE DEF call
    <3> QED BY <1>2, <1>7, <3>1, ArtifactCost
  <2>2. ledger.artifactCount = Len(drafts) /\ ledger.artifactBytes = Paid(conversion)[Len(drafts)]
    BY <1>1 DEF StageInv, Metered, Working
  <2>3. PICK k \in Nat : k = Len(drafts) /\ m = k + 1
    BY <1>2, <1>4
  <2>4. PICK N \in Nat : N = Len(conversion.artifacts)
    BY <1>2, SizeTypes
  <2>5. k \in 0..(N - 1) /\ m \in 0..N
    BY <1>3, <2>3, <2>4
  <2>6. Paid(conversion)[m] = Paid(conversion)[k] + s
    BY <1>2, <1>5, <2>3, <2>4, <2>5, PaidSums
  <2>7. Paid(conversion)[m] \in Nat /\ Paid(conversion)[N] \in Nat /\ Paid(conversion)[m] <= Paid(conversion)[N]
    <3>1. N \in 0..N
      BY <2>4
    <3> QED BY <1>2, <2>4, <2>5, <3>1, PaidSums
  <2>8. MaxArtifacts \in Nat /\ MaxArtifactBytes \in Nat /\ MaxTotalArtifactBytes \in Nat
    BY ValidLimits
  <2>9. ~Within(conversion)
    <3>1. CASE s > MaxArtifactBytes
      <4>1. ~(Sizes(conversion)[m] <= MaxArtifactBytes)
        BY <1>5, <2>8, <3>1
      <4> QED BY <1>2, <1>4, <4>1, WithinMeans
    <3>2. CASE ledger.artifactCount >= MaxArtifacts
      <4>1. ~(N <= MaxArtifacts)
        BY <2>2, <2>3, <2>4, <2>5, <2>8, <3>2
      <4> QED BY <1>2, <2>4, <4>1, WithinMeans
    <3>3. CASE ledger.artifactBytes + s > MaxTotalArtifactBytes
      <4>1. ~(Paid(conversion)[N] <= MaxTotalArtifactBytes)
        BY <2>2, <2>3, <2>6, <2>7, <2>8, <3>3
      <4> QED BY <1>2, <2>4, <4>1, WithinMeans
    <3> QED BY <2>1, <3>1, <3>2, <3>3
  <2> HIDE DEF call
  <2> QED BY <1>1, <1>7, <2>1, <2>9 DEF Decides
<1>8. CASE call.err = "nil" /\ raw.described
  BY <1>1, <1>8
<1> QED BY <1>6, <1>7, <1>8

(* Two artifacts that have one order key look the same.                    *)
LEMMA OrderDecides == StageInv /\ Order => outcome' = outcome \/ Decides(outcome')
<1> SUFFICES ASSUME StageInv, Order, outcome' # outcome PROVE Decides(outcome')
  OBVIOUS
<1>1. PICK N \in Nat : N = Len(drafts)
  BY DEF StageInv, SealInv, Shapes
<1>2. PICK p \in Orders(N) :
         /\ Monotone([i \in 1..N |-> DraftKey(drafts[p[i]])])
         /\ ~Increasing([i \in 1..N |-> DraftKey(drafts[p[i]])])
         /\ outcome' = "integrity"
  <2>1. PICK p \in Orders(Len(drafts)) :
           LET keys == [i \in 1..Len(drafts) |-> DraftKey(drafts[p[i]])]
           IN  /\ Monotone(keys)
               /\ IF Increasing(keys) THEN outcome' = outcome ELSE outcome' = "integrity"
    BY Zenon DEF Order, Return, Proceed
  <2>2. Monotone([i \in 1..Len(drafts) |-> DraftKey(drafts[p[i]])])
    BY <2>1, Zenon
  <2>3. ~Increasing([i \in 1..Len(drafts) |-> DraftKey(drafts[p[i]])]) /\ outcome' = "integrity"
    BY <2>1, Zenon
  <2> QED BY <1>1, <2>2, <2>3, Zenon
<1>3. /\ pc = "drafting" /\ Len(conversion.artifacts) = N /\ Shapes
      /\ DOMAIN drafts = 1..N /\ DOMAIN conversion.artifacts = 1..N
  <2>1. pc = "drafting" /\ Len(drafts) = Len(conversion.artifacts) /\ Shapes
    BY DEF Order, StageInv, SealInv
  <2> QED BY <1>1, <2>1, ConversionTypes DEF Shapes
<1>4. \A i \in 1..N : p[i] \in 1..N /\ \A j \in 1..N : p[i] = p[j] => i = j
  BY <1>2 DEF Orders
<1>5. \A k \in 1..N : Exact(drafts[k], heap, conversion) /\ drafts[k].raw = k
  BY <1>3 DEF StageInv, Drafted, Working
<1>6. \A k \in 1..N : DraftKey(drafts[k]) = OwnKey(drafts[k]) /\ OwnKey(drafts[k]) \in Key(14)
  BY <1>3, <1>5, KeyOfDraft, DraftKeys
<1>7. PICK keys : keys = [i \in 1..N |-> DraftKey(drafts[p[i]])]
  OBVIOUS
<1>8. keys \in [1..N -> Key(14)] /\ 14 \in Nat
  BY <1>4, <1>6, <1>7
<1>9. PICK i \in 1..N, j \in 1..N : i # j /\ keys[i] = keys[j]
  BY <1>2, <1>7, <1>8, IncreasingKeys
<1>10. PICK k \in 1..N, l \in 1..N : k = p[i] /\ l = p[j] /\ k # l
  BY <1>4, <1>9
<1>11. OwnKey(drafts[k]) = OwnKey(drafts[l])
  BY <1>6, <1>7, <1>9, <1>10
<1>12. Given(conversion.artifacts[drafts[k].raw]) = Given(conversion.artifacts[drafts[l].raw])
  BY <1>3, <1>5, <1>11, SameKeys
<1>13. Given(conversion.artifacts[k]) = Given(conversion.artifacts[l])
  BY <1>5, <1>12
<1>14. ~SoundArtifacts
  <2> HIDE DEF Given
  <2> QED BY <1>3, <1>10, <1>13 DEF SoundArtifacts
<1>15. ~WellFormed(conversion)
  BY <1>14, WellFormedMeans
<1> QED BY <1>2, <1>15 DEF Decides

(* A reference is broken when nothing bears the number it names.           *)
LEMMA RewriteDecides == StageInv /\ Rewrite => outcome' = outcome \/ Decides(outcome')
<1> SUFFICES ASSUME StageInv, Rewrite PROVE outcome' = outcome \/ Decides(outcome')
  OBVIOUS
<1> DEFINE call == AdmitPrimary(ledger, conversion.text)
           broken == conversion.rewrite /\ \E i \in DOMAIN tokens : Broken(tokens[i])
<1>1. /\ pc = "rewriting"
      /\ broken => outcome' = "integrity"
      /\ ~broken => IF call.err # "nil" THEN outcome' = call.err ELSE outcome' = outcome
  BY DEF Rewrite, Return, Proceed
<1>2. tokens = conversion.tokens
  BY <1>1 DEF StageInv, SealInv, Linked
<1>3. CASE broken
  <2>1. PICK i \in DOMAIN tokens : Broken(tokens[i])
    BY <1>3
  <2>2. conversion.rewrite /\ tokens[i].opened /\ (~tokens[i].shaped \/ Numbers(tokens[i].ordinal) = {})
    BY <1>3, <2>1 DEF Broken
  <2>3. ~SoundLinks
    <3>1. CASE ~tokens[i].shaped
      BY <1>2, <2>2, <3>1 DEF SoundLinks
    <3>2. CASE Numbers(tokens[i].ordinal) = {}
      <4>1. DOMAIN drafts = 1..Count /\ \A k \in 1..Count : \E j \in 1..Count : drafts[j].raw = k
        BY <1>1, DraftsWhole DEF Sorted
      <4>2. tokens[i].ordinal \notin 1..Count
        BY <3>2, <4>1 DEF Numbers
      <4>3. DOMAIN conversion.artifacts = 1..Count
        BY <1>1, DraftsWhole, SizeTypes DEF Sorted, Count
      <4> QED BY <1>2, <2>2, <4>2, <4>3 DEF SoundLinks
    <3> QED BY <2>2, <3>1, <3>2
  <2>4. ~WellFormed(conversion)
    BY <2>3, WellFormedMeans
  <2> QED BY <1>1, <1>3, <2>4 DEF Decides
<1>4. CASE ~broken /\ call.err # "nil"
  <2>1. conversion \in Conversion /\ ledger \in Ledger /\ ledger.primaryBytes = 0
    BY <1>1 DEF StageInv, SealInv, Shapes, Charged, Metered
  <2>2. conversion.text \in Nat
    BY <2>1, SizeTypes
  <2> HIDE DEF broken
  <2>3. call.err = "limit" /\ conversion.text > MaxPrimaryBytes
    BY <1>4, <2>1, <2>2, PrimaryCost
  <2> HIDE DEF call
  <2>4. ~(conversion.text <= MaxPrimaryBytes)
    BY <2>2, <2>3, ValidLimits
  <2>5. ~Within(conversion)
    BY <2>1, <2>4, WithinMeans
  <2> QED BY <1>1, <1>4, <2>3, <2>5 DEF Decides
<1>5. CASE ~broken /\ call.err = "nil"
  <2> HIDE DEF broken, call
  <2> QED BY <1>1, <1>5
<1> QED BY <1>3, <1>4, <1>5

\* Facts that clash are not well formed.
LEMMA AssembleDecides == StageInv /\ Assemble => outcome' = outcome \/ Decides(outcome')
<1> SUFFICES ASSUME StageInv, Assemble PROVE outcome' = outcome \/ Decides(outcome')
  OBVIOUS
<1>1. FactsClash => ~WellFormed(conversion)
  BY FactsClashMeans, WellFormedMeans DEF StageInv, SealInv
<1>2. /\ FactsClash => outcome' = "integrity"
      /\ ~FactsClash => IF cancelled THEN outcome' = "cancelled" ELSE outcome' = outcome
  BY Zenon DEF Assemble, Return, Proceed
<1> HIDE DEF FactsClash
<1> QED BY <1>1, <1>2 DEF Decides

(* The verification is passed by the well formed, and nothing else is left *)
(* to refuse them for.                                                     *)
LEMMA DeliverDecides == StageInv /\ Deliver => Decides(outcome')
<1> SUFFICES ASSUME StageInv, Deliver PROVE Decides(outcome')
  OBVIOUS
<1>1. pc = "verifying" /\ outcome' = IF ~VerifyEnvelope(envelope) THEN "integrity"
                                      ELSE IF cancelled THEN "cancelled" ELSE "ok"
  BY Zenon DEF Deliver, Return
<1>2. Within(conversion) /\ (VerifyEnvelope(envelope) <=> WellFormed(conversion))
  BY <1>1, ChargesFit, VerifiesWellFormed
<1> QED BY <1>1, <1>2 DEF Decides

(* Sealing implements one decision (ImplementsSealing;                     *)
(* ingestion.go:248-389).                                                  *)
THEOREM SealImplementsSealing == Spec => ImplementsSealing
<1>1. Init => Promise!Init
  BY Zenon DEF Init, Promise!Init
<1>2. StageInv /\ StageInv' /\ [Next]_vars => [Promise!Next]_(Promise!vars)
  <2> SUFFICES ASSUME StageInv, StageInv', [Next]_vars
               PROVE  [Promise!Next]_(Promise!vars)
    OBVIOUS
  <2>1. CASE Cancel
    BY <2>1, PromiseCancels, Zenon
  <2>2. CASE Scribble \/ UNCHANGED vars
    <3>1. UNCHANGED <<conversion, cancelled, outcome>>
      BY <2>2 DEF Scribble, vars
    <3> QED BY <3>1, PromiseStutters, Zenon
  <2>3. CASE Start \/ Draft \/ Order \/ Rewrite \/ Assemble \/ Deliver
    <3>1. conversion' = conversion /\ cancelled' = cancelled /\ pc # "returned"
      BY <2>3 DEF Start, Draft, Order, Rewrite, Assemble, Deliver
    <3>2. outcome = "pending"
      BY <3>1 DEF StageInv, SealInv, Decided
    <3>3. outcome' = outcome \/ Decides(outcome')
      BY <2>3, StartDecides, DraftDecides, OrderDecides, RewriteDecides, AssembleDecides, DeliverDecides, Zenon
    <3>4. CASE outcome' = outcome
      BY <3>1, <3>4, PromiseStutters, Zenon
    <3>5. CASE outcome' # outcome
      BY <3>1, <3>2, <3>3, <3>5, PromiseSteps, Zenon
    <3> QED BY <3>4, <3>5
  <2> QED BY <2>1, <2>2, <2>3, Zenon DEF Next
<1> QED BY <1>1, <1>2, StagesHold, PTL DEF Spec, ImplementsSealing, Promise!Spec

-----------------------------------------------------------------------------
(* Orders that are one.                                                    *)

\* In a list in order, nothing comes before what it precedes.
LEMMA MonotoneApart ==
    ASSUME NEW W \in Nat, NEW N \in Nat, NEW k \in [1..N -> Key(W)], Monotone(k)
    PROVE  \A i, j \in 1..N : i <= j => ~Before(k[j], k[i])
<1>1. Len(k) = N /\ \A i \in 1..N : k[i] \in Key(W)
  OBVIOUS
<1>2. \A i \in 1..(N - 1) : ~Before(k[i + 1], k[i])
  BY <1>1 DEF Monotone
<1> DEFINE S == {n \in 0..N : \A i, j \in 1..n : i <= j => ~Before(k[j], k[i])}
<1>3. 0 \in S
  OBVIOUS
<1>4. ASSUME NEW n \in 0..(N - 1), n \in S PROVE n + 1 \in S
  <2>1. n \in Nat /\ n + 1 \in 0..N
    OBVIOUS
  <2>2. ASSUME NEW i \in 1..(n + 1), NEW j \in 1..(n + 1), i <= j
        PROVE  ~Before(k[j], k[i])
    <3>1. i \in 1..N /\ j \in 1..N
      BY <2>1
    <3>2. k[i] \in Key(W) /\ k[j] \in Key(W)
      BY <1>1, <3>1
    <3>3. CASE j # n + 1
      <4>1. i \in 1..n /\ j \in 1..n
        BY <2>1, <2>2, <3>3
      <4> QED BY <1>4, <2>2, <4>1
    <3>4. CASE i = j
      BY <3>2, <3>4, BeforeOrders
    <3>5. CASE j = n + 1 /\ i # j
      <4>1. i \in 1..n /\ n \in 1..n /\ i <= n /\ n \in 1..(N - 1) /\ n \in 1..N
        BY <2>1, <2>2, <3>5
      <4>2. ~Before(k[n], k[i]) /\ ~Before(k[j], k[n]) /\ k[n] \in Key(W)
        BY <1>1, <1>2, <1>4, <3>5, <4>1
      <4>3. \A s, t, u \in Key(W) : ~Before(s, t) /\ ~Before(t, u) => ~Before(s, u)
        <5> SUFFICES ASSUME NEW s \in Key(W), NEW t \in Key(W), NEW u \in Key(W),
                            ~Before(s, t), ~Before(t, u), Before(s, u)
                     PROVE  FALSE
          OBVIOUS
        <5>1. s = t \/ Before(t, s)
          BY BeforeOrders
        <5>2. t = u \/ Before(u, t)
          BY BeforeOrders
        <5> QED BY <5>1, <5>2, BeforeOrders
      <4> QED BY <3>2, <4>2, <4>3
    <3> QED BY <3>3, <3>4, <3>5
  <2> QED BY <2>1, <2>2
<1> HIDE DEF S
<1>5. 0..N \subseteq S
  BY <1>3, <1>4, Counting
<1>6. N \in S
  BY <1>5
<1> QED BY <1>6 DEF S

\* Of two lists in order that hold the same keys, neither has a smaller key
\* anywhere.
LEMMA NowhereSmaller ==
    ASSUME NEW W \in Nat, NEW N \in Nat, NEW t \in [1..N -> Key(W)], Monotone(t),
           NEW u \in [1..N -> Key(W)], Monotone(u),
           NEW q \in Orders(N), \A i \in 1..N : t[q[i]] = u[i],
           NEW n \in 1..N
    PROVE  ~Before(u[n], t[n])
\* Otherwise the n first of u would all be among the n - 1 first of t.
<1> SUFFICES ASSUME Before(u[n], t[n]) PROVE FALSE
  OBVIOUS
<1>1. q \in [1..N -> 1..N] /\ \A i, j \in 1..N : q[i] = q[j] => i = j
  BY ArrangesAll
<1>2. ASSUME NEW i \in 1..n PROVE q[i] \in 1..(n - 1)
  <2>1. i \in 1..N /\ i <= n /\ q[i] \in 1..N
    BY <1>1
  <2>2. ~Before(u[n], u[i])
    BY <2>1, MonotoneApart
  <2>3. q[i] < n
    <3> SUFFICES ASSUME n <= q[i] PROVE FALSE
      BY <2>1
    <3>1. ~Before(t[q[i]], t[n])
      BY <2>1, MonotoneApart
    <3>2. u[i] \in Key(W) /\ u[n] \in Key(W) /\ t[n] \in Key(W)
      BY <2>1
    <3>3. t[q[i]] = u[i]
      BY <2>1
    <3>4. u[i] = u[n] \/ Before(u[i], u[n])
      BY <2>2, <3>2, BeforeOrders
    <3>5. Before(u[i], t[n])
      BY <3>2, <3>4, BeforeOrders
    <3> QED BY <3>1, <3>3, <3>5
  <2> QED BY <2>1, <2>3
<1>3. PICK f : f = [i \in 1..n |-> q[i]]
  OBVIOUS
<1>4. f \in [1..n -> 1..(n - 1)]
  BY <1>2, <1>3
<1>5. /\ IsFiniteSet(1..n) /\ Cardinality(1..n) = n
      /\ IsFiniteSet(1..(n - 1)) /\ Cardinality(1..(n - 1)) = n - 1
  <2>1. n \in Int /\ n - 1 \in Int /\ ~(1 > n) /\ n - 1 + 1 = n
        /\ (1 > n - 1 => 0 = n - 1) /\ (n - 1) - 1 + 1 = n - 1
    OBVIOUS
  <2>2. Cardinality(1..n) = IF 1 > n THEN 0 ELSE n - 1 + 1
    BY <2>1, FS_Interval
  <2>3. Cardinality(1..(n - 1)) = IF 1 > n - 1 THEN 0 ELSE (n - 1) - 1 + 1
    BY <2>1, FS_Interval
  <2>4. IsFiniteSet(1..n) /\ IsFiniteSet(1..(n - 1))
    BY <2>1, FS_Interval
  <2>5. Cardinality(1..n) = n
    BY <2>1, <2>2
  <2>6. Cardinality(1..(n - 1)) = n - 1
    BY <2>1, <2>3
  <2> QED BY <2>4, <2>5, <2>6
<1>6. Cardinality(1..(n - 1)) < Cardinality(1..n)
  BY <1>5
<1>7. PICK i \in 1..n, j \in 1..n : i # j /\ f[i] = f[j]
  <2>1. PICK S, T : S = 1..n /\ T = 1..(n - 1)
    OBVIOUS
  <2>2. IsFiniteSet(S) /\ IsFiniteSet(T) /\ Cardinality(T) < Cardinality(S) /\ f \in [S -> T]
    BY <1>4, <1>5, <1>6, <2>1
  <2>3. \E x, y \in S : x # y /\ f[x] = f[y]
    BY <2>2, FS_PigeonHole
  <2> QED BY <2>1, <2>3
<1>8. i \in 1..N /\ j \in 1..N /\ q[i] = q[j]
  BY <1>3, <1>7
<1> QED BY <1>1, <1>7, <1>8

\* An order undone.
LEMMA OrderUndone ==
    ASSUME NEW N \in Nat, NEW q \in Orders(N)
    PROVE  \E r \in Orders(N) : \A i \in 1..N : r[i] \in 1..N /\ q[r[i]] = i /\ r[q[i]] = i
<1>1. /\ q \in [1..N -> 1..N]
      /\ \A i, j \in 1..N : q[i] = q[j] => i = j
      /\ \A k \in 1..N : \E i \in 1..N : q[i] = k
  BY ArrangesAll
<1>2. PICK r : r = [k \in 1..N |-> CHOOSE i \in 1..N : q[i] = k]
  OBVIOUS
<1>3. \A k \in 1..N : r[k] \in 1..N /\ q[r[k]] = k
  BY <1>1, <1>2
<1>4. ASSUME NEW k \in 1..N PROVE r[q[k]] = k
  <2>1. q[k] \in 1..N
    BY <1>1
  <2>2. r[q[k]] \in 1..N /\ q[r[q[k]]] = q[k]
    BY <1>3, <2>1, Zenon
  <2> QED BY <1>1, <2>2, Zenon
<1>5. r \in Orders(N)
  <2>1. r \in [1..N -> 1..N]
    BY <1>2, <1>3
  <2>2. ASSUME NEW i \in 1..N, NEW j \in 1..N, r[i] = r[j] PROVE i = j
    BY <1>3, <2>2, Zenon
  <2> QED BY <2>1, <2>2, Zenon DEF Orders
<1> QED BY <1>3, <1>4, <1>5, Zenon

\* Two lists in order that hold the same keys are the same list.
LEMMA SameWhenOrdered ==
    \A W, N \in Nat : \A t, u \in [1..N -> Key(W)] : \A q \in Orders(N) :
        Monotone(t) /\ Monotone(u) /\ (\A i \in 1..N : t[q[i]] = u[i]) => u = t
<1> SUFFICES ASSUME NEW W \in Nat, NEW N \in Nat, NEW t \in [1..N -> Key(W)],
                    NEW u \in [1..N -> Key(W)], NEW q \in Orders(N), Monotone(t), Monotone(u),
                    \A i \in 1..N : t[q[i]] = u[i]
             PROVE  u = t
  OBVIOUS
<1>1. PICK r \in Orders(N) : \A i \in 1..N : r[i] \in 1..N /\ q[r[i]] = i /\ r[q[i]] = i
  BY OrderUndone
<1>2. \A i \in 1..N : u[r[i]] = t[i]
  BY <1>1
<1>3. ASSUME NEW n \in 1..N PROVE u[n] = t[n]
  <2>1. ~Before(u[n], t[n])
    BY NowhereSmaller
  <2>2. ~Before(t[n], u[n])
    BY <1>2, NowhereSmaller
  <2>3. u[n] \in Key(W) /\ t[n] \in Key(W)
    OBVIOUS
  <2> QED BY <2>1, <2>2, <2>3, BeforeOrders
<1> QED BY <1>3

\* An order that keeps the order changes nothing.
LEMMA OnlyOneUpward ==
    ASSUME NEW N \in Nat, NEW p \in Orders(N), \A i, j \in 1..N : i < j => p[i] < p[j]
    PROVE  \A i \in 1..N : p[i] = i
<1>1. /\ p \in [1..N -> 1..N]
      /\ \A i, j \in 1..N : p[i] = p[j] => i = j
      /\ \A k \in 1..N : \E i \in 1..N : p[i] = k
  BY ArrangesAll
<1> DEFINE T == {i \in 1..N : p[i] # i}
<1> SUFFICES ASSUME T # {} PROVE FALSE
  OBVIOUS
<1>2. PICK i \in T : \A j \in T : i <= j
  <2>1. T \in SUBSET Nat
    OBVIOUS
  <2> QED BY <2>1, LeastNat
<1>3. i \in 1..N /\ p[i] # i /\ p[i] \in 1..N
  BY <1>1, <1>2
<1>4. \A j \in 1..N : j < i => p[j] = j
  BY <1>2, <1>3
<1>5. p[i] > i
  <2> SUFFICES ASSUME p[i] < i PROVE FALSE
    BY <1>3
  <2> QED BY <1>1, <1>3, <1>4
<1>6. PICK k \in 1..N : p[k] = i
  BY <1>1, <1>3
<1>7. k > i
  BY <1>3, <1>4, <1>6
<1> QED BY <1>3, <1>5, <1>6, <1>7

\* Keys of any length are ordered strictly.
LEMMA BeforeIsStrict ==
    /\ \A s \in Seq(Int) : ~Before(s, s)
    /\ \A s, t, u \in Seq(Int) : Before(s, t) /\ Before(t, u) => Before(s, u)
<1>1. ASSUME NEW s \in Seq(Int) PROVE Len(s) \in Nat /\ s \in Key(Len(s))
  BY DEF Key
<1>2. ASSUME NEW s \in Seq(Int) PROVE ~Before(s, s)
  BY <1>1, BeforeOrders
<1>3. ASSUME NEW s \in Seq(Int), NEW t \in Seq(Int), NEW u \in Seq(Int), Before(s, t), Before(t, u)
      PROVE  Before(s, u)
  <2>1. Len(s) \in Nat /\ Len(t) \in Nat /\ Len(u) \in Nat
    OBVIOUS
  <2>2. Len(s) <= Len(t) /\ Len(t) <= Len(u)
    BY <1>3, <2>1 DEF Before
  <2>3. CASE Len(s) < Len(u)
    BY <2>3 DEF Before
  <2>4. CASE Len(s) = Len(u)
    <3>1. Len(t) = Len(s)
      BY <2>1, <2>2, <2>4
    <3>2. s \in Key(Len(s)) /\ t \in Key(Len(s)) /\ u \in Key(Len(s))
      BY <1>1, <2>4, <3>1
    <3> QED BY <1>3, <2>1, <3>2, BeforeOrders
  <2> QED BY <2>1, <2>2, <2>3, <2>4
<1> QED BY <1>2, <1>3

\* In an increasing list what comes first is smaller.
LEMMA IncreasingApart ==
    ASSUME NEW N \in Nat, NEW k \in [1..N -> Seq(Int)], Increasing(k)
    PROVE  \A i, j \in 1..N : i < j => Before(k[i], k[j])
<1>1. Len(k) = N /\ \A i \in 1..N : k[i] \in Seq(Int)
  OBVIOUS
<1>2. \A i \in 1..(N - 1) : Before(k[i], k[i + 1])
  BY <1>1 DEF Increasing
<1> DEFINE S == {n \in 0..N : \A i, j \in 1..n : i < j => Before(k[i], k[j])}
<1>3. 0 \in S
  OBVIOUS
<1>4. ASSUME NEW n \in 0..(N - 1), n \in S PROVE n + 1 \in S
  <2>1. n \in Nat /\ n + 1 \in 0..N
    OBVIOUS
  <2>2. ASSUME NEW i \in 1..(n + 1), NEW j \in 1..(n + 1), i < j
        PROVE  Before(k[i], k[j])
    <3>1. CASE j # n + 1
      <4>1. i \in 1..n /\ j \in 1..n
        BY <2>1, <2>2, <3>1
      <4> QED BY <1>4, <2>2, <4>1
    <3>2. CASE j = n + 1
      <4>1. i \in 1..n /\ n \in 1..n /\ n \in 1..(N - 1) /\ n \in 1..N /\ j \in 1..N /\ i \in 1..N
        BY <2>1, <2>2, <3>2
      <4>2. Before(k[n], k[j]) /\ k[n] \in Seq(Int) /\ k[i] \in Seq(Int) /\ k[j] \in Seq(Int)
        BY <1>1, <1>2, <3>2, <4>1
      <4>3. i = n \/ Before(k[i], k[n])
        BY <1>4, <4>1
      <4> QED BY <4>2, <4>3, BeforeIsStrict
    <3> QED BY <3>1, <3>2
  <2> QED BY <2>1, <2>2
<1> HIDE DEF S
<1>5. 0..N \subseteq S
  BY <1>3, <1>4, Counting
<1>6. N \in S
  BY <1>5
<1> QED BY <1>6 DEF S

\* A list and one of its arrangements both increase only if they are the same.
LEMMA OneIncreases ==
    ASSUME NEW N \in Nat, NEW k \in [1..N -> Seq(Int)], Increasing(k), NEW p \in Orders(N),
           NEW l \in [1..N -> Seq(Int)], Increasing(l), \A i \in 1..N : l[i] = k[p[i]]
    PROVE  \A i \in 1..N : p[i] = i
<1>1. p \in [1..N -> 1..N] /\ \A i, j \in 1..N : p[i] = p[j] => i = j
  BY ArrangesAll
<1>2. ASSUME NEW i \in 1..N, NEW j \in 1..N, i < j PROVE p[i] < p[j]
  <2> SUFFICES ASSUME ~(p[i] < p[j]) PROVE FALSE
    OBVIOUS
  <2>1. p[i] \in 1..N /\ p[j] \in 1..N /\ p[i] # p[j]
    BY <1>1, <1>2
  <2>2. p[j] < p[i]
    BY <2>1
  <2>3. Before(k[p[j]], k[p[i]])
    BY <2>1, <2>2, IncreasingApart
  <2>4. Before(k[p[i]], k[p[j]])
    <3>1. Before(l[i], l[j])
      BY <1>2, IncreasingApart
    <3> QED BY <3>1
  <2>5. k[p[i]] \in Seq(Int) /\ k[p[j]] \in Seq(Int)
    BY <2>1
  <2> QED BY <2>3, <2>4, <2>5, BeforeIsStrict
<1> QED BY <1>2, OnlyOneUpward

-----------------------------------------------------------------------------
(* What keys are made of.                                                  *)

\* The lists of one list after another.
Joined(keys, f) == f = [n \in 0..Len(keys) |-> IF n = 0 THEN <<>> ELSE f[n - 1] \o keys[n]]
Flat(keys) == (CHOOSE f : Joined(keys, f))[Len(keys)]

\* The order key is the keys of the relations joined, and the artifact's own.
LEMMA OrderKeyShows ==
    ASSUME NEW refs, NEW a
    PROVE  OrderKey(refs, a) = Flat(RelationKeys(refs, a)) \o ReferenceKey(a)
BY DEF OrderKey, Flat, Joined

\* Lists of numbers join to a list of numbers, one after another.
LEMMA FlatTypes ==
    ASSUME NEW keys \in Seq(Seq(Int))
    PROVE  /\ Flat(keys) \in Seq(Int)
           /\ \E f : /\ Flat(keys) = f[Len(keys)] /\ f[0] = <<>>
                     /\ \A n \in 1..Len(keys) : f[n] = f[n - 1] \o keys[n]
<1>1. PICK N : N = Len(keys)
  OBVIOUS
<1>2. N \in Nat /\ \A n \in 1..N : keys[n] \in Seq(Int)
  BY <1>1
<1> DEFINE Upto(f, k) == f = [n \in 0..k |-> IF n = 0 THEN <<>> ELSE f[n - 1] \o keys[n]]
           S == {k \in 0..N : \E f : Upto(f, k) /\ f[k] \in Seq(Int)}
<1>3. 0 \in S
  <2>1. PICK f : f = [n \in 0..0 |-> <<>>]
    OBVIOUS
  <2>2. \A n \in 0..0 : n = 0
    OBVIOUS
  <2>3. Upto(f, 0)
    BY <2>1, <2>2
  <2>4. f[0] = <<>> /\ 0 \in 0..N
    BY <1>2, <2>1
  <2>5. f[0] \in Seq(Int)
    BY <2>4
  <2> QED BY <2>3, <2>4, <2>5
<1>4. ASSUME NEW k \in 0..(N - 1), k \in S PROVE k + 1 \in S
  <2>1. PICK f : Upto(f, k) /\ f[k] \in Seq(Int)
    BY <1>4
  <2>2. k \in Nat /\ k + 1 \in 1..N /\ k + 1 \in 0..N /\ k \in 0..N
    BY <1>2
  <2>3. PICK last : last = f[k] \o keys[k + 1]
    OBVIOUS
  <2>4. last \in Seq(Int)
    <3>1. f[k] \in Seq(Int) /\ keys[k + 1] \in Seq(Int)
      BY <1>2, <2>1, <2>2
    <3>2. \A x, y \in Seq(Int) : x \o y \in Seq(Int)
      OBVIOUS
    <3> QED BY <2>3, <3>1, <3>2, Zenon
  <2>5. PICK g : g = [n \in 0..(k + 1) |-> IF n = k + 1 THEN last ELSE f[n]]
    OBVIOUS
  <2>6. \A n \in 0..k : f[n] = IF n = 0 THEN <<>> ELSE f[n - 1] \o keys[n]
    BY <2>1
  <2>7. ASSUME NEW n \in 0..(k + 1)
        PROVE  g[n] = IF n = 0 THEN <<>> ELSE g[n - 1] \o keys[n]
    <3>1. CASE n = k + 1
      <4>1. g[n] = last /\ n # 0 /\ n - 1 = k /\ k \in 0..(k + 1) /\ k # k + 1
        BY <2>2, <2>5, <3>1
      <4>2. g[k] = f[k]
        BY <2>5, <4>1
      <4> QED BY <2>3, <3>1, <4>1, <4>2, Zenon
    <3>2. CASE n \in 1..k
      <4>1. g[n] = f[n] /\ n - 1 \in 0..(k + 1) /\ n - 1 # k + 1 /\ n # 0 /\ n \in 0..k
        BY <2>2, <2>5, <3>2
      <4>2. g[n - 1] = f[n - 1]
        BY <2>5, <4>1
      <4>3. f[n] = f[n - 1] \o keys[n]
        BY <2>6, <4>1, Zenon
      <4> QED BY <4>1, <4>2, <4>3, Zenon
    <3>3. CASE n = 0
      <4>1. 0 # k + 1 /\ 0 \in 0..(k + 1) /\ 0 \in 0..k
        BY <2>2
      <4>2. g[0] = f[0] /\ f[0] = <<>>
        BY <2>5, <2>6, <4>1, Zenon
      <4> QED BY <3>3, <4>2, Zenon
    <3> QED BY <2>2, <3>1, <3>2, <3>3
  <2>8. g = [n \in 0..(k + 1) |-> IF n = 0 THEN <<>> ELSE g[n - 1] \o keys[n]]
    BY <2>5, <2>7, Zenon
  <2>9. g[k + 1] = last
    BY <2>2, <2>5
  <2> QED BY <2>2, <2>4, <2>8, <2>9
<1> HIDE DEF S
<1>5. 0..N \subseteq S
  BY <1>2, <1>3, <1>4, Counting
<1>6. N \in S
  BY <1>2, <1>5
<1>7. PICK f : Upto(f, N) /\ f[N] \in Seq(Int)
  BY <1>6 DEF S
<1>8. Joined(keys, f)
  BY <1>1, <1>7 DEF Joined
<1>9. ASSUME NEW g, Joined(keys, g) PROVE g[N] = f[N]
  <2>1. g = [n \in 0..N |-> IF n = 0 THEN <<>> ELSE g[n - 1] \o keys[n]]
    BY <1>1, <1>9 DEF Joined
  <2>2. \A n \in 0..N : g[n] = IF n = 0 THEN <<>> ELSE g[n - 1] \o keys[n]
    BY <2>1, Zenon
  <2>3. \A n \in 0..N : f[n] = IF n = 0 THEN <<>> ELSE f[n - 1] \o keys[n]
    BY <1>7, Zenon
  <2> DEFINE T == {n \in 0..N : g[n] = f[n]}
  <2>4. 0 \in T
    <3>1. 0 \in 0..N
      BY <1>2
    <3> QED BY <2>2, <2>3, <3>1
  <2>5. ASSUME NEW k \in 0..(N - 1), k \in T PROVE k + 1 \in T
    <3>1. k + 1 \in 0..N /\ k + 1 # 0 /\ (k + 1) - 1 = k
      BY <1>2
    <3>2. g[k + 1] = g[(k + 1) - 1] \o keys[k + 1] /\ f[k + 1] = f[(k + 1) - 1] \o keys[k + 1]
      BY <2>2, <2>3, <3>1, Zenon
    <3>3. g[k] = f[k]
      BY <2>5
    <3>4. g[k + 1] = f[k + 1]
      BY <3>1, <3>2, <3>3
    <3> QED BY <3>1, <3>4
  <2> HIDE DEF T
  <2>6. 0..N \subseteq T
    BY <1>2, <2>4, <2>5, Counting
  <2>7. N \in T
    BY <1>2, <2>6
  <2> QED BY <2>7 DEF T
<1> HIDE DEF Upto
<1>10. Joined(keys, CHOOSE g : Joined(keys, g))
  BY <1>8
<1>11. Flat(keys) = f[N]
  BY <1>1, <1>9, <1>10, Zenon DEF Flat
<1>12. f[0] = <<>> /\ \A n \in 1..N : f[n] = f[n - 1] \o keys[n]
  <2>1. 0 \in 0..N /\ \A n \in 1..N : n \in 0..N /\ n # 0
    BY <1>2
  <2>2. \A n \in 0..N : f[n] = IF n = 0 THEN <<>> ELSE f[n - 1] \o keys[n]
    BY <1>7, Zenon DEF Upto
  <2> QED BY <2>1, <2>2, Zenon
<1> QED BY <1>1, <1>7, <1>11, <1>12

\* Keys put together are one key.
LEMMA KeysJoin ==
    ASSUME NEW V \in Nat, NEW W \in Nat, NEW s \in Key(V), NEW t \in Key(W)
    PROVE  s \o t \in Key(V + W) /\ s \in Seq(Int)
<1>1. \A U \in Nat : \A k \in Key(U) : k \in Seq(Int) /\ Len(k) = U
  <2> SUFFICES ASSUME NEW U \in Nat, NEW k \in Key(U) PROVE k \in Seq(Int) /\ Len(k) = U
    OBVIOUS
  <2>1. DOMAIN k = 1..U /\ (\A i \in 1..U : k[i] \in Int) /\ k = [i \in 1..U |-> k[i]]
    BY DEF Key
  <2> QED BY <2>1
<1>2. PICK u : u = s \o t
  OBVIOUS
<1>3. u \in Seq(Int) /\ Len(u) = V + W
  <2>1. s \in Seq(Int) /\ Len(s) = V /\ t \in Seq(Int) /\ Len(t) = W
    BY <1>1
  <2>2. u \in Seq(Int) /\ Joins(s, t, u)
    BY <1>2, <2>1, JoinsShow
  <2> QED BY <2>1, <2>2 DEF Joins
<1>4. u \in Key(V + W)
  BY <1>3 DEF Key
<1> QED BY <1>1, <1>2, <1>4

\* Short lists of numbers are keys.
LEMMA ShortKeys ==
    ASSUME NEW a \in Int, NEW b \in Int
    PROVE  /\ <<a, b>> \in Key(2)
           /\ \A c \in Int : <<a, b, c>> \in Key(3)
           /\ \A c, d \in Int : <<a, b, c, d>> \in Key(4)
<1>1. PICK t : t = <<a, b>>
  OBVIOUS
<1>2. DOMAIN t = 1..2 /\ (\A j \in 1..2 : t[j] \in Int) /\ t = [j \in 1..2 |-> t[j]]
  BY <1>1
<1>3. <<a, b>> \in Key(2)
  BY <1>1, <1>2 DEF Key
<1>4. ASSUME NEW c \in Int PROVE <<a, b, c>> \in Key(3)
  <2>1. PICK u : u = <<a, b, c>>
    OBVIOUS
  <2>2. DOMAIN u = 1..3 /\ (\A j \in 1..3 : u[j] \in Int) /\ u = [j \in 1..3 |-> u[j]]
    BY <2>1
  <2> QED BY <2>1, <2>2 DEF Key
<1>5. ASSUME NEW c \in Int, NEW d \in Int PROVE <<a, b, c, d>> \in Key(4)
  <2>1. PICK u : u = <<a, b, c, d>>
    OBVIOUS
  <2>2. DOMAIN u = 1..4 /\ (\A j \in 1..4 : u[j] \in Int) /\ u = [j \in 1..4 |-> u[j]]
    BY <2>1
  <2> QED BY <2>1, <2>2 DEF Key
<1> QED BY <1>3, <1>4, <1>5

\* Every kind has a rank.
LEMMA RankIsInt == \A k : KindRank(k) \in Int
BY DEF KindRank

\* The key of an artifact is four numbers.
LEMMA ReferenceKeyTypes ==
    ASSUME NEW a \in Object
    PROVE  ReferenceKey(a) \in Key(4)
<1>1. a.look \in Nat /\ a.identity \in Digest /\ a.length \in Nat
  BY DEF Object
<1>2. 2 + a.look \in Int /\ a.identity[2] \in Int /\ a.identity[3] \in Int /\ a.length \in Int
  BY <1>1 DEF Digest
<1> QED BY <1>2, ShortKeys DEF ReferenceKey

\* The text of a relation is eight numbers.
LEMMA TextKeyTypes ==
    ASSUME NEW r \in Link
    PROVE  TextKey(r) \in Key(8)
<1>1. r.from \in Reference /\ r.to \in Reference /\ r.occurrence \in Int
  BY DEF Link
<1>2. ASSUME NEW id \in Reference PROVE Textual(id) \in Key(3)
  <2>1. CASE id \in Digest
    <3>1. id[1] = "sha256" /\ id[2] \in Int /\ id[3] \in Int
      BY <2>1 DEF Digest
    <3>2. Textual(id) = <<1, id[2], id[3]>>
      BY <3>1 DEF Textual
    <3>3. \A a, b, c \in Int : <<a, b, c>> \in Key(3)
      BY ShortKeys
    <3>4. 0 \in Int /\ 1 \in Int
      OBVIOUS
    <3> QED BY <3>1, <3>2, <3>3, <3>4, Zenon
  <2>2. CASE id \in {"artifact"} \X Nat
    <3>1. id[1] = "artifact" /\ id[2] \in Int
      BY <2>2
    <3>2. Textual(id) = <<0, id[2], 0>>
      BY <3>1 DEF Textual
    <3>3. \A a, b, c \in Int : <<a, b, c>> \in Key(3)
      BY ShortKeys
    <3>4. 0 \in Int /\ 1 \in Int
      OBVIOUS
    <3> QED BY <3>1, <3>2, <3>3, <3>4, Zenon
  <2> QED BY <2>1, <2>2 DEF Reference
<1>3. PICK x, y, z : x = Textual(r.from) /\ y = Textual(r.to) /\ z = <<KindRank(r.kind), r.occurrence>>
  OBVIOUS
<1>4. x \in Key(3) /\ y \in Key(3) /\ z \in Key(2)
  BY <1>1, <1>2, <1>3, RankIsInt, ShortKeys
<1>5. x \o y \in Key(6)
  <2>1. x \o y \in Key(3 + 3)
    BY <1>4, KeysJoin
  <2> QED BY <2>1
<1>6. (x \o y) \o z \in Key(8)
  <2>1. (x \o y) \o z \in Key(6 + 2)
    BY <1>4, <1>5, KeysJoin
  <2> QED BY <2>1
<1> QED BY <1>3, <1>6 DEF TextKey

\* The key of a relation between objects with keys is ten numbers.
LEMMA RelationKeyTypes ==
    ASSUME NEW refs, NEW a, NEW r,
           Endpoint(refs, a, r.from) \in Key(4), Endpoint(refs, a, r.to) \in Key(4),
           r.occurrence \in Int
    PROVE  RelationKey(refs, a, r) \in Key(10)
<1>1. PICK x, y, z : x = Endpoint(refs, a, r.from) /\ y = Endpoint(refs, a, r.to)
                     /\ z = <<KindRank(r.kind), r.occurrence>>
  OBVIOUS
<1>2. x \in Key(4) /\ y \in Key(4) /\ z \in Key(2)
  BY <1>1, RankIsInt, ShortKeys
<1>3. x \o y \in Key(8)
  <2>1. x \o y \in Key(4 + 4)
    BY <1>2, KeysJoin
  <2> QED BY <2>1
<1>4. (x \o y) \o z \in Key(10)
  <2>1. (x \o y) \o z \in Key(8 + 2)
    BY <1>2, <1>3, KeysJoin
  <2> QED BY <2>1
<1> QED BY <1>1, <1>4 DEF RelationKey

\* Relations can be put in the order of their text, and SortedBy does.
LEMMA RelationsInOrder ==
    ASSUME NEW s \in Seq(Link)
    PROVE  \E p \in Orders(Len(s)) :
              /\ SortedBy(s, TextKey) = [i \in 1..Len(s) |-> s[p[i]]]
              /\ Monotone([i \in 1..Len(s) |-> TextKey(s[p[i]])])
<1>1. PICK k : k = [i \in 1..Len(s) |-> TextKey(s[i])]
  OBVIOUS
<1>2. \A i \in 1..Len(s) : k[i] \in Key(8)
  <2> SUFFICES ASSUME NEW i \in 1..Len(s) PROVE k[i] \in Key(8)
    OBVIOUS
  <2>1. s[i] \in Link /\ k[i] = TextKey(s[i])
    BY <1>1
  <2> QED BY <2>1, TextKeyTypes
<1>3. \E q \in Orders(Len(s)) : Monotone([i \in 1..Len(s) |-> k[q[i]]])
  <2>1. Len(s) \in Nat /\ 8 \in Nat
    OBVIOUS
  <2> QED BY <1>2, <2>1, CanBeSorted
<1> DEFINE inOrder(q) == Monotone([i \in 1..Len(s) |-> TextKey(s[q[i]])])
           p == CHOOSE q \in Orders(Len(s)) : inOrder(q)
<1>4. \E q \in Orders(Len(s)) : inOrder(q)
  <2>1. PICK q \in Orders(Len(s)) : Monotone([i \in 1..Len(s) |-> k[q[i]]])
    BY <1>3
  <2>2. \A i \in 1..Len(s) : q[i] \in 1..Len(s)
    BY DEF Orders
  <2>3. [i \in 1..Len(s) |-> k[q[i]]] = [i \in 1..Len(s) |-> TextKey(s[q[i]])]
    BY <1>1, <2>2
  <2> QED BY <2>1, <2>3
<1> HIDE DEF inOrder
<1>5. p \in Orders(Len(s)) /\ inOrder(p)
  BY <1>4
<1>6. SortedBy(s, TextKey) = [i \in 1..Len(s) |-> s[p[i]]]
  BY Zenon DEF SortedBy, inOrder
<1> QED BY <1>5, <1>6 DEF inOrder

\* So can the keys of an artifact's relations.
LEMMA RelationKeysInOrder ==
    ASSUME NEW refs, NEW a, NEW N \in Nat, N = Len(a.relations),
           \A i \in 1..N : RelationKey(refs, a, a.relations[i]) \in Key(10)
    PROVE  \E p \in Orders(N) :
              /\ RelationKeys(refs, a) = [i \in 1..N |-> RelationKey(refs, a, a.relations[p[i]])]
              /\ RelationKeys(refs, a) \in [1..N -> Key(10)]
              /\ Monotone(RelationKeys(refs, a))
<1>1. PICK s : s = [i \in 1..N |-> RelationKey(refs, a, a.relations[i])]
  OBVIOUS
<1>2. Len(s) = N /\ \A i \in 1..N : s[i] \in Key(10) /\ s[i] = RelationKey(refs, a, a.relations[i])
  BY <1>1
<1> DEFINE ordered(q) == Monotone([i \in 1..Len(s) |-> s[q[i]]])
           p == CHOOSE q \in Orders(Len(s)) : ordered(q)
<1>3. RelationKeys(refs, a) = [i \in 1..Len(s) |-> s[p[i]]]
  BY <1>1 DEF RelationKeys, SortedBy
<1>4. \E q \in Orders(Len(s)) : ordered(q)
  <2>1. 10 \in Nat
    OBVIOUS
  <2>2. \E q \in Orders(N) : Monotone([i \in 1..N |-> s[q[i]]])
    BY <1>2, <2>1, CanBeSorted
  <2> QED BY <1>2, <2>2
<1> HIDE DEF ordered
<1>5. p \in Orders(N) /\ ordered(p)
  BY <1>2, <1>4
<1> HIDE DEF p
<1>6. RelationKeys(refs, a) = [i \in 1..N |-> s[p[i]]] /\ \A i \in 1..N : p[i] \in 1..N
  BY <1>2, <1>3, <1>5 DEF Orders
<1>7. RelationKeys(refs, a) \in [1..N -> Key(10)]
  BY <1>2, <1>6
<1>8. Monotone(RelationKeys(refs, a))
  BY <1>3, <1>5 DEF ordered
<1>9. RelationKeys(refs, a) = [i \in 1..N |-> RelationKey(refs, a, a.relations[p[i]])]
  BY <1>2, <1>6, Zenon
<1> QED BY <1>5, <1>7, <1>8, <1>9

-----------------------------------------------------------------------------
(* What a verified envelope holds, and what renumbering makes of it.       *)

\* An envelope that numbers its objects by their places.
Numbered(e) ==
    /\ e.source.identity \in Digest
    /\ Len(e.artifacts) \in Nat
    /\ e.primary.id = ArtifactID(0)
    /\ \A i \in 1..Len(e.artifacts) : e.artifacts[i].id = ArtifactID(i)

\* What a relation of the i-th artifact may refer to.
Sources(e, i) == {e.source.identity} \cup {ArtifactID(n) : n \in 0..Len(e.artifacts) \ {i}}

\* Its relations are in the order of their text, and lead to their artifacts
\* from other objects.
Placed(e) ==
    /\ Numbered(e)
    /\ \A i \in 1..Len(e.artifacts) :
          LET a == e.artifacts[i]
          IN  /\ Increasing([j \in 1..Len(a.relations) |-> TextKey(a.relations[j])])
              /\ \A j \in 1..Len(a.relations) :
                    a.relations[j].to = a.id /\ a.relations[j].from \in Sources(e, i)

\* The artifacts of an envelope, and their relations.
LEMMA ShapeParts ==
    ASSUME NEW e \in Shape
    PROVE  /\ e.source.identity \in Digest /\ e.primary \in Object
           /\ e.artifacts \in Seq(Object)
           /\ Len(e.artifacts) \in Nat /\ DOMAIN e.artifacts = 1..Len(e.artifacts)
           /\ \A i \in 1..Len(e.artifacts) :
                 /\ e.artifacts[i] \in Object
                 /\ e.artifacts[i].relations \in Seq(Link)
                 /\ Len(e.artifacts[i].relations) \in Nat
                 /\ \A j \in 1..Len(e.artifacts[i].relations) : e.artifacts[i].relations[j] \in Link
<1>1. e.source.identity \in Digest /\ e.primary \in Object /\ e.artifacts \in Seq(Object)
  BY DEF Shape
<1>2. Len(e.artifacts) \in Nat /\ DOMAIN e.artifacts = 1..Len(e.artifacts)
  BY <1>1
<1>3. ASSUME NEW i \in 1..Len(e.artifacts)
      PROVE  /\ e.artifacts[i] \in Object /\ e.artifacts[i].relations \in Seq(Link)
             /\ Len(e.artifacts[i].relations) \in Nat
             /\ \A j \in 1..Len(e.artifacts[i].relations) : e.artifacts[i].relations[j] \in Link
  <2>1. e.artifacts[i] \in Object
    BY <1>1
  <2>2. e.artifacts[i].relations \in Seq(Link)
    BY <2>1 DEF Object
  <2> QED BY <2>1, <2>2
<1> QED BY <1>1, <1>2, <1>3

\* Identifiers of the two kinds never meet.
LEMMA KindsApart ==
    ASSUME NEW d \in Digest
    PROVE  /\ d[1] = "sha256"
           /\ \A n : ArtifactID(n) # d /\ ArtifactID(n)[1] = "artifact" /\ ArtifactID(n)[2] = n
           /\ \A n, m : ArtifactID(n) = ArtifactID(m) => n = m
<1>1. d[1] = "sha256"
  BY DEF Digest
<1>2. \A n : ArtifactID(n)[1] = "artifact" /\ ArtifactID(n)[2] = n
  BY DEF ArtifactID
<1>3. "sha256" # "artifact"
  OBVIOUS
<1>4. ASSUME NEW n PROVE ArtifactID(n) # d
  <2>1. ArtifactID(n)[1] = "artifact"
    BY <1>2, Zenon
  <2> QED BY <1>1, <1>3, <2>1, Zenon
<1>5. ASSUME NEW n, NEW m, ArtifactID(n) = ArtifactID(m) PROVE n = m
  <2>1. ArtifactID(n)[2] = n /\ ArtifactID(m)[2] = m
    BY <1>2, Zenon
  <2> QED BY <1>5, <2>1, Zenon
<1> QED BY <1>1, <1>2, <1>4, <1>5, Zenon

\* What is identified in an envelope whose objects are numbered.
LEMMA NumberedIdentifiers ==
    ASSUME NEW e, e.artifacts \in Seq(Object), Numbered(e)
    PROVE  /\ Identifiers(e) = {e.source.identity} \cup {ArtifactID(n) : n \in 0..Len(e.artifacts)}
           /\ DOMAIN Outputs(e) = 1..(Len(e.artifacts) + 1) /\ Len(Outputs(e)) = Len(e.artifacts) + 1
           /\ Outputs(e)[1] = e.primary
           /\ \A i \in 1..Len(e.artifacts) : Outputs(e)[i + 1] = e.artifacts[i]
<1>1. PICK N, x, s : N = Len(e.artifacts) /\ x = e.primary /\ s = e.artifacts
  OBVIOUS
<1>2. N \in Nat /\ x.id = ArtifactID(0) /\ \A i \in 1..N : s[i].id = ArtifactID(i)
  BY <1>1 DEF Numbered
<1>3. s = [i \in 1..N |-> s[i]] /\ DOMAIN s = 1..N
  BY <1>1
<1>4. PICK o : o = <<x>> \o s
  OBVIOUS
<1>5. DOMAIN o = 1..(N + 1) /\ Len(o) = N + 1 /\ o[1] = x /\ \A i \in 1..N : o[i + 1] = s[i]
  BY <1>2, <1>3, <1>4, PutInFront
<1>6. ASSUME NEW n \in 0..N PROVE o[n + 1].id = ArtifactID(n) /\ n + 1 \in 1..(N + 1)
  <2>1. n = 0 \/ n \in 1..N
    BY <1>2
  <2> QED BY <1>2, <1>5, <2>1
<1>7. {o[i].id : i \in DOMAIN o} = {ArtifactID(n) : n \in 0..N}
  <2>1. ASSUME NEW i \in 1..(N + 1) PROVE o[i].id \in {ArtifactID(n) : n \in 0..N}
    <3>1. i - 1 \in 0..N /\ (i - 1) + 1 = i
      BY <1>2
    <3>2. o[(i - 1) + 1].id = ArtifactID(i - 1)
      BY <1>6, <3>1
    <3> QED BY <3>1, <3>2
  <2>2. ASSUME NEW n \in 0..N PROVE ArtifactID(n) \in {o[i].id : i \in 1..(N + 1)}
    BY <1>6
  <2> QED BY <1>5, <2>1, <2>2
<1>8. Outputs(e) = o
  BY <1>1, <1>4 DEF Outputs
<1>9. Identifiers(e) = {e.source.identity} \cup {o[i].id : i \in DOMAIN o}
  BY <1>8 DEF Identifiers
<1> QED BY <1>1, <1>5, <1>7, <1>8, <1>9

\* Relations that hold are in place.
LEMMA RelationsPlaced ==
    ASSUME NEW e \in Shape, Numbered(e), \A i \in 1..Len(e.artifacts) : RelationsHold(e, e.artifacts[i])
    PROVE  Placed(e)
<1>1. ASSUME NEW i \in 1..Len(e.artifacts)
      PROVE  LET a == e.artifacts[i]
             IN  /\ Increasing([j \in 1..Len(a.relations) |-> TextKey(a.relations[j])])
                 /\ \A j \in 1..Len(a.relations) :
                       a.relations[j].to = a.id /\ a.relations[j].from \in Sources(e, i)
  <2>1. PICK a : a = e.artifacts[i]
    OBVIOUS
  <2>2. RelationsHold(e, a) /\ a.id = ArtifactID(i) /\ DOMAIN a.relations = 1..Len(a.relations)
    <3>1. a.relations \in Seq(Link)
      BY <2>1, ShapeParts
    <3> QED BY <2>1, <3>1 DEF Numbered
  <2>3. Increasing([j \in 1..Len(a.relations) |-> TextKey(a.relations[j])])
    BY <2>2 DEF RelationsHold
  <2>4. \A j \in 1..Len(a.relations) :
           a.relations[j].to = a.id /\ a.relations[j].from \in Identifiers(e) \ {a.id}
    BY <2>2 DEF RelationsHold
  <2>5. \A j \in 1..Len(a.relations) : a.relations[j].from \in Sources(e, i)
    <3> SUFFICES ASSUME NEW j \in 1..Len(a.relations) PROVE a.relations[j].from \in Sources(e, i)
      OBVIOUS
    <3>1. PICK id : id = a.relations[j].from
      OBVIOUS
    <3>2. id \in Identifiers(e) /\ id # ArtifactID(i)
      BY <2>2, <2>4, <3>1
    <3>3. CASE id = e.source.identity
      BY <3>1, <3>3 DEF Sources
    <3>4. CASE id # e.source.identity
      <4>1. PICK n \in 0..Len(e.artifacts) : id = ArtifactID(n)
        BY <3>2, <3>4, ShapeParts, NumberedIdentifiers
      <4>2. n # i
        BY <3>2, <4>1
      <4> QED BY <3>1, <4>1, <4>2 DEF Sources
    <3> QED BY <3>3, <3>4
  <2> QED BY <2>1, <2>3, <2>4, <2>5
<1> QED BY <1>1 DEF Placed

\* A verified envelope is numbered, its relations are in place and its
\* artifacts in order.
LEMMA VerifiedParts ==
    ASSUME NEW e \in Shape, VerifyEnvelope(e)
    PROVE  /\ Numbered(e) /\ Placed(e)
           /\ Increasing([i \in 1..Len(e.artifacts) |-> OrderKey(Referents(e), e.artifacts[i])])
<1>1. e.primary.id = ArtifactID(0) /\ InventoryHolds(e)
  BY DEF VerifyEnvelope
<1>2. PICK N : N = Len(e.artifacts)
  OBVIOUS
<1>3. /\ \A i \in 1..N : e.artifacts[i].id = ArtifactID(i) /\ RelationsHold(e, e.artifacts[i])
      /\ Increasing([i \in 1..N |-> OrderKey(Referents(e), e.artifacts[i])])
  BY <1>1, <1>2, Zenon DEF InventoryHolds, ObjectHolds
<1>4. Numbered(e)
  BY <1>1, <1>2, <1>3, ShapeParts DEF Numbered
<1>5. Placed(e)
  BY <1>2, <1>3, <1>4, RelationsPlaced
<1> QED BY <1>2, <1>3, <1>4, <1>5

\* The referents of an envelope whose objects are numbered, one by one.
LEMMA NumberedReferents ==
    ASSUME NEW e, Numbered(e), NEW N, N = Len(e.artifacts)
    PROVE  LET refs == Referents(e)
           IN  /\ DOMAIN refs = 1..(N + 2)
               /\ refs[1].id = e.source.identity /\ refs[1].key = SourceKey
               /\ refs[2].id = ArtifactID(0) /\ refs[2].key = PrimaryKey
               /\ \A i \in 3..(N + 2) : refs[i].id = ArtifactID(i - 2)
                                        /\ refs[i].key = ReferenceKey(e.artifacts[i - 2])
               /\ \A i, j \in DOMAIN refs : refs[i].id = refs[j].id => i = j
<1>1. PICK d : d = e.source.identity
  OBVIOUS
<1>2. N \in Nat /\ d \in Digest
  BY <1>1 DEF Numbered
<1>3. PICK s : s = [i \in 1..N |-> [id |-> e.artifacts[i].id, key |-> ReferenceKey(e.artifacts[i])]]
  OBVIOUS
<1>4. PICK x, y : x = [id |-> d, key |-> SourceKey] /\ y = [id |-> ArtifactID(0), key |-> PrimaryKey]
  OBVIOUS
<1>5. PICK refs : refs = <<x, y>> \o s
  OBVIOUS
<1>6. Referents(e) = refs
  <2>1. e.primary.id = ArtifactID(0)
    BY DEF Numbered
  <2>2. Referents(e) = <<[id |-> e.source.identity, key |-> SourceKey],
                         [id |-> e.primary.id, key |-> PrimaryKey]>>
                       \o [i \in 1..Len(e.artifacts) |->
                              [id |-> e.artifacts[i].id, key |-> ReferenceKey(e.artifacts[i])]]
    BY Zenon DEF Referents
  <2> QED BY <1>1, <1>3, <1>4, <1>5, <2>1, <2>2, Zenon
<1>7. /\ DOMAIN refs = 1..(N + 2) /\ refs[1] = x /\ refs[2] = y
      /\ \A i \in 1..N : refs[i + 2] = s[i]
  <2>1. DOMAIN s = 1..N /\ s = [i \in 1..N |-> s[i]]
    BY <1>3
  <2> QED BY <1>2, <1>5, <2>1, TwoInFront
<1>8. \A i \in 1..N : s[i].id = ArtifactID(i) /\ s[i].key = ReferenceKey(e.artifacts[i])
  <2>1. \A i \in 1..N : e.artifacts[i].id = ArtifactID(i)
    BY <1>1 DEF Numbered
  <2> QED BY <1>3, <2>1
<1>9. /\ refs[1].id = d /\ refs[1].key = SourceKey
      /\ refs[2].id = ArtifactID(0) /\ refs[2].key = PrimaryKey
      /\ \A i \in 3..(N + 2) : refs[i].id = ArtifactID(i - 2) /\ refs[i].key = ReferenceKey(e.artifacts[i - 2])
  <2>1. ASSUME NEW i \in 3..(N + 2)
        PROVE  refs[i].id = ArtifactID(i - 2) /\ refs[i].key = ReferenceKey(e.artifacts[i - 2])
    <3>1. i - 2 \in 1..N /\ (i - 2) + 2 = i
      BY <1>2
    <3>2. refs[i] = s[i - 2]
      BY <1>7, <3>1
    <3> QED BY <1>8, <3>1, <3>2
  <2> QED BY <1>4, <1>7, <2>1
<1>10. \A i \in DOMAIN refs : i = 1 \/ i = 2 \/ (i \in 3..(N + 2) /\ i - 2 \in Nat /\ i - 2 # 0)
  BY <1>2, <1>7
<1>11. \A i, j \in DOMAIN refs : refs[i].id = refs[j].id => i = j
  <2> SUFFICES ASSUME NEW i \in DOMAIN refs, NEW j \in DOMAIN refs, refs[i].id = refs[j].id
               PROVE  i = j
    OBVIOUS
  <2>1. \A n \in Int : ArtifactID(n) # d
    BY <1>2, KindsApart
  <2>2. \A n, m \in Int : ArtifactID(n) = ArtifactID(m) => n = m
    BY <1>2, KindsApart
  <2>3. i \in Int /\ j \in Int
    BY <1>2, <1>7
  <2>4. i = 1 => j = 1
    BY <1>9, <1>10, <2>1
  <2>5. j = 1 => i = 1
    BY <1>9, <1>10, <2>1
  <2>6. i = 2 => j = 1 \/ j = 2
    BY <1>9, <1>10, <2>2
  <2>7. j = 2 => i = 1 \/ i = 2
    BY <1>9, <1>10, <2>2
  <2>8. i \in 3..(N + 2) /\ j \in 3..(N + 2) => i - 2 = j - 2
    BY <1>9, <2>2
  <2> QED BY <1>10, <2>3, <2>4, <2>5, <2>6, <2>7, <2>8
<1> QED BY <1>1, <1>6, <1>7, <1>9, <1>11, Zenon

\* What references mean in an envelope whose objects are numbered.
LEMMA NumberedMeanings ==
    ASSUME NEW e, Numbered(e)
    PROVE  /\ Meaning(Referents(e), e.source.identity) = SourceKey
           /\ Meaning(Referents(e), ArtifactID(0)) = PrimaryKey
           /\ \A m \in 1..Len(e.artifacts) :
                 Meaning(Referents(e), ArtifactID(m)) = ReferenceKey(e.artifacts[m])
<1>1. PICK N, d, refs : N = Len(e.artifacts) /\ d = e.source.identity /\ refs = Referents(e)
  OBVIOUS
<1>2. N \in Nat
  BY <1>1 DEF Numbered
<1>3. /\ DOMAIN refs = 1..(N + 2)
      /\ refs[1].id = d /\ refs[1].key = SourceKey
      /\ refs[2].id = ArtifactID(0) /\ refs[2].key = PrimaryKey
      /\ \A i \in 3..(N + 2) : refs[i].id = ArtifactID(i - 2) /\ refs[i].key = ReferenceKey(e.artifacts[i - 2])
      /\ \A i, j \in DOMAIN refs : refs[i].id = refs[j].id => i = j
  BY <1>1, NumberedReferents
<1>4. \A i \in DOMAIN refs : Meaning(refs, refs[i].id) = refs[i].key
  <2> SUFFICES ASSUME NEW i \in DOMAIN refs PROVE Meaning(refs, refs[i].id) = refs[i].key
    OBVIOUS
  <2>1. (CHOOSE j \in DOMAIN refs : refs[j].id = refs[i].id) = i
    BY <1>3
  <2> QED BY <2>1 DEF Meaning
<1>5. 1 \in DOMAIN refs /\ 2 \in DOMAIN refs
  BY <1>2, <1>3
<1>6. ASSUME NEW m \in 1..N PROVE Meaning(refs, ArtifactID(m)) = ReferenceKey(e.artifacts[m])
  <2>1. m + 2 \in DOMAIN refs /\ m + 2 \in 3..(N + 2) /\ (m + 2) - 2 = m
    BY <1>2, <1>3
  <2>2. refs[m + 2].id = ArtifactID(m) /\ refs[m + 2].key = ReferenceKey(e.artifacts[m])
    BY <1>3, <2>1
  <2> QED BY <1>4, <2>1, <2>2
<1> QED BY <1>1, <1>3, <1>4, <1>5, <1>6

\* Identifiers after renumbering.
LEMMA MovedTo ==
    ASSUME NEW N \in Nat, NEW p \in Orders(N)
    PROVE  /\ \A d \in Digest : Moved(p, d) = d
           /\ Moved(p, ArtifactID(0)) = ArtifactID(0)
           /\ \A n \in 1..N : Moved(p, ArtifactID(p[n])) = ArtifactID(n)
<1>1. p \in [1..N -> 1..N] /\ \A i, j \in 1..N : p[i] = p[j] => i = j
  BY ArrangesAll
<1>2. ASSUME NEW d \in Digest PROVE Moved(p, d) = d
  <2>1. d[1] # "artifact"
    BY DEF Digest
  <2> QED BY <2>1, Zenon DEF Moved
<1>3. \A n : ArtifactID(n)[1] = "artifact" /\ ArtifactID(n)[2] = n
  BY DEF ArtifactID
<1>4. Moved(p, ArtifactID(0)) = ArtifactID(0)
  BY <1>3, Zenon DEF Moved
<1>5. ASSUME NEW n \in 1..N PROVE Moved(p, ArtifactID(p[n])) = ArtifactID(n)
  <2>1. p[n] # 0 /\ DOMAIN p = 1..N
    BY <1>1
  <2>2. (CHOOSE m \in DOMAIN p : p[m] = p[n]) = n
    BY <1>1, <2>1
  <2>3. Moved(p, ArtifactID(p[n])) = ArtifactID(CHOOSE m \in DOMAIN p : p[m] = p[n])
    BY <1>3, <2>1, Zenon DEF Moved
  <2> QED BY <2>2, <2>3, Zenon
<1> QED BY <1>2, <1>4, <1>5

-----------------------------------------------------------------------------
(* The order keys of what was renumbered.                                  *)

\* Renumbering changes the artifacts and the outputs, and nothing else.
LEMMA RenumberedParts ==
    ASSUME NEW e \in Shape, NEW p \in Orders(Len(e.artifacts))
    PROVE  /\ Renumbered(e, p).source = e.source /\ Renumbered(e, p).primary = e.primary
           /\ Renumbered(e, p).artifacts = [n \in 1..Len(e.artifacts) |-> Turned(e, p, n)]
           /\ Len(Renumbered(e, p).artifacts) = Len(e.artifacts)
           /\ Renumbered(e, p).outputs
                = [i \in 1..Len(e.outputs) |-> IF i = 1 THEN e.outputs[1] ELSE e.outputs[p[i - 1] + 1]]
           /\ Renumbered(e, p) = [e EXCEPT !.artifacts = Renumbered(e, p).artifacts,
                                           !.outputs = Renumbered(e, p).outputs]
<1>1. DOMAIN p = 1..Len(e.artifacts) /\ Len(e.artifacts) \in Nat
  BY ShapeParts DEF Orders
<1>2. PICK as : as = [n \in 1..Len(e.artifacts) |-> Turned(e, p, n)]
  OBVIOUS
<1>3. PICK os : os = [i \in 1..Len(e.outputs) |-> IF i = 1 THEN e.outputs[1] ELSE e.outputs[p[i - 1] + 1]]
  OBVIOUS
<1>4. Renumbered(e, p) = [e EXCEPT !.artifacts = as, !.outputs = os]
  <2>1. as = [n \in DOMAIN p |-> Turned(e, p, n)]
    BY <1>1, <1>2, Zenon
  <2> QED BY <1>3, <2>1, Zenon DEF Renumbered
<1>5. PICK f : f = [e EXCEPT !.artifacts = as, !.outputs = os]
  OBVIOUS
<1>6. f.source = e.source /\ f.primary = e.primary /\ f.artifacts = as /\ f.outputs = os
  BY <1>5 DEF Shape
<1>7. Len(as) = Len(e.artifacts)
  BY <1>1, <1>2
<1> QED BY <1>2, <1>3, <1>4, <1>5, <1>6, <1>7

\* A renumbered artifact has another identifier and moved relations, and
\* is what it was.
LEMMA TurnedParts ==
    ASSUME NEW e \in Shape, NEW p \in Orders(Len(e.artifacts)), NEW n \in 1..Len(e.artifacts)
    PROVE  /\ p[n] \in 1..Len(e.artifacts)
           /\ Turned(e, p, n).id = ArtifactID(n)
           /\ ReferenceKey(Turned(e, p, n)) = ReferenceKey(e.artifacts[p[n]])
           /\ Turned(e, p, n).relations = SortedBy(Moves(p, e.artifacts[p[n]].relations), TextKey)
<1>1. p[n] \in 1..Len(e.artifacts)
  BY DEF Orders
<1>2. PICK a, s : a = e.artifacts[p[n]] /\ s = SortedBy(Moves(p, e.artifacts[p[n]].relations), TextKey)
  OBVIOUS
<1>3. a \in Object
  BY <1>1, <1>2, ShapeParts
<1>4. PICK b : b = [a EXCEPT !.id = ArtifactID(n), !.relations = s]
  OBVIOUS
<1>5. /\ b.id = ArtifactID(n) /\ b.relations = s
      /\ b.look = a.look /\ b.identity = a.identity /\ b.length = a.length
  BY <1>3, <1>4 DEF Object
<1>6. Turned(e, p, n) = b
  BY <1>2, <1>4, Zenon DEF Turned
<1> QED BY <1>1, <1>2, <1>5, <1>6 DEF ReferenceKey

\* The source and the primary output have keys as well.
LEMMA ConstantKeys == SourceKey \in Key(4) /\ PrimaryKey \in Key(4)
<1>1. 0 \in Int /\ 1 \in Int
  OBVIOUS
<1>2. \A a, b, c, d \in Int : <<a, b, c, d>> \in Key(4)
  BY ShortKeys
<1> QED BY <1>1, <1>2, Zenon DEF SourceKey, PrimaryKey

\* A moved relation says of the renumbered envelope what it said before.
LEMMA MeaningsMove ==
    ASSUME NEW e \in Shape, Numbered(e), NEW p \in Orders(Len(e.artifacts)),
           NEW n \in 1..Len(e.artifacts), NEW id \in Sources(e, p[n])
    PROVE  /\ id \in Reference /\ Moved(p, id) \in Reference
           /\ id # ArtifactID(p[n]) /\ Moved(p, id) # ArtifactID(n)
           /\ Meaning(Referents(Renumbered(e, p)), Moved(p, id)) = Meaning(Referents(e), id)
           /\ Meaning(Referents(e), id) \in Key(4)
           /\ (\A i \in 1..Len(e.artifacts) : p[i] = i) => Moved(p, id) = id
<1>1. PICK N, d, f : N = Len(e.artifacts) /\ d = e.source.identity /\ f = Renumbered(e, p)
  OBVIOUS
<1>2. N \in Nat /\ d \in Digest /\ Numbered(e) /\ n \in 1..N
  <2>1. Len(e.artifacts) \in Nat /\ e.source.identity \in Digest
    BY ShapeParts
  <2> QED BY <1>1, <2>1
<1>3. p \in [1..N -> 1..N] /\ (\A i, j \in 1..N : p[i] = p[j] => i = j)
      /\ \A k \in 1..N : \E i \in 1..N : p[i] = k
  <2>1. p \in Orders(N)
    BY <1>1
  <2> QED BY <1>2, <2>1, ArrangesAll
<1>4. /\ f.source = e.source /\ f.primary = e.primary /\ Len(f.artifacts) = N
      /\ \A i \in 1..N : f.artifacts[i] = Turned(e, p, i)
  <2>1. /\ f.source = e.source /\ f.primary = e.primary /\ Len(f.artifacts) = N
        /\ f.artifacts = [i \in 1..N |-> Turned(e, p, i)]
    BY <1>1, RenumberedParts
  <2> QED BY <2>1
<1>5. \A i \in 1..N : f.artifacts[i].id = ArtifactID(i)
                      /\ ReferenceKey(f.artifacts[i]) = ReferenceKey(e.artifacts[p[i]])
  BY <1>1, <1>4, TurnedParts
<1>6. Numbered(f)
  BY <1>1, <1>2, <1>4, <1>5 DEF Numbered
<1>7. /\ \A x \in Digest : Moved(p, x) = x
      /\ Moved(p, ArtifactID(0)) = ArtifactID(0)
      /\ \A i \in 1..N : Moved(p, ArtifactID(p[i])) = ArtifactID(i)
  BY <1>1, <1>2, MovedTo
<1>8. /\ \A i : ArtifactID(i) # d
      /\ \A i, j : ArtifactID(i) = ArtifactID(j) => i = j
  BY <1>2, KindsApart
<1>9. \A i \in Nat : ArtifactID(i) \in Reference
  BY DEF ArtifactID, Reference
<1>10. CASE id = d
  <2>1. Moved(p, id) = d /\ d \in Reference
    BY <1>2, <1>7, <1>10 DEF Reference
  <2>2. Meaning(Referents(e), d) = SourceKey
    BY <1>1, <1>2, NumberedMeanings
  <2>3. Meaning(Referents(f), d) = SourceKey
    BY <1>1, <1>4, <1>6, NumberedMeanings
  <2>4. SourceKey \in Key(4)
    BY ConstantKeys
  <2> QED BY <1>1, <1>8, <1>10, <2>1, <2>2, <2>3, <2>4
<1>11. CASE id # d
  <2>1. PICK m \in 0..N \ {p[n]} : id = ArtifactID(m)
    BY <1>1, <1>11 DEF Sources
  <2>2. m # p[n] /\ m \in Nat /\ id \in Reference
    BY <1>9, <2>1
  <2>3. CASE m = 0
    <3>1. Moved(p, id) = id /\ n # 0
      BY <1>2, <1>7, <2>1, <2>3
    <3>2. Meaning(Referents(e), ArtifactID(0)) = PrimaryKey
      BY <1>2, NumberedMeanings
    <3>3. Meaning(Referents(f), ArtifactID(0)) = PrimaryKey
      BY <1>6, NumberedMeanings
    <3>4. PrimaryKey \in Key(4)
      BY ConstantKeys
    <3> QED BY <1>1, <1>8, <2>1, <2>2, <2>3, <3>1, <3>2, <3>3, <3>4
  <2>4. CASE m # 0
    <3>1. m \in 1..N
      BY <2>1, <2>4
    <3>2. PICK k \in 1..N : p[k] = m
      BY <1>3, <3>1
    <3>3. Moved(p, id) = ArtifactID(k) /\ k # n
      BY <1>7, <2>1, <2>2, <3>2
    <3>4. Meaning(Referents(e), id) = ReferenceKey(e.artifacts[m])
      BY <1>1, <1>2, <2>1, <3>1, NumberedMeanings
    <3>5. Meaning(Referents(f), ArtifactID(k)) = ReferenceKey(f.artifacts[k])
      BY <1>4, <1>6, <3>2, NumberedMeanings
    <3>6. ReferenceKey(f.artifacts[k]) = ReferenceKey(e.artifacts[m])
      BY <1>5, <3>2
    <3>7. ReferenceKey(e.artifacts[m]) \in Key(4)
      BY <1>1, <3>1, ShapeParts, ReferenceKeyTypes
    <3>8. ArtifactID(k) \in Reference
      BY <1>9, <3>2
    <3>9. (\A i \in 1..N : p[i] = i) => k = m
      BY <3>1, <3>2
    <3> QED BY <1>1, <1>8, <2>1, <2>2, <3>3, <3>4, <3>5, <3>6, <3>7, <3>8, <3>9
  <2> QED BY <2>3, <2>4
<1> QED BY <1>10, <1>11

\* Its relations are the moved ones, in an order.
LEMMA RelationsMove ==
    ASSUME NEW e \in Shape, Placed(e), NEW p \in Orders(Len(e.artifacts)),
           NEW n \in 1..Len(e.artifacts), NEW rels, rels = e.artifacts[p[n]].relations
    PROVE  /\ Moves(p, rels) \in Seq(Link) /\ Len(Moves(p, rels)) = Len(rels)
           /\ \A i \in 1..Len(rels) :
                 /\ Moves(p, rels)[i].from = Moved(p, rels[i].from)
                 /\ Moves(p, rels)[i].to = ArtifactID(n)
                 /\ Moves(p, rels)[i].kind = rels[i].kind
                 /\ Moves(p, rels)[i].occurrence = rels[i].occurrence
                 /\ rels[i].from \in Sources(e, p[n]) /\ rels[i].to = ArtifactID(p[n])
<1>1. p[n] \in 1..Len(e.artifacts)
  BY TurnedParts
<1>2. rels \in Seq(Link) /\ Len(rels) \in Nat /\ \A i \in 1..Len(rels) : rels[i] \in Link
  BY <1>1, ShapeParts
<1>3. \A i \in 1..Len(rels) : rels[i].from \in Sources(e, p[n]) /\ rels[i].to = ArtifactID(p[n])
  <2>1. e.artifacts[p[n]].id = ArtifactID(p[n])
    BY <1>1 DEF Placed, Numbered
  <2> QED BY <1>1, <2>1 DEF Placed
<1>4. Moved(p, ArtifactID(p[n])) = ArtifactID(n) /\ ArtifactID(n) \in Reference
  <2>1. Len(e.artifacts) \in Nat
    BY ShapeParts
  <2>2. ArtifactID(n) \in Reference
    BY <2>1 DEF ArtifactID, Reference
  <2> QED BY <2>1, <2>2, MovedTo
<1>5. PICK ms : ms = Moves(p, rels)
  OBVIOUS
<1>6. ASSUME NEW i \in 1..Len(rels)
      PROVE  /\ ms[i].from = Moved(p, rels[i].from) /\ ms[i].to = ArtifactID(n)
             /\ ms[i].kind = rels[i].kind /\ ms[i].occurrence = rels[i].occurrence
             /\ ms[i] \in Link
  <2>1. PICK r : r = rels[i]
    OBVIOUS
  <2>2. r \in Link /\ r.to = ArtifactID(p[n]) /\ r.from \in Sources(e, p[n])
    BY <1>2, <1>3, <2>1
  <2>3. PICK x, y : x = Moved(p, r.from) /\ y = Moved(p, r.to)
    OBVIOUS
  <2>4. x \in Reference /\ y \in Reference /\ y = ArtifactID(n)
    BY <1>4, <2>2, <2>3, MeaningsMove DEF Placed
  <2>5. PICK t : t = [r EXCEPT !.from = x, !.to = y]
    OBVIOUS
  <2>6. t \in Link /\ t.from = x /\ t.to = y /\ t.kind = r.kind /\ t.occurrence = r.occurrence
    BY <2>2, <2>4, <2>5 DEF Link
  <2>7. ms[i] = t
    BY <1>5, <2>1, <2>3, <2>5 DEF Moves
  <2> QED BY <2>1, <2>3, <2>4, <2>6, <2>7
<1>7. DOMAIN ms = 1..Len(rels) /\ ms = [i \in 1..Len(rels) |-> ms[i]]
  BY <1>5 DEF Moves
<1>8. ms \in Seq(Link) /\ Len(ms) = Len(rels)
  <2>1. PICK L : L = Len(rels)
    OBVIOUS
  <2>2. L \in Nat /\ ms = [i \in 1..L |-> ms[i]] /\ \A i \in 1..L : ms[i] \in Link
    BY <1>2, <1>6, <1>7, <2>1
  <2>3. ms \in Seq(Link) /\ Len(ms) = L
    BY <2>2
  <2> QED BY <2>1, <2>3
<1> QED BY <1>3, <1>5, <1>6, <1>8, Zenon

\* One order after another.
LEMMA OrdersCompose ==
    ASSUME NEW N \in Nat, NEW q \in Orders(N), NEW r \in Orders(N)
    PROVE  [i \in 1..N |-> q[r[i]]] \in Orders(N)
<1>1. /\ q \in [1..N -> 1..N] /\ \A i, j \in 1..N : q[i] = q[j] => i = j
      /\ r \in [1..N -> 1..N] /\ \A i, j \in 1..N : r[i] = r[j] => i = j
  BY ArrangesAll
<1>2. PICK s : s = [i \in 1..N |-> q[r[i]]]
  OBVIOUS
<1>3. s \in [1..N -> 1..N] /\ \A i, j \in 1..N : s[i] = s[j] => i = j
  BY <1>1, <1>2
<1> QED BY <1>2, <1>3 DEF Orders

(* The order key of an artifact does not depend on any identifier: it is   *)
(* the same wherever the artifact is written down (ingestion.go:479-507).  *)
LEMMA KeysStay ==
    ASSUME NEW e \in Shape, Placed(e), NEW p \in Orders(Len(e.artifacts)),
           NEW n \in 1..Len(e.artifacts)
    PROVE  /\ OrderKey(Referents(Renumbered(e, p)), Turned(e, p, n))
                = OrderKey(Referents(e), e.artifacts[p[n]])
           /\ OrderKey(Referents(e), e.artifacts[p[n]]) \in Seq(Int)
<1>1. PICK a, b, R, Q : /\ a = e.artifacts[p[n]] /\ b = Turned(e, p, n)
                        /\ R = Referents(e) /\ Q = Referents(Renumbered(e, p))
  OBVIOUS
<1>2. p[n] \in 1..Len(e.artifacts) /\ a \in Object /\ a.id = ArtifactID(p[n]) /\ b.id = ArtifactID(n)
  <2>1. p[n] \in 1..Len(e.artifacts) /\ b.id = ArtifactID(n)
    BY <1>1, TurnedParts
  <2>2. Numbered(e)
    BY DEF Placed
  <2> QED BY <1>1, <2>1, <2>2, ShapeParts DEF Numbered
<1>3. ReferenceKey(b) = ReferenceKey(a) /\ ReferenceKey(a) \in Key(4)
  BY <1>1, <1>2, TurnedParts, ReferenceKeyTypes
<1>4. PICK rels, ms, L : rels = a.relations /\ ms = Moves(p, rels) /\ L = Len(rels)
  OBVIOUS
<1>5. /\ ms \in Seq(Link) /\ Len(ms) = L /\ L \in Nat
      /\ \A i \in 1..L :
            /\ ms[i].from = Moved(p, rels[i].from) /\ ms[i].to = ArtifactID(n)
            /\ ms[i].kind = rels[i].kind /\ ms[i].occurrence = rels[i].occurrence
            /\ rels[i].from \in Sources(e, p[n]) /\ rels[i].to = ArtifactID(p[n])
            /\ rels[i].occurrence \in Int
  <2>1. /\ ms \in Seq(Link) /\ Len(ms) = L
        /\ \A i \in 1..L :
              /\ ms[i].from = Moved(p, rels[i].from) /\ ms[i].to = ArtifactID(n)
              /\ ms[i].kind = rels[i].kind /\ ms[i].occurrence = rels[i].occurrence
              /\ rels[i].from \in Sources(e, p[n]) /\ rels[i].to = ArtifactID(p[n])
    <3>1. rels = e.artifacts[p[n]].relations
      BY <1>1, <1>4
    <3>2. /\ Moves(p, rels) \in Seq(Link) /\ Len(Moves(p, rels)) = Len(rels)
          /\ \A i \in 1..Len(rels) :
                /\ Moves(p, rels)[i].from = Moved(p, rels[i].from)
                /\ Moves(p, rels)[i].to = ArtifactID(n)
                /\ Moves(p, rels)[i].kind = rels[i].kind
                /\ Moves(p, rels)[i].occurrence = rels[i].occurrence
                /\ rels[i].from \in Sources(e, p[n]) /\ rels[i].to = ArtifactID(p[n])
      BY <3>1, RelationsMove
    <3> QED BY <1>4, <3>2
  <2>2. L \in Nat /\ \A i \in 1..L : rels[i] \in Link
    BY <1>1, <1>2, <1>4, ShapeParts
  <2>3. \A i \in 1..L : rels[i].occurrence \in Int
    BY <2>2 DEF Link
  <2> QED BY <2>1, <2>2, <2>3
<1>6. PICK k : k = [i \in 1..L |-> RelationKey(R, a, rels[i])]
  OBVIOUS
<1>7. ASSUME NEW i \in 1..L
      PROVE  RelationKey(R, a, rels[i]) \in Key(10) /\ RelationKey(Q, b, ms[i]) = RelationKey(R, a, rels[i])
  <2>1. PICK from : from = rels[i].from
    OBVIOUS
  <2>2. /\ from \in Sources(e, p[n]) /\ ms[i].from = Moved(p, from)
        /\ rels[i].to = a.id /\ ms[i].to = b.id
        /\ ms[i].kind = rels[i].kind /\ ms[i].occurrence = rels[i].occurrence
        /\ rels[i].occurrence \in Int
    BY <1>2, <1>5, <2>1
  <2>3. /\ from # a.id /\ Moved(p, from) # b.id
        /\ Meaning(Q, Moved(p, from)) = Meaning(R, from) /\ Meaning(R, from) \in Key(4)
    BY <1>1, <1>2, <2>2, MeaningsMove DEF Placed
  <2>4. /\ Endpoint(R, a, rels[i].from) = Meaning(R, from)
        /\ Endpoint(Q, b, ms[i].from) = Meaning(R, from)
    BY <2>1, <2>2, <2>3 DEF Endpoint
  <2>5. /\ Endpoint(R, a, rels[i].to) = ReferenceKey(a)
        /\ Endpoint(Q, b, ms[i].to) = ReferenceKey(a)
    BY <1>3, <2>2 DEF Endpoint
  <2>6. RelationKey(R, a, rels[i]) \in Key(10)
    BY <1>3, <2>2, <2>3, <2>4, <2>5, RelationKeyTypes
  <2>7. RelationKey(Q, b, ms[i]) = RelationKey(R, a, rels[i])
    BY <2>2, <2>4, <2>5, Zenon DEF RelationKey
  <2> QED BY <2>6, <2>7
<1>8. k \in [1..L -> Key(10)] /\ \A i \in 1..L : k[i] = RelationKey(R, a, rels[i])
  BY <1>6, <1>7
<1>9. PICK t \in Orders(L) : /\ RelationKeys(R, a) = [i \in 1..L |-> RelationKey(R, a, a.relations[t[i]])]
                             /\ RelationKeys(R, a) \in [1..L -> Key(10)]
                             /\ Monotone(RelationKeys(R, a))
  BY <1>4, <1>5, <1>7, RelationKeysInOrder
<1>10. PICK q \in Orders(L) : b.relations = [i \in 1..L |-> ms[q[i]]]
  <2>1. b.relations = SortedBy(ms, TextKey)
    BY <1>1, <1>4, TurnedParts
  <2>2. PICK q \in Orders(Len(ms)) : SortedBy(ms, TextKey) = [i \in 1..Len(ms) |-> ms[q[i]]]
    BY <1>5, RelationsInOrder
  <2> QED BY <1>5, <2>1, <2>2
<1>11. /\ \A i \in 1..L : q[i] \in 1..L /\ t[i] \in 1..L
       /\ \A i, j \in 1..L : t[i] = t[j] => i = j
  BY DEF Orders
<1>12. Len(b.relations) = L /\ \A i \in 1..L : RelationKey(Q, b, b.relations[i]) = k[q[i]]
  <2>1. Len(b.relations) = L /\ \A i \in 1..L : b.relations[i] = ms[q[i]]
    BY <1>5, <1>10
  <2>2. \A i \in 1..L : RelationKey(Q, b, ms[q[i]]) = k[q[i]]
    BY <1>7, <1>8, <1>11
  <2> QED BY <2>1, <2>2
<1>13. PICK u \in Orders(L) : /\ RelationKeys(Q, b) = [i \in 1..L |-> RelationKey(Q, b, b.relations[u[i]])]
                              /\ RelationKeys(Q, b) \in [1..L -> Key(10)]
                              /\ Monotone(RelationKeys(Q, b))
  <2>1. \A i \in 1..L : RelationKey(Q, b, b.relations[i]) \in Key(10)
    BY <1>8, <1>11, <1>12
  <2> QED BY <1>5, <1>12, <2>1, RelationKeysInOrder
<1>14. RelationKeys(Q, b) = RelationKeys(R, a)
  <2>1. PICK v \in Orders(L) : \A i \in 1..L : v[i] \in 1..L /\ t[v[i]] = i /\ v[t[i]] = i
    BY <1>5, OrderUndone
  <2>2. \A i \in 1..L : u[i] \in 1..L
    BY DEF Orders
  <2>3. PICK w : w = [i \in 1..L |-> q[u[i]]]
    OBVIOUS
  <2>4. w \in Orders(L)
    BY <1>5, <2>3, OrdersCompose
  <2>5. PICK x : x = [i \in 1..L |-> v[w[i]]]
    OBVIOUS
  <2>6. x \in Orders(L)
    BY <1>5, <2>4, <2>5, OrdersCompose
  <2>7. ASSUME NEW i \in 1..L PROVE RelationKeys(R, a)[x[i]] = RelationKeys(Q, b)[i]
    <3>1. w[i] = q[u[i]] /\ w[i] \in 1..L /\ x[i] = v[w[i]] /\ x[i] \in 1..L
      BY <1>11, <2>1, <2>2, <2>3, <2>5
    <3>2. t[x[i]] = w[i]
      BY <2>1, <3>1
    <3>3. RelationKeys(R, a)[x[i]] = RelationKey(R, a, rels[t[x[i]]])
      BY <1>4, <1>9, <3>1
    <3>4. RelationKeys(R, a)[x[i]] = k[w[i]]
      BY <1>8, <3>1, <3>2, <3>3
    <3>5. RelationKeys(Q, b)[i] = RelationKey(Q, b, b.relations[u[i]])
      BY <1>13
    <3>6. RelationKeys(Q, b)[i] = k[q[u[i]]]
      BY <1>12, <2>2, <3>5
    <3> QED BY <3>1, <3>4, <3>6
  <2>8. 10 \in Nat
    OBVIOUS
  <2>9. PICK one, other : one = RelationKeys(R, a) /\ other = RelationKeys(Q, b)
    OBVIOUS
  <2>10. /\ one \in [1..L -> Key(10)] /\ Monotone(one)
         /\ other \in [1..L -> Key(10)] /\ Monotone(other)
         /\ \A i \in 1..L : one[x[i]] = other[i]
    <3>1. one \in [1..L -> Key(10)] /\ Monotone(one)
      BY <1>9, <2>9, Zenon
    <3>2. other \in [1..L -> Key(10)] /\ Monotone(other)
      BY <1>13, <2>9, Zenon
    <3>3. \A i \in 1..L : one[x[i]] = other[i]
      <4> SUFFICES ASSUME NEW i \in 1..L PROVE one[x[i]] = other[i]
        OBVIOUS
      <4>1. RelationKeys(R, a)[x[i]] = RelationKeys(Q, b)[i]
        BY <2>7
      <4>2. one[x[i]] = RelationKeys(R, a)[x[i]]
        BY <2>9, Zenon
      <4>3. other[i] = RelationKeys(Q, b)[i]
        BY <2>9, Zenon
      <4> QED BY <4>1, <4>2, <4>3
    <3> QED BY <3>1, <3>2, <3>3
  <2>11. other = one
    <3>1. PICK W : W = 10
      OBVIOUS
    <3>2. W \in Nat /\ L \in Nat
      BY <1>5, <2>8, <3>1
    <3>3. one \in [1..L -> Key(W)] /\ other \in [1..L -> Key(W)]
      BY <2>10, <3>1
    <3>4. Monotone(one) /\ Monotone(other)
      BY <2>10
    <3>5. \A i \in 1..L : one[x[i]] = other[i]
      BY <2>10
    <3> QED BY <2>6, <3>2, <3>3, <3>4, <3>5, SameWhenOrdered, ZenonT(60)
  <2> QED BY <2>9, <2>11
<1>15. OrderKey(Q, b) = OrderKey(R, a)
  BY <1>3, <1>14, OrderKeyShows, Zenon
<1>16. OrderKey(R, a) \in Seq(Int)
  <2>1. \A W \in Nat : \A s \in Key(W) : s \in Seq(Int)
    BY KeysJoin
  <2>2. 10 \in Nat /\ 4 \in Nat
    OBVIOUS
  <2>3. RelationKeys(R, a) \in [1..L -> Seq(Int)] /\ ReferenceKey(a) \in Seq(Int)
    BY <1>3, <1>9, <2>1, <2>2
  <2>4. PICK keys : keys = RelationKeys(R, a)
    OBVIOUS
  <2>5. keys \in Seq(Seq(Int))
    <3>1. DOMAIN keys = 1..L /\ keys = [i \in 1..L |-> keys[i]] /\ \A i \in 1..L : keys[i] \in Seq(Int)
      BY <2>3, <2>4
    <3> QED BY <1>5, <3>1
  <2>6. Flat(keys) \in Seq(Int)
    BY <2>5, FlatTypes
  <2>7. \A x, y \in Seq(Int) : x \o y \in Seq(Int)
    OBVIOUS
  <2> QED BY <2>3, <2>4, <2>6, <2>7, OrderKeyShows
<1> QED BY <1>1, <1>15, <1>16

\* What is in strict order is already sorted.
LEMMA SortedAlready ==
    ASSUME NEW s \in Seq(Link), Increasing([i \in 1..Len(s) |-> TextKey(s[i])])
    PROVE  SortedBy(s, TextKey) = s
<1>1. PICK N : N = Len(s)
  OBVIOUS
<1>2. N \in Nat /\ (\A i \in 1..N : s[i] \in Link) /\ s = [i \in 1..N |-> s[i]]
  BY <1>1
<1>3. PICK t : t = [i \in 1..N |-> TextKey(s[i])]
  OBVIOUS
<1>4. t \in [1..N -> Key(8)]
  BY <1>2, <1>3, TextKeyTypes
<1>5. Increasing(t)
  BY <1>1, <1>3, Zenon
<1>6. PICK q \in Orders(N) : /\ SortedBy(s, TextKey) = [i \in 1..N |-> s[q[i]]]
                             /\ Monotone([i \in 1..N |-> TextKey(s[q[i]])])
  BY <1>1, RelationsInOrder
<1>7. q \in [1..N -> 1..N]
  BY DEF Orders
<1>8. PICK u : u = [i \in 1..N |-> TextKey(s[q[i]])]
  OBVIOUS
<1>9. u \in [1..N -> Key(8)] /\ Monotone(u) /\ \A i \in 1..N : t[q[i]] = u[i]
  <2>1. \A i \in 1..N : t[q[i]] = TextKey(s[q[i]]) /\ t[q[i]] \in Key(8)
    BY <1>3, <1>4, <1>7
  <2>2. u \in [1..N -> Key(8)] /\ \A i \in 1..N : t[q[i]] = u[i]
    BY <1>8, <2>1
  <2>3. Monotone(u)
    BY <1>6, <1>8, Zenon
  <2> QED BY <2>2, <2>3
<1>10. 8 \in Nat
  OBVIOUS
<1>11. \A i, j \in 1..N : t[i] = t[j] => i = j
  BY <1>2, <1>4, <1>5, <1>10, IncreasingKeys
<1>12. Monotone(t)
  <2>1. Len(t) = N
    BY <1>2, <1>4
  <2> SUFFICES ASSUME NEW i \in 1..(N - 1) PROVE ~Before(t[i + 1], t[i])
    BY <2>1 DEF Monotone
  <2>2. Before(t[i], t[i + 1])
    BY <1>5, <2>1 DEF Increasing
  <2>3. t[i] \in Key(8) /\ t[i + 1] \in Key(8)
    <3>1. i \in 1..N /\ i + 1 \in 1..N
      BY <1>2
    <3> QED BY <1>4, <3>1
  <2>4. \A y, z \in Key(8) : ~(Before(y, z) /\ Before(z, y))
    <3>1. PICK W : W = 8
      OBVIOUS
    <3>2. W \in Nat
      BY <1>10, <3>1, Zenon
    <3>3. \A y, z \in Key(W) : ~(Before(y, z) /\ Before(z, y))
      BY <3>2, BeforeOrders
    <3> QED BY <3>1, <3>3, Zenon
  <2> QED BY <2>2, <2>3, <2>4, Zenon
<1>13. u = t
  <2>1. PICK W : W = 8
    OBVIOUS
  <2>2. W \in Nat /\ N \in Nat
    BY <1>2, <1>10, <2>1
  <2>3. t \in [1..N -> Key(W)] /\ u \in [1..N -> Key(W)]
    BY <1>4, <1>9, <2>1
  <2>4. Monotone(t) /\ Monotone(u)
    BY <1>9, <1>12
  <2>5. \A i \in 1..N : t[q[i]] = u[i]
    BY <1>9
  <2>6. q \in Orders(N)
    BY <1>6
  <2> QED BY <2>2, <2>3, <2>4, <2>5, <2>6, SameWhenOrdered
<1>14. \A i \in 1..N : q[i] = i
  <2> SUFFICES ASSUME NEW i \in 1..N PROVE q[i] = i
    OBVIOUS
  <2>1. q[i] \in 1..N /\ t[q[i]] = t[i]
    BY <1>7, <1>9, <1>13
  <2> QED BY <1>11, <2>1
<1>15. [i \in 1..N |-> s[q[i]]] = [i \in 1..N |-> s[i]]
  BY <1>14
<1> QED BY <1>2, <1>6, <1>15, Zenon

\* An artifact that keeps its place keeps everything.
LEMMA TurnedInPlace ==
    ASSUME NEW e \in Shape, Placed(e), NEW p \in Orders(Len(e.artifacts)),
           \A i \in 1..Len(e.artifacts) : p[i] = i, NEW n \in 1..Len(e.artifacts)
    PROVE  Turned(e, p, n) = e.artifacts[n]
<1>1. PICK a, rels : a = e.artifacts[n] /\ rels = a.relations
  OBVIOUS
<1>2. p[n] = n /\ a \in Object /\ rels \in Seq(Link) /\ a.id = ArtifactID(n)
  <2>1. Numbered(e)
    BY DEF Placed
  <2> QED BY <1>1, <2>1, ShapeParts DEF Numbered
<1>3. PICK ms : ms = Moves(p, rels)
  OBVIOUS
<1>4. Len(rels) \in Nat /\ rels = [i \in 1..Len(rels) |-> rels[i]] /\ \A i \in 1..Len(rels) : rels[i] \in Link
  BY <1>2
<1>5. ASSUME NEW i \in 1..Len(rels) PROVE [rels[i] EXCEPT !.from = Moved(p, @), !.to = Moved(p, @)] = rels[i]
  <2>1. PICK r : r = rels[i]
    OBVIOUS
  <2>2. r \in Link /\ r.to = ArtifactID(n) /\ r.from \in Sources(e, n)
    <3>1. r.to = a.id /\ r.from \in Sources(e, n)
      BY <1>1, <2>1 DEF Placed
    <3> QED BY <1>2, <1>4, <2>1, <3>1
  <2>3. PICK x, y : x = Moved(p, r.from) /\ y = Moved(p, r.to)
    OBVIOUS
  <2>4. x = r.from
    <3>1. r.from \in Sources(e, p[n])
      BY <1>2, <2>2
    <3> QED BY <2>3, <3>1, MeaningsMove DEF Placed
  <2>5. y = r.to
    <3>1. Len(e.artifacts) \in Nat
      BY ShapeParts
    <3>2. Moved(p, ArtifactID(p[n])) = ArtifactID(n)
      BY <3>1, MovedTo
    <3> QED BY <1>2, <2>2, <2>3, <3>2
  <2>6. [r EXCEPT !.from = x, !.to = y] = r
    BY <2>2, <2>4, <2>5 DEF Link
  <2> QED BY <2>1, <2>3, <2>6
<1>6. ms = rels
  <2>1. ms = [i \in 1..Len(rels) |-> [rels[i] EXCEPT !.from = Moved(p, @), !.to = Moved(p, @)]]
    BY <1>3, Zenon DEF Moves
  <2>2. ms = [i \in 1..Len(rels) |-> rels[i]]
    BY <1>5, <2>1, Zenon
  <2> QED BY <1>4, <2>2, Zenon
<1>7. SortedBy(ms, TextKey) = rels
  <2>1. Increasing([i \in 1..Len(rels) |-> TextKey(rels[i])])
    BY <1>1 DEF Placed
  <2>2. SortedBy(rels, TextKey) = rels
    BY <1>2, <2>1, SortedAlready
  <2> QED BY <1>6, <2>2, Zenon
<1>8. PICK x, s : x = ArtifactID(n) /\ s = SortedBy(ms, TextKey)
  OBVIOUS
<1>9. [a EXCEPT !.id = x, !.relations = s] = a
  BY <1>1, <1>2, <1>7, <1>8 DEF Object
<1>10. Turned(e, p, n) = [a EXCEPT !.id = x, !.relations = s]
  BY <1>1, <1>2, <1>3, <1>8, Zenon DEF Turned
<1> QED BY <1>1, <1>9, <1>10, Zenon

(* Of a verified envelope and a renumbering of it, only the first verifies *)
(* unless the renumbering changes nothing (ingestion.go:479-507).          *)
LEMMA NothingMoves ==
    ASSUME NEW e \in Shape, VerifyEnvelope(e), NEW p \in Orders(Len(e.artifacts)),
           VerifyEnvelope(Renumbered(e, p))
    PROVE  Renumbered(e, p) = e
<1>1. PICK f, N : f = Renumbered(e, p) /\ N = Len(e.artifacts)
  OBVIOUS
<1>2. N \in Nat /\ p \in Orders(N) /\ p \in [1..N -> 1..N]
  <2>1. Len(e.artifacts) \in Nat
    BY ShapeParts
  <2> QED BY <1>1, <2>1, ArrangesAll
<1>3. /\ f.artifacts = [n \in 1..N |-> Turned(e, p, n)] /\ Len(f.artifacts) = N
      /\ f.outputs = [i \in 1..Len(e.outputs) |-> IF i = 1 THEN e.outputs[1] ELSE e.outputs[p[i - 1] + 1]]
      /\ f = [e EXCEPT !.artifacts = f.artifacts, !.outputs = f.outputs]
  BY <1>1, RenumberedParts
<1>4. PICK k, l : /\ k = [i \in 1..N |-> OrderKey(Referents(e), e.artifacts[i])]
                  /\ l = [i \in 1..N |-> OrderKey(Referents(f), Turned(e, p, i))]
  OBVIOUS
<1>5. ASSUME NEW i \in 1..N PROVE l[i] = k[p[i]] /\ l[i] \in Seq(Int)
  <2>1. /\ OrderKey(Referents(f), Turned(e, p, i)) = OrderKey(Referents(e), e.artifacts[p[i]])
        /\ OrderKey(Referents(e), e.artifacts[p[i]]) \in Seq(Int)
    BY <1>1, VerifiedParts, KeysStay
  <2>2. p[i] \in 1..N
    BY <1>2
  <2> QED BY <1>4, <2>1, <2>2
<1>6. k \in [1..N -> Seq(Int)] /\ l \in [1..N -> Seq(Int)]
  <2>1. \A j \in 1..N : \E i \in 1..N : p[i] = j
    BY <1>2, ArrangesAll
  <2>2. \A j \in 1..N : k[j] \in Seq(Int)
    BY <1>5, <2>1
  <2> QED BY <1>4, <1>5, <2>2
<1>7. Increasing(k)
  BY <1>1, <1>4, VerifiedParts
<1>8. Increasing(l)
  <2>1. Increasing([i \in 1..Len(f.artifacts) |-> OrderKey(Referents(f), f.artifacts[i])])
    <3>1. InventoryHolds(f)
      BY <1>1 DEF VerifyEnvelope
    <3> QED BY <3>1, Zenon DEF InventoryHolds
  <2>2. \A i \in 1..N : f.artifacts[i] = Turned(e, p, i)
    BY <1>3
  <2>3. [i \in 1..Len(f.artifacts) |-> OrderKey(Referents(f), f.artifacts[i])] = l
    BY <1>3, <1>4, <2>2
  <2> QED BY <2>1, <2>3
<1>9. \A i \in 1..N : p[i] = i
  <2>1. \A i \in 1..N : l[i] = k[p[i]]
    BY <1>5
  <2>2. /\ k \in [1..N -> Seq(Int)] /\ Increasing(k)
        /\ l \in [1..N -> Seq(Int)] /\ Increasing(l)
    BY <1>6, <1>7, <1>8
  <2>3. N \in Nat /\ p \in Orders(N)
    BY <1>2
  <2> HIDE <1>4
  <2> QED BY <2>1, <2>2, <2>3, OneIncreases
<1>10. f.artifacts = e.artifacts
  <2>1. \A n \in 1..N : Turned(e, p, n) = e.artifacts[n]
    BY <1>1, <1>9, VerifiedParts, TurnedInPlace
  <2>2. e.artifacts = [n \in 1..N |-> e.artifacts[n]]
    <3>1. e.artifacts \in Seq(Object)
      BY ShapeParts
    <3> QED BY <1>1, <3>1
  <2> QED BY <1>3, <2>1, <2>2
<1>11. f.outputs = e.outputs
  <2>1. PICK os : os = e.outputs
    OBVIOUS
  <2>2. os \in Seq(Digest) /\ Len(os) = N + 1
    <3>1. os \in Seq(Digest)
      BY <2>1 DEF Shape
    <3>2. Len(Outputs(e)) = N + 1
      <4>1. PICK s : s = e.artifacts
        OBVIOUS
      <4>2. DOMAIN s = 1..N /\ s = [i \in 1..N |-> s[i]]
        <5>1. s \in Seq(Object)
          BY <4>1, ShapeParts
        <5> QED BY <1>1, <4>1, <5>1
      <4>3. Len(<<e.primary>> \o s) = N + 1
        BY <1>2, <4>2, PutInFront
      <4> QED BY <4>1, <4>3 DEF Outputs
    <3>3. os = [i \in 1..(N + 1) |-> Outputs(e)[i].identity]
      BY <2>1, <3>2 DEF VerifyEnvelope, ProvenanceHolds
    <3> QED BY <1>2, <3>1, <3>3
  <2>3. ASSUME NEW i \in 1..Len(os)
        PROVE  (IF i = 1 THEN os[1] ELSE os[p[i - 1] + 1]) = os[i]
    <3>1. i # 1 => i - 1 \in 1..N /\ (i - 1) + 1 = i
      BY <1>2, <2>2
    <3> QED BY <1>9, <3>1
  <2>4. f.outputs = [i \in 1..Len(os) |-> os[i]]
    BY <1>3, <2>1, <2>3
  <2>5. os = [i \in 1..Len(os) |-> os[i]]
    BY <2>2
  <2> QED BY <2>1, <2>4, <2>5
<1>12. [e EXCEPT !.artifacts = e.artifacts, !.outputs = e.outputs] = e
  BY DEF Shape
<1> QED BY <1>1, <1>3, <1>10, <1>11, <1>12

-----------------------------------------------------------------------------
\* What is reloaded is what was stored, or a renumbering of it, until a field
\* is corrupted.
CustodyInv ==
    /\ original \in Envelopes
    /\ damage \in Nat
    /\ renumbered \in BOOLEAN
    /\ damage = 0 /\ ~renumbered => reloaded = original
    /\ renumbered => \E p \in Orders(Len(original.artifacts)) : reloaded = Renumbered(original, p)

\* Once a field is corrupted nothing more is said of the order.
LEMMA DamagedStays ==
    ASSUME CustodyInv, NEW n \in Nat \ {0}, NEW e, Damaged(n, e), ~renumbered
    PROVE  CustodyInv'
BY DEF CustodyInv, Damaged

\* CustodyInv holds from the start and at every step.
LEMMA CustodyInvHolds == CustodySpec => []CustodyInv
<1>1. CustodyInit => CustodyInv
  <2>1. 0 \in Nat /\ FALSE \in BOOLEAN
    OBVIOUS
  <2> QED BY <2>1 DEF CustodyInit, CustodyInv
<1>2. ASSUME CustodyInv, [CustodyNext]_custodyVars PROVE CustodyInv'
  <2>1. CASE Corrupt
    <3>1. \E e : Damaged(1, e)
      BY <2>1, Zenon DEF Corrupt, CorruptBytes, CorruptIdentity, CorruptReference
    <3>2. 1 \in Nat \ {0} /\ ~renumbered
      BY <2>1 DEF Corrupt
    <3> QED BY <1>2, <3>1, <3>2, DamagedStays
  <2>2. CASE Misplace
    <3>1. \E e : Damaged(2, e)
      BY <2>2, Zenon DEF Misplace, Lose, Repeat, Exchange, Substitute
    <3>2. 2 \in Nat \ {0} /\ ~renumbered
      BY <2>2 DEF Misplace
    <3> QED BY <1>2, <3>1, <3>2, DamagedStays
  <2>3. CASE Renumber
    BY <1>2, <2>3 DEF Renumber, CustodyInv
  <2>4. CASE UNCHANGED custodyVars
    BY <1>2, <2>4 DEF CustodyInv, custodyVars
  <2> QED BY <1>2, <2>1, <2>2, <2>3, <2>4 DEF CustodyNext, Keep
<1> QED BY <1>1, <1>2, PTL DEF CustodySpec

(* The canonical order is one: of all the ways to write the artifacts of   *)
(* an envelope down and number them consistently, at most one verifies.    *)
THEOREM OrderIsOne == CustodySpec => []OneArrangement
<1>1. CustodyInv => OneArrangement
  <2> SUFFICES ASSUME CustodyInv, renumbered, VerifyEnvelope(original), VerifyEnvelope(reloaded)
               PROVE  reloaded = original
    BY DEF OneArrangement
  <2>1. original \in Shape
    BY CustodyAssumption DEF CustodyInv
  <2>2. PICK p \in Orders(Len(original.artifacts)) : reloaded = Renumbered(original, p)
    BY DEF CustodyInv
  <2> QED BY <2>1, <2>2, NothingMoves
<1> QED BY <1>1, CustodyInvHolds, PTL

-----------------------------------------------------------------------------
(* An order that verifies.                                                 *)

\* Keys that agree everywhere are one key.
LEMMA SameKey ==
    ASSUME NEW W, NEW s \in Key(W), NEW t \in Key(W), \A i \in 1..W : s[i] = t[i]
    PROVE  s = t
<1>1. s = [i \in 1..W |-> s[i]] /\ t = [i \in 1..W |-> t[i]]
  BY DEF Key
<1>2. [i \in 1..W |-> s[i]] = [i \in 1..W |-> t[i]]
  OBVIOUS
<1> QED BY <1>1, <1>2, Zenon

\* Keys joined pairwise are told apart part by part.
LEMMA JoinsTell ==
    ASSUME NEW V \in Nat, NEW W \in Nat, NEW s \in Key(V), NEW u \in Key(V),
           NEW t \in Key(W), NEW v \in Key(W), s \o t = u \o v
    PROVE  s = u /\ t = v
<1>1. /\ s \in Seq(Int) /\ t \in Seq(Int) /\ u \in Seq(Int) /\ v \in Seq(Int)
      /\ Len(s) = V /\ Len(u) = V /\ Len(t) = W /\ Len(v) = W
  <2>1. \A U \in Nat : \A k \in Key(U) : k \in Seq(Int) /\ Len(k) = U
    BY KeysJoin DEF Key
  <2> QED BY <2>1
<1>2. PICK w : w = s \o t
  OBVIOUS
<1>3. Joins(s, t, w) /\ Joins(u, v, w)
  BY <1>1, <1>2, JoinsShow
<1>4. (\A i \in 1..V : s[i] = u[i]) /\ \A i \in 1..W : t[i] = v[i]
  BY <1>1, <1>3 DEF Joins
<1> QED BY <1>4 DEF Key

\* Keys of relations joined are found one after another.
LEMMA FlatShows ==
    ASSUME NEW N \in Nat, NEW keys \in [1..N -> Key(10)]
    PROVE  /\ Flat(keys) \in Seq(Int) /\ Len(Flat(keys)) = 10 * N
           /\ \A i \in 1..N, j \in 1..10 : Flat(keys)[10 * (i - 1) + j] = keys[i][j]
<1>1. \A i \in 1..N : keys[i] \in Seq(Int) /\ Len(keys[i]) = 10
  <2>1. \A U \in Nat : \A k \in Key(U) : k \in Seq(Int) /\ Len(k) = U
    BY KeysJoin DEF Key
  <2>2. 10 \in Nat /\ \A i \in 1..N : keys[i] \in Key(10)
    OBVIOUS
  <2> QED BY <2>1, <2>2
<1>2. keys \in Seq(Seq(Int)) /\ Len(keys) = N
  <2>1. keys = [i \in 1..N |-> keys[i]] /\ DOMAIN keys = 1..N
    OBVIOUS
  <2> QED BY <1>1, <2>1
<1>3. PICK f : /\ Flat(keys) = f[N] /\ f[0] = <<>>
               /\ \A n \in 1..N : f[n] = f[n - 1] \o keys[n]
  BY <1>2, FlatTypes
<1> DEFINE holds(n) == /\ f[n] \in Seq(Int) /\ Len(f[n]) = 10 * n
                       /\ \A i \in 1..n, j \in 1..10 : f[n][10 * (i - 1) + j] = keys[i][j]
           S == {n \in 0..N : holds(n)}
<1>4. 0 \in S
  <2>1. f[0] \in Seq(Int) /\ Len(f[0]) = 0
    BY <1>3
  <2> QED BY <2>1
<1>5. ASSUME NEW k \in 0..(N - 1), k \in S PROVE k + 1 \in S
  <2>1. k \in Nat /\ k + 1 \in 1..N /\ k + 1 \in 0..N /\ (k + 1) - 1 = k /\ holds(k)
    BY <1>5
  <2>2. PICK x, y, z : x = f[k] /\ y = keys[k + 1] /\ z = f[k + 1]
    OBVIOUS
  <2>3. x \in Seq(Int) /\ Len(x) = 10 * k /\ y \in Seq(Int) /\ Len(y) = 10
    BY <1>1, <2>1, <2>2
  <2>4. z = x \o y
    BY <1>3, <2>1, <2>2
  <2>5. z \in Seq(Int) /\ Joins(x, y, z)
    BY <2>3, <2>4, JoinsShow
  <2>6. Len(z) = 10 * (k + 1)
    BY <2>1, <2>3, <2>5 DEF Joins
  <2>7. ASSUME NEW i \in 1..(k + 1), NEW j \in 1..10
        PROVE  z[10 * (i - 1) + j] = keys[i][j]
    <3>1. CASE i = k + 1
      <4>1. PICK m, key : m = 10 * (i - 1) + j /\ key = keys[i]
        OBVIOUS
      <4>2. m = Len(x) + j /\ key = y
        BY <2>1, <2>2, <2>3, <3>1, <4>1
      <4>3. z[m] = y[j]
        BY <2>3, <2>5, <4>2 DEF Joins
      <4>4. z[m] = key[j]
        BY <4>2, <4>3
      <4> QED BY <4>1, <4>4, Zenon
    <3>2. CASE i \in 1..k
      <4>1. 10 * (i - 1) + j \in 1..Len(x)
        <5>1. PICK L : L = Len(x)
          OBVIOUS
        <5>2. L = 10 * k /\ k \in Nat
          BY <2>1, <2>3, <5>1
        <5>3. 10 * (i - 1) + j \in 1..L
          <6>1. i \in 1..k /\ j \in 1..10
            BY <3>2
          <6> QED BY <5>2, <6>1
        <5> QED BY <5>1, <5>3
      <4>2. z[10 * (i - 1) + j] = x[10 * (i - 1) + j]
        BY <2>5, <4>1 DEF Joins
      <4> QED BY <2>1, <2>2, <3>2, <4>2
    <3> QED BY <2>1, <3>1, <3>2
  <2> QED BY <2>1, <2>2, <2>5, <2>6, <2>7
<1> HIDE DEF S
<1>6. 0..N \subseteq S
  BY <1>4, <1>5, Counting
<1>7. holds(N)
  <2>1. N \in 0..N
    OBVIOUS
  <2>2. N \in S
    BY <1>6, <2>1, Zenon
  <2> HIDE DEF holds
  <2> QED BY <2>2 DEF S
<1> QED BY <1>3, <1>7

\* Order keys are told apart relation by relation.
LEMMA KeysTold ==
    \A N, M \in Nat : \A s \in [1..N -> Key(10)], t \in [1..M -> Key(10)], x, y \in Key(4) :
        Flat(s) \o x = Flat(t) \o y => N = M /\ s = t /\ x = y
<1> SUFFICES ASSUME NEW N \in Nat, NEW M \in Nat, NEW s \in [1..N -> Key(10)], NEW t \in [1..M -> Key(10)],
                    NEW x \in Key(4), NEW y \in Key(4), Flat(s) \o x = Flat(t) \o y
             PROVE  N = M /\ s = t /\ x = y
  OBVIOUS
<1>1. PICK f, g : f = Flat(s) /\ g = Flat(t)
  OBVIOUS
<1>2. /\ f \in Seq(Int) /\ Len(f) = 10 * N
      /\ \A i \in 1..N, j \in 1..10 : f[10 * (i - 1) + j] = s[i][j]
  BY <1>1, FlatShows
<1>3. /\ g \in Seq(Int) /\ Len(g) = 10 * M
      /\ \A i \in 1..M, j \in 1..10 : g[10 * (i - 1) + j] = t[i][j]
  BY <1>1, FlatShows
<1>4. x \in Seq(Int) /\ Len(x) = 4 /\ y \in Seq(Int) /\ Len(y) = 4
  <2>1. \A U \in Nat : \A k \in Key(U) : k \in Seq(Int) /\ Len(k) = U
    BY KeysJoin DEF Key
  <2> QED BY <2>1
<1>5. PICK w : w = f \o x
  OBVIOUS
<1>6. Joins(f, x, w) /\ Joins(g, y, w)
  <2>1. w = g \o y
    BY <1>1, <1>5
  <2> QED BY <1>2, <1>3, <1>4, <1>5, <2>1, JoinsShow
<1>7. N = M
  <2>1. Len(w) = 10 * N + 4 /\ Len(w) = 10 * M + 4
    BY <1>2, <1>3, <1>4, <1>6 DEF Joins
  <2> QED BY <2>1
<1>8. PICK V \in Nat : V = 10 * N /\ f \in Key(V) /\ g \in Key(V)
  <2>1. PICK V \in Nat : V = 10 * N
    OBVIOUS
  <2>2. f \in Seq(Int) /\ Len(f) = V /\ g \in Seq(Int) /\ Len(g) = V
    BY <1>2, <1>3, <1>7, <2>1
  <2>3. \A h \in Seq(Int) : Len(h) = V => h \in Key(V)
    BY DEF Key
  <2>4. f \in Key(V) /\ g \in Key(V)
    BY <2>2, <2>3, Zenon
  <2> QED BY <2>1, <2>4, Zenon
<1>9. f = g /\ x = y
  <2>1. f \o x = g \o y
    BY <1>1
  <2>2. PICK W \in Nat : W = 4
    OBVIOUS
  <2>3. x \in Key(W) /\ y \in Key(W)
    BY <2>2
  <2>4. \A a, c \in Key(V), b, d \in Key(W) : a \o b = c \o d => a = c /\ b = d
    BY JoinsTell
  <2>5. f \in Key(V) /\ g \in Key(V)
    BY <1>8
  <2>6. f \o x = g \o y => f = g /\ x = y
    BY <2>3, <2>4, <2>5
  <2> QED BY <2>1, <2>6, Zenon
<1>10. ASSUME NEW i \in 1..N PROVE s[i] = t[i]
  <2>1. s[i] \in Key(10) /\ t[i] \in Key(10)
    BY <1>7
  <2>2. \A j \in 1..10 : s[i][j] = t[i][j]
    BY <1>2, <1>3, <1>7, <1>9
  <2> QED BY <2>1, <2>2, SameKey
<1> QED BY <1>7, <1>9, <1>10

\* Lists of numbers that differ can be put in strict order.
LEMMA CanIncrease ==
    ASSUME NEW N \in Nat, NEW k \in [1..N -> Seq(Int)], \A i, j \in 1..N : k[i] = k[j] => i = j
    PROVE  \E q \in Orders(N) : Increasing([i \in 1..N |-> k[q[i]]])
<1>1. \A s, t \in Seq(Int) : s # t => Before(s, t) \/ Before(t, s)
  <2> SUFFICES ASSUME NEW s \in Seq(Int), NEW t \in Seq(Int), s # t PROVE Before(s, t) \/ Before(t, s)
    OBVIOUS
  <2>1. Len(s) \in Nat /\ Len(t) \in Nat
    OBVIOUS
  <2>2. CASE Len(s) = Len(t)
    <3>1. s \in Key(Len(s)) /\ t \in Key(Len(s))
      BY <2>2 DEF Key
    <3> QED BY <2>1, <3>1, BeforeOrders
  <2>3. CASE Len(s) # Len(t)
    BY <2>1, <2>3 DEF Before
  <2> QED BY <2>2, <2>3
<1> DEFINE R == {x \in (1..N) \X (1..N) : Before(k[x[1]], k[x[2]])}
<1>2. \A i, j \in 1..N : <<i, j>> \in R <=> Before(k[i], k[j])
  OBVIOUS
<1> HIDE DEF R
<1>3. Strict(R, 1..N)
  <2>1. \A i \in 1..N : k[i] \in Seq(Int)
    OBVIOUS
  <2>2. \A i \in 1..N : <<i, i>> \notin R
    BY <1>2, <2>1, BeforeIsStrict
  <2>3. \A i, j \in 1..N : i # j => <<i, j>> \in R \/ <<j, i>> \in R
    BY <1>1, <1>2, <2>1
  <2>4. \A i, j, l \in 1..N : <<i, j>> \in R /\ <<j, l>> \in R => <<i, l>> \in R
    <3> SUFFICES ASSUME NEW i \in 1..N, NEW j \in 1..N, NEW l \in 1..N,
                        Before(k[i], k[j]), Before(k[j], k[l])
                 PROVE  Before(k[i], k[l])
      BY <1>2
    <3> QED BY <2>1, BeforeIsStrict
  <2> QED BY <2>2, <2>3, <2>4 DEF Strict
<1>4. PICK q \in Orders(N) : \A i, j \in 1..N : i < j => <<q[i], q[j]>> \in R
  BY <1>3, CanBeArranged
<1>5. PICK l : l = [i \in 1..N |-> k[q[i]]]
  OBVIOUS
<1>6. Len(l) = N /\ \A i \in 1..N : q[i] \in 1..N /\ l[i] = k[q[i]]
  BY <1>5 DEF Orders
<1>7. \A i \in 1..(N - 1) : Before(l[i], l[i + 1])
  <2> SUFFICES ASSUME NEW i \in 1..(N - 1) PROVE Before(l[i], l[i + 1])
    OBVIOUS
  <2>1. i \in 1..N /\ i + 1 \in 1..N /\ i < i + 1
    OBVIOUS
  <2>2. <<q[i], q[i + 1]>> \in R
    BY <1>4, <2>1
  <2> QED BY <1>2, <1>6, <2>1, <2>2
<1> QED BY <1>5, <1>6, <1>7 DEF Increasing

\* The key of a relation to an artifact, part by part.
RelationKeyIs(refs, a, r) ==
    /\ RelationKey(refs, a, r)
         = (Meaning(refs, r.from) \o ReferenceKey(a)) \o <<KindRank(r.kind), r.occurrence>>
    /\ Meaning(refs, r.from) \in Key(4) /\ ReferenceKey(a) \in Key(4)
    /\ r.occurrence \in Int
    /\ RelationKey(refs, a, r) \in Key(10)

\* The keys of relations in place.
LEMMA RelationKeyParts ==
    \A e \in Shape : Placed(e) =>
        \A i \in 1..Len(e.artifacts) :
            LET a == e.artifacts[i]
            IN  \A j \in 1..Len(a.relations) : RelationKeyIs(Referents(e), a, a.relations[j])
<1> SUFFICES ASSUME NEW e \in Shape, Placed(e), NEW i \in 1..Len(e.artifacts),
                    NEW j \in 1..Len(e.artifacts[i].relations)
             PROVE  RelationKeyIs(Referents(e), e.artifacts[i], e.artifacts[i].relations[j])
  OBVIOUS
<1>0. PICK a, refs : a = e.artifacts[i] /\ refs = Referents(e) /\ j \in 1..Len(a.relations)
  OBVIOUS
<1>1. PICK r, N : r = a.relations[j] /\ N = Len(e.artifacts)
  OBVIOUS
<1>2. a \in Object /\ r \in Link /\ N \in Nat /\ a.id = ArtifactID(i) /\ i \in 1..N
  <2>1. a \in Object /\ N \in Nat /\ \A n \in 1..Len(a.relations) : a.relations[n] \in Link
    BY <1>0, <1>1, ShapeParts
  <2>2. a.id = ArtifactID(i)
    BY <1>0 DEF Placed, Numbered
  <2> QED BY <1>0, <1>1, <2>1, <2>2
<1>3. r.to = a.id /\ r.from \in Sources(e, i) /\ r.occurrence \in Int
  <2>1. \A n \in 1..Len(a.relations) : a.relations[n].to = a.id /\ a.relations[n].from \in Sources(e, i)
    BY <1>0 DEF Placed
  <2>2. r.occurrence \in Int
    BY <1>2 DEF Link
  <2> QED BY <1>0, <1>1, <2>1, <2>2
<1>4. Meaning(refs, r.from) \in Key(4) /\ r.from # ArtifactID(i)
  <2>1. PICK p : p = [n \in 1..N |-> n]
    OBVIOUS
  <2>2. p \in Orders(N) /\ p[i] = i
    BY <1>2, <2>1 DEF Orders
  <2>3. p \in Orders(Len(e.artifacts)) /\ r.from \in Sources(e, p[i]) /\ Numbered(e)
    BY <1>1, <1>3, <2>2 DEF Placed
  <2>4. Meaning(Referents(e), r.from) \in Key(4) /\ r.from # ArtifactID(p[i])
    BY <2>3, MeaningsMove
  <2> QED BY <1>0, <2>2, <2>4
<1>5. ReferenceKey(a) \in Key(4)
  BY <1>2, ReferenceKeyTypes
<1>6. Endpoint(refs, a, r.from) = Meaning(refs, r.from) /\ Endpoint(refs, a, r.to) = ReferenceKey(a)
  BY <1>2, <1>3, <1>4 DEF Endpoint
<1>7. RelationKey(refs, a, r)
        = (Meaning(refs, r.from) \o ReferenceKey(a)) \o <<KindRank(r.kind), r.occurrence>>
  BY <1>6, Zenon DEF RelationKey
<1>8. RelationKey(refs, a, r) \in Key(10)
  BY <1>3, <1>4, <1>5, <1>6, RelationKeyTypes
<1> QED BY <1>0, <1>1, <1>3, <1>4, <1>5, <1>7, <1>8, Zenon DEF RelationKeyIs

\* Relations with one key mean the same.
LEMMA RelationTold ==
    \A x, y, u, v \in Key(4) : \A k, l \in RelationKind : \A o, q \in Int :
        (x \o y) \o <<KindRank(k), o>> = (u \o v) \o <<KindRank(l), q>>
            => x = u /\ y = v /\ k = l /\ o = q
<1>0. SUFFICES ASSUME NEW x \in Key(4), NEW y \in Key(4), NEW u \in Key(4), NEW v \in Key(4),
                      NEW k \in RelationKind, NEW l \in RelationKind, NEW o \in Int, NEW q \in Int,
                      (x \o y) \o <<KindRank(k), o>> = (u \o v) \o <<KindRank(l), q>>
               PROVE  x = u /\ y = v /\ k = l /\ o = q
  OBVIOUS
<1>1. PICK W \in Nat, V \in Nat, U \in Nat : W = 4 /\ V = 8 /\ U = 2
  <2>1. 4 \in Nat /\ 8 \in Nat /\ 2 \in Nat
    OBVIOUS
  <2> QED BY <2>1
<1>2. PICK s, t : s = <<KindRank(k), o>> /\ t = <<KindRank(l), q>>
  OBVIOUS
<1>3. s \in Key(U) /\ t \in Key(U)
  BY <1>1, <1>2, RankIsInt, ShortKeys
<1>4. PICK f, g : f = x \o y /\ g = u \o v
  OBVIOUS
<1>5. f \in Key(V) /\ g \in Key(V)
  <2>1. W + W = V /\ x \in Key(W) /\ y \in Key(W) /\ u \in Key(W) /\ v \in Key(W)
    BY <1>1
  <2>2. x \o y \in Key(W + W) /\ u \o v \in Key(W + W)
    BY <2>1, KeysJoin
  <2> QED BY <1>4, <2>1, <2>2
<1>6. \A A, B \in Nat : \A a, c \in Key(A), b, d \in Key(B) : a \o b = c \o d => a = c /\ b = d
  BY JoinsTell
<1>7. f = g /\ s = t
  <2>1. f \o s = g \o t
    BY <1>0, <1>2, <1>4, Zenon
  <2>2. \A a, c \in Key(V), b, d \in Key(U) : a \o b = c \o d => a = c /\ b = d
    BY <1>6
  <2>3. \A c \in Key(V), b, d \in Key(U) : f \o b = c \o d => f = c /\ b = d
    BY <1>5, <2>2, Zenon
  <2>4. \A b, d \in Key(U) : f \o b = g \o d => f = g /\ b = d
    BY <1>5, <2>3, Zenon
  <2>5. \A d \in Key(U) : f \o s = g \o d => f = g /\ s = d
    BY <1>3, <2>4, Zenon
  <2> QED BY <1>3, <2>1, <2>5, Zenon
<1>8. x = u /\ y = v
  <2>1. x \in Key(W) /\ y \in Key(W) /\ u \in Key(W) /\ v \in Key(W)
    BY <1>1
  <2>2. x \o y = u \o v
    BY <1>4, <1>7
  <2>3. \A a, c \in Key(W), b, d \in Key(W) : a \o b = c \o d => a = c /\ b = d
    BY <1>6
  <2> QED BY <2>1, <2>2, <2>3
<1>9. KindRank(k) = KindRank(l) /\ o = q
  <2>1. s[1] = KindRank(k) /\ s[2] = o /\ t[1] = KindRank(l) /\ t[2] = q
    BY <1>2
  <2> QED BY <1>7, <2>1
<1>10. k = l
  BY <1>9 DEF KindRank, RelationKind
<1> QED BY <1>8, <1>9, <1>10

\* The order key of an artifact, part by part.
OrderKeyIs(refs, a) ==
    LET L == Len(a.relations)
        keys == RelationKeys(refs, a)
    IN  /\ L \in Nat /\ ReferenceKey(a) \in Key(4)
        /\ OrderKey(refs, a) = Flat(keys) \o ReferenceKey(a)
        /\ OrderKey(refs, a) \in Seq(Int)
        /\ keys \in [1..L -> Key(10)]
        /\ \A n \in 1..L : \E m \in 1..L : keys[n] = RelationKey(refs, a, a.relations[m])
        /\ \A m \in 1..L : \E n \in 1..L : keys[n] = RelationKey(refs, a, a.relations[m])

\* The order keys of artifacts whose relations are in place.
LEMMA OrderKeyParts ==
    \A e \in Shape : Placed(e) =>
        \A i \in 1..Len(e.artifacts) : OrderKeyIs(Referents(e), e.artifacts[i])
<1> SUFFICES ASSUME NEW e \in Shape, Placed(e), NEW i \in 1..Len(e.artifacts)
             PROVE  OrderKeyIs(Referents(e), e.artifacts[i])
  OBVIOUS
<1>0. PICK a, refs, L : a = e.artifacts[i] /\ refs = Referents(e) /\ L = Len(a.relations)
  OBVIOUS
<1>1. a \in Object /\ L \in Nat
  BY <1>0, ShapeParts
<1>2. ReferenceKey(a) \in Key(4)
  BY <1>1, ReferenceKeyTypes
<1>3. \A n \in 1..L : RelationKey(refs, a, a.relations[n]) \in Key(10)
  <2>1. \A n \in 1..L : RelationKeyIs(refs, a, a.relations[n])
    BY <1>0, RelationKeyParts
  <2> QED BY <2>1 DEF RelationKeyIs
<1>4. PICK t \in Orders(L) : /\ RelationKeys(refs, a) = [n \in 1..L |-> RelationKey(refs, a, a.relations[t[n]])]
                             /\ RelationKeys(refs, a) \in [1..L -> Key(10)]
                             /\ Monotone(RelationKeys(refs, a))
  <2>1. L = Len(a.relations)
    BY <1>0
  <2> QED BY <1>1, <1>3, <2>1, RelationKeysInOrder
<1>5. PICK keys, x : keys = RelationKeys(refs, a) /\ x = ReferenceKey(a)
  OBVIOUS
<1>6. keys \in [1..L -> Key(10)] /\ x \in Key(4)
  BY <1>2, <1>4, <1>5
<1>7. OrderKey(refs, a) = Flat(keys) \o x
  BY <1>5, OrderKeyShows
<1>8. Flat(keys) \o x \in Seq(Int)
  <2>1. Flat(keys) \in Seq(Int)
    BY <1>1, <1>6, FlatShows
  <2>2. x \in Seq(Int)
    <3>1. \A U \in Nat : \A k \in Key(U) : k \in Seq(Int)
      BY KeysJoin
    <3> QED BY <1>6, <3>1
  <2>3. \A y, z \in Seq(Int) : y \o z \in Seq(Int)
    OBVIOUS
  <2> QED BY <2>1, <2>2, <2>3
<1>9. \A n \in 1..L : keys[n] = RelationKey(refs, a, a.relations[t[n]])
  BY <1>4, <1>5
<1>10. (\A n \in 1..L : t[n] \in 1..L) /\ \A n \in 1..L : \E m \in 1..L : t[m] = n
  <2>1. t \in [1..L -> 1..L] /\ \A n \in 1..L : \E m \in 1..L : t[m] = n
    BY <1>1, ArrangesAll
  <2> QED BY <2>1
<1>11. /\ \A n \in 1..L : \E m \in 1..L : keys[n] = RelationKey(refs, a, a.relations[m])
       /\ \A m \in 1..L : \E n \in 1..L : keys[n] = RelationKey(refs, a, a.relations[m])
  <2>1. \A n \in 1..L : \E m \in 1..L : keys[n] = RelationKey(refs, a, a.relations[m])
    BY <1>9, <1>10, Zenon
  <2>2. ASSUME NEW m \in 1..L
        PROVE  \E n \in 1..L : keys[n] = RelationKey(refs, a, a.relations[m])
    <3>1. PICK n \in 1..L : t[n] = m
      BY <1>10, Zenon
    <3>2. keys[n] = RelationKey(refs, a, a.relations[m])
      BY <1>9, <3>1, Zenon
    <3> QED BY <3>2, Zenon
  <2> QED BY <2>1, <2>2, Zenon
<1>12. OrderKeyIs(refs, a)
  <2>1. Len(a.relations) \in Nat /\ ReferenceKey(a) \in Key(4)
    BY <1>0, <1>1, <1>2, Zenon
  <2>2. /\ OrderKey(refs, a) = Flat(RelationKeys(refs, a)) \o ReferenceKey(a)
        /\ OrderKey(refs, a) \in Seq(Int)
    BY <1>5, <1>7, <1>8, Zenon
  <2>3. RelationKeys(refs, a) \in [1..Len(a.relations) -> Key(10)]
    BY <1>0, <1>5, <1>6, Zenon
  <2>4. /\ \A n \in 1..Len(a.relations) : \E m \in 1..Len(a.relations) :
              RelationKeys(refs, a)[n] = RelationKey(refs, a, a.relations[m])
        /\ \A m \in 1..Len(a.relations) : \E n \in 1..Len(a.relations) :
              RelationKeys(refs, a)[n] = RelationKey(refs, a, a.relations[m])
    BY <1>0, <1>5, <1>11
  <2> QED BY <2>1, <2>2, <2>3, <2>4, Zenon DEF OrderKeyIs
<1> QED BY <1>0, <1>12, Zenon

\* What a relation says, whatever its ends are called.
Says(refs, r) == <<Meaning(refs, r.from), r.kind, r.occurrence>>

Kinds(a) == \A j \in 1..Len(a.relations) : a.relations[j].kind \in RelationKind

\* Of two artifacts with one order key, one says nothing the other does not.
SaidAlike(refs, a, b) ==
    Kinds(a) /\ Kinds(b) /\ OrderKey(refs, a) = OrderKey(refs, b)
        => /\ ReferenceKey(a) = ReferenceKey(b)
           /\ \A j \in 1..Len(a.relations) : \E m \in 1..Len(b.relations) :
                 Says(refs, a.relations[j]) = Says(refs, b.relations[m])

LEMMA SayingsTold ==
    \A e \in Shape : Placed(e) =>
        \A i, k \in 1..Len(e.artifacts) : SaidAlike(Referents(e), e.artifacts[i], e.artifacts[k])
<1> SUFFICES ASSUME NEW e \in Shape, Placed(e), NEW i \in 1..Len(e.artifacts), NEW k \in 1..Len(e.artifacts)
             PROVE  SaidAlike(Referents(e), e.artifacts[i], e.artifacts[k])
  OBVIOUS
<1>0. PICK a, b, refs : a = e.artifacts[i] /\ b = e.artifacts[k] /\ refs = Referents(e)
  OBVIOUS
<1>1. PICK L, M, f, g, x, y :
         /\ L = Len(a.relations) /\ M = Len(b.relations)
         /\ f = RelationKeys(refs, a) /\ g = RelationKeys(refs, b)
         /\ x = ReferenceKey(a) /\ y = ReferenceKey(b)
  OBVIOUS
<1>2. /\ L \in Nat /\ x \in Key(4) /\ OrderKey(refs, a) = Flat(f) \o x /\ f \in [1..L -> Key(10)]
      /\ \A m \in 1..L : \E n \in 1..L : f[n] = RelationKey(refs, a, a.relations[m])
  <2>1. OrderKeyIs(refs, a)
    BY <1>0, OrderKeyParts
  <2> QED BY <1>1, <2>1, Zenon DEF OrderKeyIs
<1>3. /\ M \in Nat /\ y \in Key(4) /\ OrderKey(refs, b) = Flat(g) \o y /\ g \in [1..M -> Key(10)]
      /\ \A n \in 1..M : \E m \in 1..M : g[n] = RelationKey(refs, b, b.relations[m])
  <2>1. OrderKeyIs(refs, b)
    BY <1>0, OrderKeyParts
  <2> QED BY <1>1, <2>1, Zenon DEF OrderKeyIs
<1>4. SUFFICES ASSUME Kinds(a), Kinds(b), OrderKey(refs, a) = OrderKey(refs, b)
               PROVE  /\ x = y
                      /\ \A j \in 1..L : \E m \in 1..M : Says(refs, a.relations[j]) = Says(refs, b.relations[m])
  <2>1. SUFFICES SaidAlike(refs, a, b)
    BY <1>0, Zenon
  <2> QED BY <1>1, Zenon DEF SaidAlike
<1>5. Flat(f) \o x = Flat(g) \o y
  BY <1>2, <1>3, <1>4, Zenon
<1>6. L = M /\ f = g /\ x = y
  <2>1. Flat(f) \o x = Flat(g) \o y => L = M /\ f = g /\ x = y
    <3>1. L \in Nat /\ M \in Nat /\ x \in Key(4) /\ y \in Key(4)
      BY <1>2, <1>3
    <3>2. f \in [1..L -> Key(10)] /\ g \in [1..M -> Key(10)]
      BY <1>2, <1>3
    <3>3. \A s \in [1..L -> Key(10)], t \in [1..M -> Key(10)], v, w \in Key(4) :
             Flat(s) \o v = Flat(t) \o w => L = M /\ s = t /\ v = w
      BY <3>1, KeysTold
    <3>4. \A v, w \in Key(4) : Flat(f) \o v = Flat(g) \o w => L = M /\ f = g /\ v = w
      BY <3>2, <3>3
    <3> QED BY <3>1, <3>4
  <2> QED BY <1>5, <2>1, Zenon
<1>7. ASSUME NEW j \in 1..L
      PROVE  \E m \in 1..M : Says(refs, a.relations[j]) = Says(refs, b.relations[m])
  <2>1. PICK n \in 1..L : f[n] = RelationKey(refs, a, a.relations[j])
    BY <1>2
  <2>2. PICK m \in 1..M : f[n] = RelationKey(refs, b, b.relations[m])
    BY <1>3, <1>6
  <2>3. PICK r, s, u, v, o, q : /\ r = a.relations[j] /\ s = b.relations[m]
                                /\ u = Meaning(refs, r.from) /\ v = Meaning(refs, s.from)
                                /\ o = r.occurrence /\ q = s.occurrence
    OBVIOUS
  <2>4. /\ RelationKey(refs, a, r) = (u \o x) \o <<KindRank(r.kind), o>>
        /\ u \in Key(4) /\ o \in Int
    <3>1. RelationKeyIs(refs, a, r)
      BY <1>0, <1>1, <2>3, RelationKeyParts
    <3> QED BY <1>1, <2>3, <3>1, Zenon DEF RelationKeyIs
  <2>5. /\ RelationKey(refs, b, s) = (v \o y) \o <<KindRank(s.kind), q>>
        /\ v \in Key(4) /\ q \in Int
    <3>1. RelationKeyIs(refs, b, s)
      BY <1>0, <1>1, <2>3, RelationKeyParts
    <3> QED BY <1>1, <2>3, <3>1, Zenon DEF RelationKeyIs
  <2>6. r.kind \in RelationKind /\ s.kind \in RelationKind
    BY <1>1, <1>4, <2>3 DEF Kinds
  <2>7. (u \o x) \o <<KindRank(r.kind), o>> = (v \o y) \o <<KindRank(s.kind), q>>
    BY <2>1, <2>2, <2>3, <2>4, <2>5, Zenon
  <2>8. u = v /\ r.kind = s.kind /\ o = q
    <3>1. (u \o x) \o <<KindRank(r.kind), o>> = (v \o y) \o <<KindRank(s.kind), q>>
             => u = v /\ x = y /\ r.kind = s.kind /\ o = q
      <4>1. u \in Key(4) /\ x \in Key(4) /\ v \in Key(4) /\ y \in Key(4) /\ o \in Int /\ q \in Int
        BY <1>2, <1>3, <2>4, <2>5, Zenon
      <4>2. \A k1, k2 \in RelationKind : \A c, d \in Int :
               (u \o x) \o <<KindRank(k1), c>> = (v \o y) \o <<KindRank(k2), d>>
                 => u = v /\ x = y /\ k1 = k2 /\ c = d
        <5>1. \A h, c, d \in Key(4) : \A k1, k2 \in RelationKind : \A m1, m2 \in Int :
                 (u \o h) \o <<KindRank(k1), m1>> = (c \o d) \o <<KindRank(k2), m2>>
                   => u = c /\ h = d /\ k1 = k2 /\ m1 = m2
          BY <4>1, RelationTold, ZenonT(30)
        <5>2. \A c, d \in Key(4) : \A k1, k2 \in RelationKind : \A m1, m2 \in Int :
                 (u \o x) \o <<KindRank(k1), m1>> = (c \o d) \o <<KindRank(k2), m2>>
                   => u = c /\ x = d /\ k1 = k2 /\ m1 = m2
          BY <4>1, <5>1, ZenonT(30)
        <5> QED BY <4>1, <5>2, ZenonT(30)
      <4>3. \A c, d \in Int :
               (u \o x) \o <<KindRank(r.kind), c>> = (v \o y) \o <<KindRank(s.kind), d>>
                 => u = v /\ x = y /\ r.kind = s.kind /\ c = d
        BY <4>2, <2>6
      <4> QED BY <4>1, <4>3
    <3> QED BY <2>7, <3>1, Zenon
  <2>9. Says(refs, r) = Says(refs, s)
    BY <2>3, <2>8, Zenon DEF Says
  <2> QED BY <2>3, <2>9
<1> QED BY <1>6, <1>7

\* The sense of an artifact is what it looks like and what its relations say.
LEMMA SenseSays ==
    ASSUME NEW refs, NEW a, a.relations \in Seq(Link)
    PROVE  Sense(refs, a) = <<ReferenceKey(a), {Says(refs, a.relations[j]) : j \in 1..Len(a.relations)}>>
<1>1. PICK rels, L : rels = a.relations /\ L = Len(rels) /\ DOMAIN rels = 1..L
  OBVIOUS
<1> DEFINE link(j) == [from |-> rels[j].from, kind |-> rels[j].kind, occurrence |-> rels[j].occurrence]
           said(l) == <<Meaning(refs, l.from), l.kind, l.occurrence>>
<1>2. Links(a) = {link(j) : j \in 1..L}
  BY <1>1, Zenon DEF Links
<1>3. ASSUME NEW j PROVE said(link(j)) = Says(refs, rels[j])
  <2>1. link(j).from = rels[j].from /\ link(j).kind = rels[j].kind /\ link(j).occurrence = rels[j].occurrence
    OBVIOUS
  <2> HIDE DEF link
  <2> QED BY <2>1, Zenon DEF Says
<1>4. Sense(refs, a) = <<ReferenceKey(a), {said(l) : l \in Links(a)}>>
  BY Zenon DEF Sense
<1> HIDE DEF link, said
<1>5. {said(l) : l \in Links(a)} = {Says(refs, rels[j]) : j \in 1..L}
  BY <1>2, <1>3
<1> QED BY <1>1, <1>4, <1>5, Zenon

\* Artifacts with one order key have one sense.
LEMMA SenseTold ==
    ASSUME NEW e \in Shape, Placed(e), NEW i \in 1..Len(e.artifacts), NEW k \in 1..Len(e.artifacts),
           Kinds(e.artifacts[i]), Kinds(e.artifacts[k]),
           OrderKey(Referents(e), e.artifacts[i]) = OrderKey(Referents(e), e.artifacts[k])
    PROVE  Sense(Referents(e), e.artifacts[i]) = Sense(Referents(e), e.artifacts[k])
<1>1. PICK a, b, refs : a = e.artifacts[i] /\ b = e.artifacts[k] /\ refs = Referents(e)
  OBVIOUS
<1>2. PICK L, M : L = Len(a.relations) /\ M = Len(b.relations)
  OBVIOUS
<1>3. /\ ReferenceKey(a) = ReferenceKey(b)
      /\ \A j \in 1..L : \E m \in 1..M : Says(refs, a.relations[j]) = Says(refs, b.relations[m])
  <2>1. SaidAlike(refs, a, b)
    BY <1>1, SayingsTold
  <2> QED BY <1>1, <1>2, <2>1 DEF SaidAlike
<1>4. \A j \in 1..M : \E m \in 1..L : Says(refs, b.relations[j]) = Says(refs, a.relations[m])
  <2>1. SaidAlike(refs, b, a)
    BY <1>1, SayingsTold
  <2> QED BY <1>1, <1>2, <2>1 DEF SaidAlike
<1>5. {Says(refs, a.relations[j]) : j \in 1..L} = {Says(refs, b.relations[j]) : j \in 1..M}
  BY <1>3, <1>4
<1>6. a.relations \in Seq(Link) /\ b.relations \in Seq(Link)
  BY <1>1, ShapeParts
<1>7. /\ Sense(refs, a) = <<ReferenceKey(a), {Says(refs, a.relations[j]) : j \in 1..L}>>
      /\ Sense(refs, b) = <<ReferenceKey(b), {Says(refs, b.relations[j]) : j \in 1..M}>>
  BY <1>2, <1>6, SenseSays
<1> QED BY <1>1, <1>3, <1>5, <1>7, Zenon

\* What a renumbered artifact keeps, and where its relations come from.
TurnedFrom(e, p, n) ==
    LET a == e.artifacts[p[n]]
        b == Turned(e, p, n)
        L == Len(a.relations)
    IN  /\ b \in Object /\ Len(b.relations) = L
        /\ b.bytes = a.bytes /\ b.look = a.look /\ b.identity = a.identity /\ b.length = a.length
        /\ \E q \in Orders(L) :
              /\ b.relations = [i \in 1..L |-> Moves(p, a.relations)[q[i]]]
              /\ Monotone([i \in 1..L |-> TextKey(Moves(p, a.relations)[q[i]])])

LEMMA TurnedHolds ==
    \A e \in Shape : Placed(e) =>
        \A p \in Orders(Len(e.artifacts)), n \in 1..Len(e.artifacts) : TurnedFrom(e, p, n)
<1> SUFFICES ASSUME NEW e \in Shape, Placed(e), NEW p \in Orders(Len(e.artifacts)), NEW n \in 1..Len(e.artifacts)
             PROVE  TurnedFrom(e, p, n)
  OBVIOUS
<1>1. PICK a, rels, ms, L, s : /\ a = e.artifacts[p[n]] /\ rels = a.relations /\ ms = Moves(p, rels)
                               /\ L = Len(rels) /\ s = SortedBy(ms, TextKey)
  OBVIOUS
<1>2. a \in Object /\ L \in Nat
  <2>1. p[n] \in 1..Len(e.artifacts)
    BY TurnedParts
  <2> QED BY <1>1, <2>1, ShapeParts
<1>3. ms \in Seq(Link) /\ Len(ms) = L
  <2>1. rels = e.artifacts[p[n]].relations
    BY <1>1
  <2>2. Moves(p, rels) \in Seq(Link) /\ Len(Moves(p, rels)) = Len(rels)
    BY <2>1, RelationsMove
  <2> QED BY <1>1, <2>2
<1>4. PICK q \in Orders(L) : /\ s = [i \in 1..L |-> ms[q[i]]]
                             /\ Monotone([i \in 1..L |-> TextKey(ms[q[i]])])
  <2> DEFINE moved(M, q) == [i \in 1..M |-> ms[q[i]]]
             keys(M, q) == [i \in 1..M |-> TextKey(ms[q[i]])]
  <2>1. \E q \in Orders(Len(ms)) : SortedBy(ms, TextKey) = moved(Len(ms), q) /\ Monotone(keys(Len(ms), q))
    BY <1>3, RelationsInOrder
  <2> HIDE DEF moved, keys
  <2>2. \E q \in Orders(Len(ms)) : s = moved(Len(ms), q) /\ Monotone(keys(Len(ms), q))
    BY <1>1, <2>1, Zenon
  <2>3. \E q \in Orders(L) : s = moved(L, q) /\ Monotone(keys(L, q))
    BY <1>3, <2>2
  <2> QED BY <2>3, Zenon DEF moved, keys
<1>5. s \in Seq(Link) /\ Len(s) = L
  <2>1. \A i \in 1..L : q[i] \in 1..L
    BY DEF Orders
  <2>2. \A i \in 1..L : ms[i] \in Link
    BY <1>3
  <2> QED BY <1>2, <1>4, <2>1, <2>2
<1>6. PICK x : x = ArtifactID(n)
  OBVIOUS
<1>7. x \in Reference
  <2>1. Len(e.artifacts) \in Nat
    BY ShapeParts
  <2> QED BY <1>6, <2>1 DEF ArtifactID, Reference
<1>8. PICK b : b = [a EXCEPT !.id = x, !.relations = s]
  OBVIOUS
<1>9. /\ b \in Object /\ b.relations = s
      /\ b.bytes = a.bytes /\ b.look = a.look /\ b.identity = a.identity /\ b.length = a.length
  BY <1>2, <1>5, <1>7, <1>8 DEF Object
<1>10. Turned(e, p, n) = b
  BY <1>1, <1>6, <1>8, Zenon DEF Turned
<1>11. \E r \in Orders(L) : /\ b.relations = [i \in 1..L |-> Moves(p, a.relations)[r[i]]]
                            /\ Monotone([i \in 1..L |-> TextKey(Moves(p, a.relations)[r[i]])])
  <2>1. ms = Moves(p, a.relations)
    BY <1>1
  <2> QED BY <1>4, <1>9, <2>1
<1>12. L = Len(a.relations) /\ Len(b.relations) = L
  BY <1>1, <1>5, <1>9
<1> QED BY <1>1, <1>9, <1>10, <1>11, <1>12, Zenon DEF TurnedFrom

\* References with one text are one reference.
LEMMA TextualTold ==
    \A x, y \in Reference : Textual(x) \in Key(3) /\ (Textual(x) = Textual(y) => x = y)
<1> SUFFICES ASSUME NEW x \in Reference, NEW y \in Reference
             PROVE  Textual(x) \in Key(3) /\ (Textual(x) = Textual(y) => x = y)
  OBVIOUS
<1>1. \A d \in Digest : d[1] = "sha256" /\ d[2] \in Int /\ d[3] \in Int /\ d = <<"sha256", d[2], d[3]>>
  BY DEF Digest
<1>2. \A d \in {"artifact"} \X Nat : d[1] = "artifact" /\ d[2] \in Int /\ d = <<"artifact", d[2]>>
  OBVIOUS
<1>3. \A d \in Digest : Textual(d) = <<1, d[2], d[3]>>
  BY <1>1 DEF Textual
<1>4. \A d \in {"artifact"} \X Nat : Textual(d) = <<0, d[2], 0>>
  BY <1>2 DEF Textual
<1>5. \A a, b, c \in Int : <<a, b, c>> \in Key(3)
  BY ShortKeys
<1>6. 0 \in Int /\ 1 \in Int
  OBVIOUS
<1>7. \A d \in Reference : Textual(d) \in Key(3)
  <2> SUFFICES ASSUME NEW d \in Reference PROVE Textual(d) \in Key(3)
    OBVIOUS
  <2>1. CASE d \in Digest
    <3>1. d[2] \in Int /\ d[3] \in Int
      BY <1>1, <2>1, Zenon
    <3>2. <<1, d[2], d[3]>> \in Key(3)
      BY <1>5, <1>6, <3>1, Zenon
    <3> QED BY <1>3, <2>1, <3>2, Zenon
  <2>2. CASE d \in {"artifact"} \X Nat
    <3>1. d[2] \in Int
      BY <1>2, <2>2, Zenon
    <3>2. <<0, d[2], 0>> \in Key(3)
      BY <1>5, <1>6, <3>1, Zenon
    <3> QED BY <1>4, <2>2, <3>2, Zenon
  <2> QED BY <2>1, <2>2 DEF Reference
<1>8. ASSUME Textual(x) = Textual(y) PROVE x = y
  <2>1. CASE x \in Digest /\ y \in Digest
    <3>1. <<1, x[2], x[3]>> = <<1, y[2], y[3]>>
      BY <1>3, <1>8, <2>1
    <3>2. x[2] = y[2] /\ x[3] = y[3]
      BY <3>1
    <3> QED BY <1>1, <2>1, <3>2, Zenon
  <2>2. CASE x \in {"artifact"} \X Nat /\ y \in {"artifact"} \X Nat
    <3>1. <<0, x[2], 0>> = <<0, y[2], 0>>
      BY <1>4, <1>8, <2>2
    <3>2. x[2] = y[2]
      BY <3>1
    <3> QED BY <1>2, <2>2, <3>2, Zenon
  <2>3. \A d \in Digest, a \in {"artifact"} \X Nat : Textual(d) # Textual(a)
    <3> SUFFICES ASSUME NEW d \in Digest, NEW a \in {"artifact"} \X Nat, Textual(d) = Textual(a) PROVE FALSE
      OBVIOUS
    <3>1. <<1, d[2], d[3]>> = <<0, a[2], 0>>
      BY <1>3, <1>4
    <3> QED BY <3>1
  <2>4. CASE x \in Digest /\ y \in {"artifact"} \X Nat
    BY <1>8, <2>3, <2>4, Zenon
  <2>5. CASE y \in Digest /\ x \in {"artifact"} \X Nat
    BY <1>8, <2>3, <2>5, Zenon
  <2> QED BY <2>1, <2>2, <2>4, <2>5 DEF Reference
<1> QED BY <1>7, <1>8

\* Relations with one text have the same ends, rank and occurrence.
LEMMA TextTold ==
    \A r, s \in Link : TextKey(r) = TextKey(s)
        => r.from = s.from /\ r.to = s.to /\ KindRank(r.kind) = KindRank(s.kind) /\ r.occurrence = s.occurrence
<1> SUFFICES ASSUME NEW r \in Link, NEW s \in Link, TextKey(r) = TextKey(s)
             PROVE  /\ r.from = s.from /\ r.to = s.to
                    /\ KindRank(r.kind) = KindRank(s.kind) /\ r.occurrence = s.occurrence
  OBVIOUS
<1>1. /\ r.from \in Reference /\ r.to \in Reference /\ r.occurrence \in Int
      /\ s.from \in Reference /\ s.to \in Reference /\ s.occurrence \in Int
  BY DEF Link
<1>2. PICK x, y, z : x = Textual(r.from) /\ y = Textual(r.to) /\ z = <<KindRank(r.kind), r.occurrence>>
  OBVIOUS
<1>3. PICK u, v, w : u = Textual(s.from) /\ v = Textual(s.to) /\ w = <<KindRank(s.kind), s.occurrence>>
  OBVIOUS
<1>4. PICK W \in Nat, V \in Nat, U \in Nat : W = 3 /\ V = 6 /\ U = 2
  <2>1. 3 \in Nat /\ 6 \in Nat /\ 2 \in Nat
    OBVIOUS
  <2> QED BY <2>1
<1>5. x \in Key(W) /\ y \in Key(W) /\ u \in Key(W) /\ v \in Key(W)
  BY <1>1, <1>2, <1>3, <1>4, TextualTold
<1>6. z \in Key(U) /\ w \in Key(U)
  BY <1>1, <1>2, <1>3, <1>4, RankIsInt, ShortKeys
<1>7. PICK f, g : f = x \o y /\ g = u \o v
  OBVIOUS
<1>8. f \in Key(V) /\ g \in Key(V)
  <2>1. W + W = V
    BY <1>4
  <2>2. x \o y \in Key(W + W) /\ u \o v \in Key(W + W)
    BY <1>5, KeysJoin
  <2> QED BY <1>7, <2>1, <2>2
<1>9. \A A, B \in Nat : \A a, c \in Key(A), b, d \in Key(B) : a \o b = c \o d => a = c /\ b = d
  BY JoinsTell
<1>10. f = g /\ z = w
  <2>1. f \o z = g \o w
    BY <1>2, <1>3, <1>7, Zenon DEF TextKey
  <2>2. \A a, c \in Key(V), b, d \in Key(U) : a \o b = c \o d => a = c /\ b = d
    BY <1>9
  <2>3. \A c \in Key(V), b, d \in Key(U) : f \o b = c \o d => f = c /\ b = d
    BY <1>8, <2>2, Zenon
  <2>4. \A b, d \in Key(U) : f \o b = g \o d => f = g /\ b = d
    BY <1>8, <2>3, Zenon
  <2>5. \A d \in Key(U) : f \o z = g \o d => f = g /\ z = d
    BY <1>6, <2>4, Zenon
  <2> QED BY <1>6, <2>1, <2>5, Zenon
<1>11. x = u /\ y = v
  <2>1. x \o y = u \o v
    BY <1>7, <1>10
  <2>2. \A a, c \in Key(W), b, d \in Key(W) : a \o b = c \o d => a = c /\ b = d
    BY <1>9
  <2> QED BY <1>5, <2>1, <2>2
<1>12. r.from = s.from /\ r.to = s.to
  BY <1>1, <1>2, <1>3, <1>11, TextualTold, Zenon
<1>13. KindRank(r.kind) = KindRank(s.kind) /\ r.occurrence = s.occurrence
  <2>1. /\ z[1] = KindRank(r.kind) /\ z[2] = r.occurrence
        /\ w[1] = KindRank(s.kind) /\ w[2] = s.occurrence
    BY <1>2, <1>3
  <2> QED BY <1>10, <2>1
<1> QED BY <1>12, <1>13

\* Different references stay different.
LEMMA MovedApart ==
    \A e \in Shape : Numbered(e) =>
        \A p \in Orders(Len(e.artifacts)), n \in 1..Len(e.artifacts) :
            \A x, y \in Sources(e, p[n]) : Moved(p, x) = Moved(p, y) => x = y
<1> SUFFICES ASSUME NEW e \in Shape, Numbered(e), NEW p \in Orders(Len(e.artifacts)),
                    NEW n \in 1..Len(e.artifacts), NEW x \in Sources(e, p[n]), NEW y \in Sources(e, p[n]),
                    Moved(p, x) = Moved(p, y)
             PROVE  x = y
  OBVIOUS
<1>1. PICK N, d : N = Len(e.artifacts) /\ d = e.source.identity
  OBVIOUS
<1>2. N \in Nat /\ d \in Digest
  BY <1>1 DEF Numbered
<1>3. /\ Moved(p, d) = d /\ Moved(p, ArtifactID(0)) = ArtifactID(0)
      /\ \A i \in 1..N : Moved(p, ArtifactID(p[i])) = ArtifactID(i)
  BY <1>1, <1>2, MovedTo
<1>4. \A k \in 1..N : \E i \in 1..N : p[i] = k
  BY <1>1, <1>2, ArrangesAll
<1>5. /\ \A i : ArtifactID(i) # d
      /\ \A i, j : ArtifactID(i) = ArtifactID(j) => i = j
  BY <1>2, KindsApart
<1> DEFINE at(i) == IF i = 0 THEN ArtifactID(0) ELSE ArtifactID(p[i])
<1>6. \A z \in Sources(e, p[n]) : z = d \/ \E i \in 0..N : z = at(i)
  <2> SUFFICES ASSUME NEW z \in Sources(e, p[n]), z # d PROVE \E i \in 0..N : z = at(i)
    OBVIOUS
  <2>1. PICK m \in 0..N : z = ArtifactID(m)
    BY <1>1 DEF Sources
  <2>2. CASE m = 0
    BY <1>2, <2>1, <2>2
  <2>3. CASE m # 0
    <3>1. m \in 1..N
      BY <2>3
    <3>2. PICK i \in 1..N : p[i] = m
      BY <1>4, <3>1
    <3>3. i \in 0..N /\ i # 0
      OBVIOUS
    <3> QED BY <2>1, <3>2, <3>3
  <2> QED BY <2>2, <2>3
<1>7. \A i \in 0..N : Moved(p, at(i)) = ArtifactID(i)
  <2>1. \A i \in 0..N : i # 0 => i \in 1..N
    BY <1>2
  <2> QED BY <1>3, <2>1
<1> HIDE DEF at
<1>8. \A z \in Sources(e, p[n]) : Moved(p, z) = d => z = d
  <2> SUFFICES ASSUME NEW z \in Sources(e, p[n]), Moved(p, z) = d, z # d PROVE FALSE
    OBVIOUS
  <2>1. PICK i \in 0..N : z = at(i)
    BY <1>6
  <2>2. Moved(p, z) = ArtifactID(i)
    BY <1>7, <2>1
  <2> QED BY <1>5, <2>2
<1>9. CASE x = d
  BY <1>3, <1>8, <1>9
<1>10. CASE y = d
  BY <1>3, <1>8, <1>10
<1>11. CASE x # d /\ y # d
  <2>1. PICK i \in 0..N, j \in 0..N : x = at(i) /\ y = at(j)
    BY <1>6, <1>11
  <2>2. i = j
    BY <1>5, <1>7, <2>1
  <2> QED BY <2>1, <2>2
<1> QED BY <1>9, <1>10, <1>11

\* What is referred to stays something of the envelope.
LEMMA MovedWithin ==
    \A e \in Shape : Numbered(e) =>
        \A p \in Orders(Len(e.artifacts)), n \in 1..Len(e.artifacts) :
            \A x \in Sources(e, p[n]) : Moved(p, x) \in Identifiers(e) \ {ArtifactID(n)}
<1> SUFFICES ASSUME NEW e \in Shape, Numbered(e), NEW p \in Orders(Len(e.artifacts)),
                    NEW n \in 1..Len(e.artifacts), NEW x \in Sources(e, p[n])
             PROVE  Moved(p, x) \in Identifiers(e) \ {ArtifactID(n)}
  OBVIOUS
<1>1. PICK N, d : N = Len(e.artifacts) /\ d = e.source.identity
  OBVIOUS
<1>2. N \in Nat /\ d \in Digest
  BY <1>1 DEF Numbered
<1>3. /\ Moved(p, d) = d /\ Moved(p, ArtifactID(0)) = ArtifactID(0)
      /\ \A i \in 1..N : Moved(p, ArtifactID(p[i])) = ArtifactID(i)
  BY <1>1, <1>2, MovedTo
<1>4. \A k \in 1..N : \E i \in 1..N : p[i] = k
  BY <1>1, <1>2, ArrangesAll
<1>5. Identifiers(e) = {d} \cup {ArtifactID(k) : k \in 0..N}
  BY <1>1, ShapeParts, NumberedIdentifiers
<1>6. Moved(p, x) # ArtifactID(n)
  BY MeaningsMove
<1>7. Moved(p, x) \in {d} \cup {ArtifactID(k) : k \in 0..N}
  <2>1. CASE x = d
    BY <1>3, <2>1
  <2>2. CASE x # d
    <3>1. PICK m \in 0..N : x = ArtifactID(m)
      BY <1>1, <2>2 DEF Sources
    <3>2. CASE m = 0
      <4>1. Moved(p, x) = ArtifactID(m)
        BY <1>3, <3>1, <3>2
      <4> QED BY <4>1
    <3>3. CASE m # 0
      <4>1. m \in 1..N
        BY <3>3
      <4>2. PICK i \in 1..N : p[i] = m
        BY <1>4, <4>1
      <4>3. i \in 0..N /\ Moved(p, x) = ArtifactID(i)
        BY <1>3, <3>1, <4>2
      <4> QED BY <4>3
    <3> QED BY <3>2, <3>3
  <2> QED BY <2>1, <2>2
<1> QED BY <1>5, <1>6, <1>7

\* The moved relations of an artifact are in strict order again.
LEMMA TurnedIncreases ==
    \A e \in Shape : Placed(e) =>
        \A p \in Orders(Len(e.artifacts)), n \in 1..Len(e.artifacts) :
            LET b == Turned(e, p, n)
            IN  Increasing([i \in 1..Len(b.relations) |-> TextKey(b.relations[i])])
<1> SUFFICES ASSUME NEW e \in Shape, Placed(e), NEW p \in Orders(Len(e.artifacts)), NEW n \in 1..Len(e.artifacts)
             PROVE  LET b == Turned(e, p, n)
                    IN  Increasing([i \in 1..Len(b.relations) |-> TextKey(b.relations[i])])
  OBVIOUS
<1>1. PICK a, b, rels, ms, L : /\ a = e.artifacts[p[n]] /\ b = Turned(e, p, n)
                               /\ rels = a.relations /\ ms = Moves(p, rels) /\ L = Len(rels)
  OBVIOUS
<1>2. PICK q \in Orders(L) : /\ b.relations = [i \in 1..L |-> ms[q[i]]] /\ Len(b.relations) = L
                             /\ Monotone([i \in 1..L |-> TextKey(ms[q[i]])])
  <2>1. TurnedFrom(e, p, n)
    BY TurnedHolds
  <2> QED BY <1>1, <2>1, Zenon DEF TurnedFrom
<1>3. /\ L \in Nat /\ ms \in Seq(Link) /\ Len(ms) = L
      /\ \A i \in 1..L : /\ ms[i].from = Moved(p, rels[i].from)
                         /\ ms[i].kind = rels[i].kind /\ ms[i].occurrence = rels[i].occurrence
                         /\ rels[i].from \in Sources(e, p[n]) /\ rels[i].to = ArtifactID(p[n])
                         /\ rels[i] \in Link
  <2>1. rels = e.artifacts[p[n]].relations
    BY <1>1
  <2>2. /\ Moves(p, rels) \in Seq(Link) /\ Len(Moves(p, rels)) = Len(rels)
        /\ \A i \in 1..Len(rels) :
              /\ Moves(p, rels)[i].from = Moved(p, rels[i].from)
              /\ Moves(p, rels)[i].to = ArtifactID(n)
              /\ Moves(p, rels)[i].kind = rels[i].kind
              /\ Moves(p, rels)[i].occurrence = rels[i].occurrence
              /\ rels[i].from \in Sources(e, p[n]) /\ rels[i].to = ArtifactID(p[n])
    BY <2>1, RelationsMove
  <2>3. L \in Nat /\ \A i \in 1..L : rels[i] \in Link
    <3>1. p[n] \in 1..Len(e.artifacts)
      BY TurnedParts
    <3>2. /\ e.artifacts[p[n]].relations \in Seq(Link) /\ Len(e.artifacts[p[n]].relations) \in Nat
          /\ \A i \in 1..Len(e.artifacts[p[n]].relations) : e.artifacts[p[n]].relations[i] \in Link
      BY <3>1, ShapeParts
    <3> QED BY <1>1, <3>2, Zenon
  <2> QED BY <1>1, <2>2, <2>3, Zenon
<1>4. \A i \in 1..L : q[i] \in 1..L
  BY DEF Orders
<1>5. \A i, j \in 1..L : q[i] = q[j] => i = j
  BY DEF Orders
<1>6. PICK k : k = [i \in 1..L |-> TextKey(ms[q[i]])]
  OBVIOUS
<1>7. PICK t : t = [i \in 1..L |-> TextKey(rels[i])]
  OBVIOUS
<1>8. PICK W \in Nat : W = 8
  <2>1. 8 \in Nat
    OBVIOUS
  <2> QED BY <2>1
<1>9. k \in [1..L -> Key(W)] /\ t \in [1..L -> Key(W)]
  <2>1. \A r \in Link : TextKey(r) \in Key(W)
    BY <1>8, TextKeyTypes
  <2>2. \A i \in 1..L : ms[q[i]] \in Link /\ rels[i] \in Link
    BY <1>3, <1>4
  <2> QED BY <1>6, <1>7, <2>1, <2>2
<1>10. \A i, j \in 1..L : t[i] = t[j] => i = j
  <2>1. Increasing(t)
    <3>1. p[n] \in 1..Len(e.artifacts)
      BY TurnedParts
    <3>2. Increasing([j \in 1..Len(a.relations) |-> TextKey(a.relations[j])])
      BY <1>1, <3>1, Zenon DEF Placed
    <3> QED BY <1>1, <1>7, <3>2, Zenon
  <2>2. L \in Nat /\ t \in [1..L -> Key(W)]
    BY <1>3, <1>9
  <2>3. Increasing(t) => \A i, j \in 1..L : t[i] = t[j] => i = j
    BY <2>2, IncreasingKeys
  <2> QED BY <2>1, <2>3
<1>11. \A i, j \in 1..L : k[i] = k[j] => i = j
  <2> SUFFICES ASSUME NEW i \in 1..L, NEW j \in 1..L, k[i] = k[j] PROVE i = j
    OBVIOUS
  <2>1. PICK x, y, r, s : x = ms[q[i]] /\ y = ms[q[j]] /\ r = rels[q[i]] /\ s = rels[q[j]]
    OBVIOUS
  <2>2. q[i] \in 1..L /\ q[j] \in 1..L
    BY <1>4
  <2>3. x \in Link /\ y \in Link /\ TextKey(x) = TextKey(y)
    BY <1>3, <1>6, <2>1, <2>2
  <2>4. x.from = y.from /\ KindRank(x.kind) = KindRank(y.kind) /\ x.occurrence = y.occurrence
    BY <2>3, TextTold
  <2>5. /\ x.from = Moved(p, r.from) /\ x.kind = r.kind /\ x.occurrence = r.occurrence
        /\ y.from = Moved(p, s.from) /\ y.kind = s.kind /\ y.occurrence = s.occurrence
        /\ r.from \in Sources(e, p[n]) /\ s.from \in Sources(e, p[n]) /\ r.to = s.to
    BY <1>3, <2>1, <2>2
  <2>6. r.from = s.from
    <3>1. Moved(p, r.from) = Moved(p, s.from)
      BY <2>4, <2>5, Zenon
    <3>2. Numbered(e)
      BY DEF Placed
    <3> QED BY <2>5, <3>1, <3>2, MovedApart
  <2>7. TextKey(r) = TextKey(s)
    BY <2>4, <2>5, <2>6, Zenon DEF TextKey
  <2>8. t[q[i]] = t[q[j]]
    BY <1>7, <2>1, <2>2, <2>7
  <2> QED BY <1>5, <1>10, <2>2, <2>8
<1>12. Increasing(k)
  <2>1. Monotone(k)
    BY <1>2, <1>6
  <2> QED BY <1>3, <1>9, <1>11, <2>1, IncreasingKeys
<1>13. [i \in 1..Len(b.relations) |-> TextKey(b.relations[i])] = k
  <2>1. \A i \in 1..L : b.relations[i] = ms[q[i]]
    BY <1>2
  <2> QED BY <1>2, <1>6, <2>1
<1> QED BY <1>1, <1>12, <1>13, Zenon

\* They hold where they are.
LEMMA TurnedRelations ==
    \A e \in Shape : Placed(e) =>
        \A p \in Orders(Len(e.artifacts)), n \in 1..Len(e.artifacts) : \A f :
            RelationsHold(e, e.artifacts[p[n]]) /\ Identifiers(f) = Identifiers(e)
                => RelationsHold(f, Turned(e, p, n))
<1> SUFFICES ASSUME NEW e \in Shape, Placed(e), NEW p \in Orders(Len(e.artifacts)),
                    NEW n \in 1..Len(e.artifacts), NEW f,
                    RelationsHold(e, e.artifacts[p[n]]), Identifiers(f) = Identifiers(e)
             PROVE  RelationsHold(f, Turned(e, p, n))
  OBVIOUS
<1>1. PICK a, b, rels, ms, L : /\ a = e.artifacts[p[n]] /\ b = Turned(e, p, n)
                               /\ rels = a.relations /\ ms = Moves(p, rels) /\ L = Len(rels)
  OBVIOUS
<1>2. PICK q \in Orders(L) : b.relations = [i \in 1..L |-> ms[q[i]]] /\ Len(b.relations) = L
  <2>1. TurnedFrom(e, p, n)
    BY TurnedHolds
  <2> QED BY <1>1, <2>1, Zenon DEF TurnedFrom
<1>3. /\ L \in Nat /\ rels \in Seq(Link)
      /\ \A i \in 1..L : /\ ms[i].from = Moved(p, rels[i].from) /\ ms[i].to = ArtifactID(n)
                         /\ ms[i].kind = rels[i].kind /\ ms[i].occurrence = rels[i].occurrence
                         /\ rels[i].from \in Sources(e, p[n])
  <2>1. rels = e.artifacts[p[n]].relations
    BY <1>1
  <2>2. \A i \in 1..Len(rels) :
              /\ Moves(p, rels)[i].from = Moved(p, rels[i].from)
              /\ Moves(p, rels)[i].to = ArtifactID(n)
              /\ Moves(p, rels)[i].kind = rels[i].kind
              /\ Moves(p, rels)[i].occurrence = rels[i].occurrence
              /\ rels[i].from \in Sources(e, p[n])
    BY <2>1, RelationsMove
  <2>3. L \in Nat /\ rels \in Seq(Link)
    <3>1. p[n] \in 1..Len(e.artifacts)
      BY TurnedParts
    <3> QED BY <1>1, <3>1, ShapeParts
  <2> QED BY <1>1, <2>2, <2>3, Zenon
<1>4. \A i \in 1..L : q[i] \in 1..L
  BY DEF Orders
<1>5. DOMAIN b.relations = 1..L /\ \A i \in 1..L : b.relations[i] = ms[q[i]]
  BY <1>2
<1>6. /\ rels # <<>>
      /\ \A i \in 1..L : rels[i].kind \in RelationKind /\ rels[i].occurrence \notin UnsafeLabels
  <2>1. RelationsHold(e, a) /\ DOMAIN rels = 1..L
    <3>1. RelationsHold(e, a)
      BY <1>1, Zenon
    <3>2. rels \in Seq(Link) /\ L = Len(rels)
      BY <1>1, <1>3, Zenon
    <3>3. DOMAIN rels = 1..L
      BY <3>2
    <3> QED BY <3>1, <3>3, Zenon
  <2>2. a.relations # <<>> /\ \A i \in DOMAIN a.relations : a.relations[i].kind \in RelationKind
                                       /\ a.relations[i].occurrence \notin UnsafeLabels
    BY <2>1, Zenon DEF RelationsHold
  <2>3. rels # <<>> /\ \A i \in DOMAIN rels : rels[i].kind \in RelationKind
                                        /\ rels[i].occurrence \notin UnsafeLabels
    BY <1>1, <2>2, Zenon
  <2>4. rels # <<>>
    BY <2>3, Zenon
  <2>5. ASSUME NEW i \in 1..L
        PROVE  rels[i].kind \in RelationKind /\ rels[i].occurrence \notin UnsafeLabels
    <3>1. DOMAIN rels = 1..L
      BY <2>1, Zenon
    <3>2. i \in DOMAIN rels
      BY <3>1, Zenon
    <3> QED BY <2>3, <3>2, Zenon
  <2> QED BY <2>4, <2>5, Zenon
<1>7. b.relations # <<>>
  <2>1. L # 0
    <3>1. rels \in Seq(Link) /\ L = Len(rels) /\ rels # <<>>
      BY <1>1, <1>3, <1>6, Zenon
    <3> QED BY <3>1
  <2>2. Len(<<>>) = 0
    OBVIOUS
  <2> QED BY <1>2, <2>1, <2>2, Zenon
<1>8. b.id = ArtifactID(n)
  BY <1>1, TurnedParts
<1>9. ASSUME NEW i \in DOMAIN b.relations
      PROVE  /\ b.relations[i].kind \in RelationKind
             /\ b.relations[i].from \in Identifiers(f) \ {b.id}
             /\ b.relations[i].to = b.id
             /\ b.relations[i].occurrence \notin UnsafeLabels
  <2>1. PICK m : m = q[i] /\ m \in 1..L /\ b.relations[i] = ms[m]
    BY <1>4, <1>5
  <2>2. Moved(p, rels[m].from) \in Identifiers(e) \ {ArtifactID(n)}
    <3>1. rels[m].from \in Sources(e, p[n]) /\ Numbered(e)
      BY <1>3, <2>1 DEF Placed
    <3> QED BY <3>1, MovedWithin
  <2> QED BY <1>3, <1>6, <1>8, <2>1, <2>2
<1>10. Increasing([i \in 1..Len(b.relations) |-> TextKey(b.relations[i])])
  BY <1>1, TurnedIncreases, Zenon
<1>11. RelationsHold(f, b)
  BY <1>7, <1>9, <1>10, Zenon DEF RelationsHold
<1> QED BY <1>1, <1>11

\* What renumbering makes of an envelope, and what it leaves.
RenumberedFrom(e, p, f) ==
    LET N == Len(e.artifacts)
    IN  /\ N \in Nat /\ f = Renumbered(e, p)
        /\ f.source = e.source /\ f.primary = e.primary /\ f.artifacts \in Seq(Object)
        /\ Len(f.artifacts) = N /\ DOMAIN f.artifacts = 1..N
        /\ \A n \in 1..N : /\ f.artifacts[n] = Turned(e, p, n)
                           /\ f.artifacts[n].id = ArtifactID(n)
                           /\ p[n] \in 1..N
                           /\ TurnedFrom(e, p, n)
        /\ Numbered(f) /\ Identifiers(f) = Identifiers(e)

LEMMA RenumberedHolds ==
    \A e \in Shape : Placed(e) => \A p \in Orders(Len(e.artifacts)) : RenumberedFrom(e, p, Renumbered(e, p))
<1> SUFFICES ASSUME NEW e \in Shape, Placed(e), NEW p \in Orders(Len(e.artifacts))
             PROVE  RenumberedFrom(e, p, Renumbered(e, p))
  OBVIOUS
<1>1. PICK N, f : N = Len(e.artifacts) /\ f = Renumbered(e, p)
  OBVIOUS
<1>2. /\ f.source = e.source /\ f.primary = e.primary
      /\ f.artifacts = [n \in 1..N |-> Turned(e, p, n)] /\ Len(f.artifacts) = N
  BY <1>1, RenumberedParts
<1>3. N \in Nat /\ Numbered(e)
  BY <1>1, ShapeParts DEF Placed
<1>4. \A n \in 1..N : /\ TurnedFrom(e, p, n) /\ p[n] \in 1..N /\ Turned(e, p, n).id = ArtifactID(n)
  BY <1>1, TurnedHolds, TurnedParts
<1>5. \A n \in 1..N : Turned(e, p, n) \in Object
  BY <1>4 DEF TurnedFrom
<1>6. f.artifacts \in Seq(Object) /\ DOMAIN f.artifacts = 1..N
  BY <1>2, <1>3, <1>5
<1>7. \A n \in 1..N : f.artifacts[n] = Turned(e, p, n)
  BY <1>2
<1>8. Numbered(f)
  BY <1>2, <1>3, <1>4, <1>7 DEF Numbered
<1>9. Identifiers(f) = Identifiers(e)
  <2>1. Identifiers(e) = {e.source.identity} \cup {ArtifactID(n) : n \in 0..N}
    BY <1>1, <1>3, ShapeParts, NumberedIdentifiers
  <2>2. Identifiers(f) = {f.source.identity} \cup {ArtifactID(n) : n \in 0..Len(f.artifacts)}
    BY <1>6, <1>8, NumberedIdentifiers
  <2> QED BY <1>2, <2>1, <2>2
<1>10. \A n \in 1..N : /\ f.artifacts[n] = Turned(e, p, n) /\ f.artifacts[n].id = ArtifactID(n)
                       /\ p[n] \in 1..N /\ TurnedFrom(e, p, n)
  BY <1>4, <1>7
<1> QED BY <1>1, <1>2, <1>3, <1>6, <1>8, <1>9, <1>10, Zenon DEF RenumberedFrom

\* The referents of an envelope, one by one.
ReferentsAre(e, N, refs) ==
    /\ DOMAIN refs = 1..(N + 2)
    /\ refs[1].id = e.source.identity /\ refs[1].key = SourceKey
    /\ refs[2].id = ArtifactID(0) /\ refs[2].key = PrimaryKey
    /\ \A i \in 3..(N + 2) : refs[i].id = ArtifactID(i - 2) /\ refs[i].key = ReferenceKey(e.artifacts[i - 2])
    /\ \A i, j \in DOMAIN refs : refs[i].id = refs[j].id => i = j

LEMMA ReferentsShow == \A e : Numbered(e) => ReferentsAre(e, Len(e.artifacts), Referents(e))
<1> SUFFICES ASSUME NEW e, Numbered(e) PROVE ReferentsAre(e, Len(e.artifacts), Referents(e))
  OBVIOUS
<1>1. PICK N, refs : N = Len(e.artifacts) /\ refs = Referents(e)
  OBVIOUS
<1>2. ReferentsAre(e, N, refs)
  BY <1>1, NumberedReferents DEF ReferentsAre
<1> QED BY <1>1, <1>2

\* A reference that resolves still does.
LEMMA ResolvesMove ==
    \A e \in Shape : Placed(e) =>
        \A p \in Orders(Len(e.artifacts)), n \in 1..Len(e.artifacts) : \A id \in Sources(e, p[n]) :
            Resolves(Referents(e), id) => Resolves(Referents(Renumbered(e, p)), Moved(p, id))
<1> SUFFICES ASSUME NEW e \in Shape, Placed(e), NEW p \in Orders(Len(e.artifacts)),
                    NEW n \in 1..Len(e.artifacts), NEW id \in Sources(e, p[n]), Resolves(Referents(e), id)
             PROVE  Resolves(Referents(Renumbered(e, p)), Moved(p, id))
  OBVIOUS
<1>1. PICK N, f, d : N = Len(e.artifacts) /\ f = Renumbered(e, p) /\ d = e.source.identity
  OBVIOUS
<1>2. RenumberedFrom(e, p, f)
  BY <1>1, RenumberedHolds
<1>3. /\ N \in Nat /\ Numbered(f) /\ Len(f.artifacts) = N /\ f.source = e.source
      /\ \A i \in 1..N : p[i] \in 1..N /\ ReferenceKey(f.artifacts[i]) = ReferenceKey(e.artifacts[p[i]])
  <2>1. /\ N \in Nat /\ Numbered(f) /\ Len(f.artifacts) = N /\ f.source = e.source
        /\ \A i \in 1..N : f.artifacts[i] = Turned(e, p, i)
    BY <1>1, <1>2, Zenon DEF RenumberedFrom
  <2>2. \A i \in 1..N : p[i] \in 1..N /\ ReferenceKey(Turned(e, p, i)) = ReferenceKey(e.artifacts[p[i]])
    BY <1>1, TurnedParts
  <2> QED BY <2>1, <2>2
<1>4. /\ Moved(p, d) = d /\ Moved(p, ArtifactID(0)) = ArtifactID(0)
      /\ \A i \in 1..N : Moved(p, ArtifactID(p[i])) = ArtifactID(i)
  <2>1. d \in Digest
    BY <1>1 DEF Placed, Numbered
  <2> QED BY <1>1, <1>3, <2>1, MovedTo
<1>5. /\ \A i, j \in 1..N : p[i] = p[j] => i = j
      /\ \A k \in 1..N : \E i \in 1..N : p[i] = k
  BY <1>1, <1>3, ArrangesAll
<1>6. PICK R, Q : R = Referents(e) /\ Q = Referents(f)
  OBVIOUS
<1>7. /\ DOMAIN R = 1..(N + 2)
      /\ R[1].id = d /\ R[1].key = SourceKey
      /\ R[2].id = ArtifactID(0) /\ R[2].key = PrimaryKey
      /\ \A i \in 3..(N + 2) : R[i].id = ArtifactID(i - 2) /\ R[i].key = ReferenceKey(e.artifacts[i - 2])
  <2>1. ReferentsAre(e, N, R)
    BY <1>1, <1>6, ReferentsShow DEF Placed
  <2> QED BY <1>1, <2>1 DEF ReferentsAre
<1>8. /\ DOMAIN Q = 1..(N + 2)
      /\ Q[1].id = d /\ Q[1].key = SourceKey
      /\ Q[2].id = ArtifactID(0) /\ Q[2].key = PrimaryKey
      /\ \A i \in 3..(N + 2) : Q[i].id = ArtifactID(i - 2) /\ Q[i].key = ReferenceKey(f.artifacts[i - 2])
      /\ \A i, j \in DOMAIN Q : Q[i].id = Q[j].id => i = j
  <2>1. ReferentsAre(f, N, Q)
    BY <1>3, <1>6, ReferentsShow
  <2> QED BY <1>1, <1>3, <2>1 DEF ReferentsAre
<1> DEFINE at(i) == IF i \in 3..(N + 2) THEN p[i - 2] + 2 ELSE i
<1>9. \A i \in 1..(N + 2) : at(i) \in 1..(N + 2)
  <2> SUFFICES ASSUME NEW i \in 1..(N + 2) PROVE at(i) \in 1..(N + 2)
    OBVIOUS
  <2>1. CASE i \in 3..(N + 2)
    <3>1. i - 2 \in 1..N
      BY <1>3, <2>1
    <3>2. p[i - 2] \in 1..N
      BY <1>3, <3>1
    <3> QED BY <1>3, <2>1, <3>2
  <2> QED BY <2>1
<1>10. \A i \in 1..(N + 2) : Q[i].key = R[at(i)].key /\ Q[i].id = Moved(p, R[at(i)].id)
  <2> SUFFICES ASSUME NEW i \in 1..(N + 2) PROVE Q[i].key = R[at(i)].key /\ Q[i].id = Moved(p, R[at(i)].id)
    OBVIOUS
  <2>1. CASE i \in 3..(N + 2)
    <3>1. PICK m : m = i - 2 /\ m \in 1..N
      BY <1>3, <2>1
    <3>2. p[m] \in 1..N
      BY <1>3, <3>1
    <3>3. PICK k : k = at(i) /\ k \in 3..(N + 2) /\ k - 2 = p[m]
      BY <1>3, <2>1, <3>1, <3>2
    <3>4. R[k].id = ArtifactID(p[m]) /\ R[k].key = ReferenceKey(e.artifacts[p[m]])
      BY <1>7, <3>3
    <3>5. Q[i].id = ArtifactID(m) /\ Q[i].key = ReferenceKey(f.artifacts[m])
      BY <1>8, <2>1, <3>1
    <3> HIDE DEF at
    <3> QED BY <1>3, <1>4, <3>1, <3>3, <3>4, <3>5
  <2>2. CASE i \notin 3..(N + 2)
    <3>1. at(i) = i /\ (i = 1 \/ i = 2)
      BY <1>3, <2>2
    <3> HIDE DEF at
    <3> QED BY <1>4, <1>7, <1>8, <3>1
  <2> QED BY <2>1, <2>2
<1>11. \A k \in 1..(N + 2) : \E i \in 1..(N + 2) : at(i) = k
  <2> SUFFICES ASSUME NEW k \in 1..(N + 2) PROVE \E i \in 1..(N + 2) : at(i) = k
    OBVIOUS
  <2>1. CASE k \in 3..(N + 2)
    <3>1. k - 2 \in 1..N
      BY <1>3, <2>1
    <3>2. PICK m \in 1..N : p[m] = k - 2
      BY <1>5, <3>1
    <3>3. m + 2 \in 3..(N + 2) /\ (m + 2) - 2 = m
      BY <1>3
    <3>4. at(m + 2) = (k - 2) + 2
      BY <3>2, <3>3
    <3>5. (k - 2) + 2 = k /\ m + 2 \in 1..(N + 2)
      BY <1>3
    <3> HIDE DEF at
    <3> QED BY <3>4, <3>5
  <2>2. CASE k \notin 3..(N + 2)
    BY <2>2
  <2> QED BY <2>1, <2>2
<1> HIDE DEF at
<1>12. PICK i \in DOMAIN R : /\ R[i].id = id
                             /\ \A j \in DOMAIN R \ {i} : R[j].id # id /\ R[j].key # R[i].key
  BY <1>6, Zenon DEF Resolves
<1>13. PICK k \in 1..(N + 2) : at(k) = i
  BY <1>7, <1>11, <1>12
<1>14. Q[k].id = Moved(p, id) /\ Q[k].key = R[i].key
  BY <1>10, <1>12, <1>13
<1>15. ASSUME NEW j \in DOMAIN Q \ {k}
       PROVE  Q[j].id # Moved(p, id) /\ Q[j].key # Q[k].key
  <2>1. j \in 1..(N + 2) /\ j # k
    BY <1>8
  <2>2. Q[j].id # Q[k].id
    BY <1>8, <2>1
  <2>3. at(j) \in DOMAIN R
    BY <1>7, <1>9, <2>1
  <2>4. at(j) # i
    <3>1. at(j) = i => Q[j].id = Q[k].id
      BY <1>10, <1>12, <1>13, <1>14, <2>1
    <3> QED BY <2>2, <3>1
  <2>5. R[at(j)].key # R[i].key
    BY <1>12, <2>3, <2>4
  <2> QED BY <1>10, <1>14, <2>1, <2>2, <2>5
<1>16. k \in DOMAIN Q
  BY <1>8
<1>17. Resolves(Q, Moved(p, id))
  BY <1>14, <1>15, <1>16, Zenon DEF Resolves
<1> QED BY <1>1, <1>6, <1>17

\* The ends of its relations still resolve.
LEMMA KeyedMoves ==
    \A e \in Shape : Placed(e) =>
        \A p \in Orders(Len(e.artifacts)), n \in 1..Len(e.artifacts) :
            (\A l \in Links(e.artifacts[p[n]]) : Resolves(Referents(e), l.from))
                => Keyed(Referents(Renumbered(e, p)), Turned(e, p, n))
<1> SUFFICES ASSUME NEW e \in Shape, Placed(e), NEW p \in Orders(Len(e.artifacts)),
                    NEW n \in 1..Len(e.artifacts),
                    \A l \in Links(e.artifacts[p[n]]) : Resolves(Referents(e), l.from)
             PROVE  Keyed(Referents(Renumbered(e, p)), Turned(e, p, n))
  OBVIOUS
<1>1. PICK a, b, rels, ms, L : /\ a = e.artifacts[p[n]] /\ b = Turned(e, p, n)
                               /\ rels = a.relations /\ ms = Moves(p, rels) /\ L = Len(rels)
  OBVIOUS
<1>2. PICK R, Q : R = Referents(e) /\ Q = Referents(Renumbered(e, p))
  OBVIOUS
<1>3. PICK q \in Orders(L) : b.relations = [i \in 1..L |-> ms[q[i]]] /\ Len(b.relations) = L
  <2>1. TurnedFrom(e, p, n)
    BY TurnedHolds
  <2> QED BY <1>1, <2>1, Zenon DEF TurnedFrom
<1>4. /\ DOMAIN rels = 1..L
      /\ \A i \in 1..L : /\ ms[i].from = Moved(p, rels[i].from) /\ ms[i].to = ArtifactID(n)
                         /\ rels[i].from \in Sources(e, p[n])
  <2>1. rels = e.artifacts[p[n]].relations
    BY <1>1
  <2>2. \A i \in 1..Len(rels) :
              /\ Moves(p, rels)[i].from = Moved(p, rels[i].from)
              /\ Moves(p, rels)[i].to = ArtifactID(n)
              /\ rels[i].from \in Sources(e, p[n])
    BY <2>1, RelationsMove
  <2>3. rels \in Seq(Link)
    <3>1. p[n] \in 1..Len(e.artifacts)
      BY TurnedParts
    <3>2. e.artifacts[p[n]].relations \in Seq(Link)
      BY <3>1, ShapeParts
    <3> QED BY <2>1, <3>2, Zenon
  <2>4. L = Len(rels) /\ ms = Moves(p, rels)
    BY <1>1, Zenon
  <2>5. DOMAIN rels = 1..L
    BY <2>3, <2>4
  <2> QED BY <2>2, <2>4, <2>5, Zenon
<1>5. \A i \in 1..L : q[i] \in 1..L
  BY DEF Orders
<1>6. DOMAIN b.relations = 1..L /\ \A i \in 1..L : b.relations[i] = ms[q[i]]
  BY <1>3
<1>7. b.id = ArtifactID(n)
  BY <1>1, TurnedParts
<1>8. \A m \in 1..L : Resolves(R, rels[m].from)
  <2> SUFFICES ASSUME NEW m \in 1..L PROVE Resolves(R, rels[m].from)
    OBVIOUS
  <2>1. PICK l : l = [from |-> rels[m].from, kind |-> rels[m].kind, occurrence |-> rels[m].occurrence]
    OBVIOUS
  <2>2. l \in Links(a)
    BY <1>1, <1>4, <2>1, Zenon DEF Links
  <2>3. l.from = rels[m].from
    BY <2>1
  <2> QED BY <1>1, <1>2, <2>2, <2>3
<1>9. ASSUME NEW i \in DOMAIN b.relations, NEW id \in {b.relations[i].from, b.relations[i].to}
      PROVE  id = b.id \/ Resolves(Q, id)
  <2>1. PICK m \in 1..L : b.relations[i] = ms[m]
    BY <1>5, <1>6
  <2>2. CASE id = b.relations[i].to
    BY <1>4, <1>7, <2>1, <2>2
  <2>3. CASE id = b.relations[i].from
    <3>1. id = Moved(p, rels[m].from) /\ rels[m].from \in Sources(e, p[n])
      BY <1>4, <2>1, <2>3
    <3>2. Resolves(Q, Moved(p, rels[m].from))
      BY <1>2, <1>8, <3>1, ResolvesMove
    <3> QED BY <3>1, <3>2
  <2> QED BY <2>2, <2>3
<1>10. Keyed(Q, b)
  BY <1>9, Zenon DEF Keyed
<1> QED BY <1>1, <1>2, <1>10

\* What holds of an object holds of it elsewhere.
LEMMA ObjectMoves ==
    \A e \in Shape : Placed(e) =>
        \A p \in Orders(Len(e.artifacts)), n \in 1..Len(e.artifacts) : \A f, max :
            ObjectHolds(e, e.artifacts[p[n]], max) /\ Identifiers(f) = Identifiers(e)
                => ObjectHolds(f, Turned(e, p, n), max)
<1> SUFFICES ASSUME NEW e \in Shape, Placed(e), NEW p \in Orders(Len(e.artifacts)),
                    NEW n \in 1..Len(e.artifacts), NEW max, NEW f,
                    ObjectHolds(e, e.artifacts[p[n]], max), Identifiers(f) = Identifiers(e)
             PROVE  ObjectHolds(f, Turned(e, p, n), max)
  OBVIOUS
<1>1. PICK a, b : a = e.artifacts[p[n]] /\ b = Turned(e, p, n)
  OBVIOUS
<1>2. b.bytes = a.bytes /\ b.look = a.look /\ b.identity = a.identity /\ b.length = a.length
  <2>1. TurnedFrom(e, p, n)
    BY TurnedHolds
  <2> QED BY <1>1, <2>1, Zenon DEF TurnedFrom
<1>3. RelationsHold(f, b)
  <2>1. RelationsHold(e, e.artifacts[p[n]])
    BY Zenon DEF ObjectHolds
  <2> QED BY <1>1, <2>1, TurnedRelations
<1>4. ObjectHolds(e, a, max)
  BY <1>1
<1>5. ObjectHolds(f, b, max)
  BY <1>2, <1>3, <1>4, Zenon DEF ObjectHolds
<1> QED BY <1>1, <1>5

\* The primary output refers to nothing that moved away.
LEMMA ObjectStays ==
    ASSUME NEW e, NEW f, NEW a, NEW max, Identifiers(f) = Identifiers(e), ObjectHolds(e, a, max)
    PROVE  ObjectHolds(f, a, max)
<1>1. RelationsHold(f, a)
  BY Zenon DEF ObjectHolds, RelationsHold
<1> QED BY <1>1, Zenon DEF ObjectHolds

\* The lengths add up to the same total.
LEMMA TotalMoves ==
    \A e \in Shape : Placed(e) => \A p \in Orders(Len(e.artifacts)) : Total(Renumbered(e, p)) = Total(e)
<1> SUFFICES ASSUME NEW e \in Shape, Placed(e), NEW p \in Orders(Len(e.artifacts))
             PROVE  Total(Renumbered(e, p)) = Total(e)
  OBVIOUS
<1>1. PICK N, f : N = Len(e.artifacts) /\ f = Renumbered(e, p)
  OBVIOUS
<1>2. /\ N \in Nat /\ Len(f.artifacts) = N
      /\ \A n \in 1..N : f.artifacts[n].length = e.artifacts[p[n]].length /\ p[n] \in 1..N
  <2>1. RenumberedFrom(e, p, f)
    BY <1>1, RenumberedHolds
  <2>2. /\ N \in Nat /\ Len(f.artifacts) = N
        /\ \A n \in 1..N : /\ f.artifacts[n] = Turned(e, p, n) /\ p[n] \in 1..N /\ TurnedFrom(e, p, n)
    BY <1>1, <2>1, Zenon DEF RenumberedFrom
  <2>3. \A n \in 1..N : Turned(e, p, n).length = e.artifacts[p[n]].length
    BY <2>2, Zenon DEF TurnedFrom
  <2> QED BY <2>2, <2>3
<1>3. PICK a, b : /\ a = [n \in 1..N |-> e.artifacts[n].length]
                  /\ b = [n \in 1..N |-> f.artifacts[n].length]
  OBVIOUS
<1>4. \A n \in 1..N : a[n] \in Nat
  <2>1. \A n \in 1..N : e.artifacts[n] \in Object
    BY <1>1, ShapeParts
  <2> QED BY <1>3, <2>1 DEF Object
<1>5. \A n \in 1..N : b[n] = a[p[n]] /\ b[n] \in Nat
  BY <1>2, <1>3, <1>4
<1>6. \A x, v : Len(x.artifacts) = N /\ v = [n \in 1..N |-> x.artifacts[n].length] /\ (\A n \in 1..N : v[n] \in Nat)
         => \E g : Sums(g, v, N) /\ Total(x) = g[N]
  <2> SUFFICES ASSUME NEW x, NEW v, Len(x.artifacts) = N, v = [n \in 1..N |-> x.artifacts[n].length],
                      \A n \in 1..N : v[n] \in Nat
               PROVE  \E g : Sums(g, v, N) /\ Total(x) = g[N]
    OBVIOUS
  <2> DEFINE s == x.artifacts
             Adds(g) == g = [n \in 0..Len(s) |-> IF n = 0 THEN 0 ELSE g[n - 1] + s[n].length]
  <2>1. Total(x) = (CHOOSE g : Adds(g))[Len(s)]
    BY Zenon DEF Total
  <2>2. \A g : Adds(g) <=> Sums(g, v, N)
    <3> SUFFICES ASSUME NEW g PROVE Adds(g) <=> Sums(g, v, N)
      OBVIOUS
    <3>1. \A n \in 0..N : n # 0 => v[n] = s[n].length
      <4>1. \A n \in 0..N : n # 0 => n \in 1..N
        BY <1>2
      <4> QED BY <4>1
    <3>2. [n \in 0..N |-> IF n = 0 THEN 0 ELSE g[n - 1] + s[n].length]
            = [n \in 0..N |-> IF n = 0 THEN 0 ELSE g[n - 1] + v[n]]
      BY <3>1
    <3>3. Adds(g) <=> g = [n \in 0..N |-> IF n = 0 THEN 0 ELSE g[n - 1] + s[n].length]
      BY Zenon
    <3> QED BY <3>2, <3>3 DEF Sums
  <2>3. Len(s) = N
    OBVIOUS
  <2> HIDE DEF Adds
  <2>4. PICK g : Sums(g, v, N)
    BY <1>2, SumsExist
  <2>5. PICK h : Adds(h) /\ Total(x) = h[N]
    BY <2>1, <2>2, <2>3, <2>4
  <2> QED BY <2>2, <2>5
<1>7. PICK g : Sums(g, a, N) /\ Total(e) = g[N]
  <2>1. Len(e.artifacts) = N /\ a = [n \in 1..N |-> e.artifacts[n].length]
    BY <1>1, <1>3
  <2> QED BY <1>4, <1>6, <2>1, Zenon
<1>8. PICK h : Sums(h, b, N) /\ Total(f) = h[N]
  <2>1. Len(f.artifacts) = N /\ b = [n \in 1..N |-> f.artifacts[n].length] /\ \A n \in 1..N : b[n] \in Nat
    BY <1>2, <1>3, <1>5
  <2> QED BY <1>6, <2>1, Zenon
<1>9. h[N] = g[N]
  <2>1. p \in Orders(N) /\ N \in Nat
    BY <1>1, <1>2
  <2>2. (\A n \in 1..N : a[n] \in Nat) /\ \A n \in 1..N : b[n] = a[p[n]]
    BY <1>4, <1>5
  <2>3. Sums(g, a, N) /\ Sums(h, b, N)
    BY <1>7, <1>8
  <2>5. \A x, y, u, v :
            /\ \A n \in 1..N : x[n] \in Nat
            /\ \A n \in 1..N : y[n] = x[p[n]]
            /\ Sums(u, x, N) /\ Sums(v, y, N)
            => v[N] = u[N]
    BY <2>1, SumsPermuted, Zenon
  <2>6. /\ \A n \in 1..N : a[n] \in Nat
        /\ \A n \in 1..N : b[n] = a[p[n]]
        /\ Sums(g, a, N) /\ Sums(h, b, N)
        => h[N] = g[N]
    BY <2>5
  <2> QED BY <2>2, <2>3, <2>6, Zenon
<1> QED BY <1>1, <1>7, <1>8, <1>9

\* The outputs of the provenance follow the artifacts.
LEMMA ProvenanceMoves ==
    \A e \in Shape : Placed(e) /\ ProvenanceHolds(e) =>
        \A p \in Orders(Len(e.artifacts)) : ProvenanceHolds(Renumbered(e, p))
<1> SUFFICES ASSUME NEW e \in Shape, Placed(e), ProvenanceHolds(e), NEW p \in Orders(Len(e.artifacts))
             PROVE  ProvenanceHolds(Renumbered(e, p))
  OBVIOUS
<1>1. PICK N, f, os : N = Len(e.artifacts) /\ f = Renumbered(e, p) /\ os = e.outputs
  OBVIOUS
<1>2. /\ N \in Nat /\ f.source = e.source /\ f.primary = e.primary
      /\ f.artifacts \in Seq(Object) /\ Len(f.artifacts) = N /\ Numbered(f)
      /\ \A n \in 1..N : f.artifacts[n].identity = e.artifacts[p[n]].identity /\ p[n] \in 1..N
  <2>1. RenumberedFrom(e, p, f)
    BY <1>1, RenumberedHolds
  <2>2. /\ N \in Nat /\ f.source = e.source /\ f.primary = e.primary
        /\ f.artifacts \in Seq(Object) /\ Len(f.artifacts) = N /\ Numbered(f)
        /\ \A n \in 1..N : /\ f.artifacts[n] = Turned(e, p, n) /\ p[n] \in 1..N /\ TurnedFrom(e, p, n)
    BY <1>1, <2>1, Zenon DEF RenumberedFrom
  <2>3. \A n \in 1..N : Turned(e, p, n).identity = e.artifacts[p[n]].identity
    BY <2>2, Zenon DEF TurnedFrom
  <2> QED BY <2>2, <2>3
<1>3. f.sourceIdentity = f.source.identity
  <2>1. f.sourceIdentity = e.sourceIdentity
    <3>1. PICK as, qs : f = [e EXCEPT !.artifacts = as, !.outputs = qs]
      <4>1. f = [e EXCEPT !.artifacts = f.artifacts, !.outputs = f.outputs]
        BY <1>1, RenumberedParts
      <4> QED BY <4>1, Zenon
    <3> QED BY <3>1 DEF Shape
  <2>2. e.sourceIdentity = e.source.identity
    BY DEF ProvenanceHolds
  <2> QED BY <1>2, <2>1, <2>2
<1>4. PICK o, r : o = Outputs(e) /\ r = Outputs(f)
  OBVIOUS
<1>5. /\ Len(o) = N + 1 /\ o[1] = e.primary /\ \A i \in 1..N : o[i + 1] = e.artifacts[i]
  <2>1. e.artifacts \in Seq(Object) /\ Numbered(e)
    BY ShapeParts DEF Placed
  <2> QED BY <1>1, <1>4, <2>1, NumberedIdentifiers
<1>6. /\ Len(r) = N + 1 /\ r[1] = e.primary /\ \A i \in 1..N : r[i + 1] = f.artifacts[i]
  <2>1. /\ DOMAIN r = 1..(Len(f.artifacts) + 1) /\ Len(r) = Len(f.artifacts) + 1
        /\ r[1] = f.primary /\ \A i \in 1..Len(f.artifacts) : r[i + 1] = f.artifacts[i]
    BY <1>2, <1>4, NumberedIdentifiers
  <2> QED BY <1>2, <2>1
<1>7. os = [i \in 1..(N + 1) |-> o[i].identity]
  BY <1>1, <1>4, <1>5, Zenon DEF ProvenanceHolds
<1>8. Len(os) = N + 1 /\ \A i \in 1..(N + 1) : os[i] = o[i].identity
  BY <1>2, <1>7
<1>9. f.outputs = [i \in 1..(N + 1) |-> IF i = 1 THEN os[1] ELSE os[p[i - 1] + 1]]
  <2>1. f.outputs = [i \in 1..Len(e.outputs) |-> IF i = 1 THEN e.outputs[1] ELSE e.outputs[p[i - 1] + 1]]
    BY <1>1, RenumberedParts
  <2> QED BY <1>1, <1>8, <2>1
<1>10. ASSUME NEW i \in 1..(N + 1)
       PROVE  (IF i = 1 THEN os[1] ELSE os[p[i - 1] + 1]) = r[i].identity
  <2>1. CASE i = 1
    BY <1>2, <1>5, <1>6, <1>8, <2>1
  <2>2. CASE i # 1
    <3>1. PICK m : m = i - 1 /\ m \in 1..N /\ i = m + 1
      BY <1>2, <2>2
    <3>2. p[m] \in 1..N /\ p[m] + 1 \in 1..(N + 1)
      BY <1>2, <3>1
    <3>3. os[p[m] + 1] = e.artifacts[p[m]].identity
      BY <1>5, <1>8, <3>2
    <3>4. r[i].identity = e.artifacts[p[m]].identity
      <4>1. r[i] = f.artifacts[m]
        BY <1>6, <3>1
      <4>2. f.artifacts[m].identity = e.artifacts[p[m]].identity
        BY <1>2, <3>1
      <4> QED BY <4>1, <4>2, Zenon
    <3> QED BY <2>2, <3>1, <3>3, <3>4
  <2> QED BY <2>1, <2>2
<1>11. f.outputs = [i \in 1..Len(r) |-> r[i].identity]
  BY <1>6, <1>9, <1>10
<1> QED BY <1>1, <1>3, <1>4, <1>11, Zenon DEF ProvenanceHolds

\* The slices of an envelope, one after another.
Slices(e) == <<e.source.bytes>> \o [i \in 1..Len(Outputs(e)) |-> Outputs(e)[i].bytes]

LEMMA SlicesShow ==
    \A e : Numbered(e) /\ e.artifacts \in Seq(Object) =>
        /\ DOMAIN Slices(e) = 1..(Len(e.artifacts) + 2)
        /\ Slices(e)[1] = e.source.bytes /\ Slices(e)[2] = e.primary.bytes
        /\ \A i \in 1..Len(e.artifacts) : Slices(e)[i + 2] = e.artifacts[i].bytes
<1> SUFFICES ASSUME NEW e, Numbered(e), e.artifacts \in Seq(Object)
             PROVE  /\ DOMAIN Slices(e) = 1..(Len(e.artifacts) + 2)
                    /\ Slices(e)[1] = e.source.bytes /\ Slices(e)[2] = e.primary.bytes
                    /\ \A i \in 1..Len(e.artifacts) : Slices(e)[i + 2] = e.artifacts[i].bytes
  OBVIOUS
<1>1. PICK N, o : N = Len(e.artifacts) /\ o = Outputs(e)
  OBVIOUS
<1>2. /\ N \in Nat /\ Len(o) = N + 1 /\ o[1] = e.primary
      /\ \A i \in 1..N : o[i + 1] = e.artifacts[i]
  BY <1>1, NumberedIdentifiers DEF Numbered
<1>3. PICK t : t = [i \in 1..Len(o) |-> o[i].bytes]
  OBVIOUS
<1>4. DOMAIN t = 1..(N + 1) /\ t = [i \in 1..(N + 1) |-> t[i]] /\ N + 1 \in Nat
  BY <1>2, <1>3
<1>5. PICK u, x : x = e.source.bytes /\ u = <<x>> \o t
  OBVIOUS
<1>6. /\ DOMAIN u = 1..((N + 1) + 1) /\ u[1] = x
      /\ \A i \in 1..(N + 1) : u[i + 1] = t[i]
  BY <1>4, <1>5, PutInFront
<1>7. Slices(e) = u
  BY <1>1, <1>3, <1>5, Zenon DEF Slices
<1>8. u[2] = e.primary.bytes
  <2>1. 1 \in 1..(N + 1) /\ 1 + 1 = 2
    BY <1>2
  <2>2. t[1] = o[1].bytes
    BY <1>2, <1>3, <2>1
  <2> QED BY <1>2, <1>6, <2>1, <2>2
<1>9. ASSUME NEW i \in 1..N PROVE u[i + 2] = e.artifacts[i].bytes
  <2>1. i + 1 \in 1..(N + 1) /\ (i + 1) + 1 = i + 2
    BY <1>2
  <2>2. t[i + 1] = o[i + 1].bytes
    BY <1>2, <1>3, <2>1
  <2> QED BY <1>2, <1>6, <2>1, <2>2
<1>10. (N + 1) + 1 = N + 2
  BY <1>2
<1> QED BY <1>1, <1>5, <1>6, <1>7, <1>8, <1>9, <1>10

\* No two of them share storage after they were put in another order.
LEMMA OwnershipMoves ==
    \A e \in Shape : Placed(e) /\ OwnershipHolds(e) =>
        \A p \in Orders(Len(e.artifacts)) : OwnershipHolds(Renumbered(e, p))
<1> SUFFICES ASSUME NEW e \in Shape, Placed(e), OwnershipHolds(e), NEW p \in Orders(Len(e.artifacts))
             PROVE  OwnershipHolds(Renumbered(e, p))
  OBVIOUS
<1>1. PICK N, f : N = Len(e.artifacts) /\ f = Renumbered(e, p)
  OBVIOUS
<1>2. /\ N \in Nat /\ f.source = e.source /\ f.primary = e.primary
      /\ f.artifacts \in Seq(Object) /\ Len(f.artifacts) = N /\ Numbered(f)
      /\ \A n \in 1..N : f.artifacts[n].bytes = e.artifacts[p[n]].bytes /\ p[n] \in 1..N
  <2>1. RenumberedFrom(e, p, f)
    BY <1>1, RenumberedHolds
  <2>2. /\ N \in Nat /\ f.source = e.source /\ f.primary = e.primary
        /\ f.artifacts \in Seq(Object) /\ Len(f.artifacts) = N /\ Numbered(f)
        /\ \A n \in 1..N : /\ f.artifacts[n] = Turned(e, p, n) /\ p[n] \in 1..N /\ TurnedFrom(e, p, n)
    BY <1>1, <2>1, Zenon DEF RenumberedFrom
  <2>3. \A n \in 1..N : Turned(e, p, n).bytes = e.artifacts[p[n]].bytes
    BY <2>2, Zenon DEF TurnedFrom
  <2> QED BY <2>2, <2>3
<1>3. PICK s, u : s = Slices(e) /\ u = Slices(f)
  OBVIOUS
<1>4. /\ DOMAIN s = 1..(N + 2) /\ s[1] = e.source.bytes /\ s[2] = e.primary.bytes
      /\ \A i \in 1..N : s[i + 2] = e.artifacts[i].bytes
  <2>1. Numbered(e) /\ e.artifacts \in Seq(Object)
    BY ShapeParts DEF Placed
  <2> QED BY <1>1, <1>3, <2>1, SlicesShow
<1>5. /\ DOMAIN u = 1..(N + 2) /\ u[1] = e.source.bytes /\ u[2] = e.primary.bytes
      /\ \A i \in 1..N : u[i + 2] = f.artifacts[i].bytes
  <2>1. /\ DOMAIN u = 1..(Len(f.artifacts) + 2) /\ u[1] = f.source.bytes /\ u[2] = f.primary.bytes
        /\ \A i \in 1..Len(f.artifacts) : u[i + 2] = f.artifacts[i].bytes
    BY <1>2, <1>3, SlicesShow
  <2> QED BY <1>2, <2>1
<1>6. \A i, j \in 1..N : p[i] = p[j] => i = j
  BY <1>1, <1>2, ArrangesAll
<1> DEFINE at(i) == IF i \in 3..(N + 2) THEN p[i - 2] + 2 ELSE i
<1>7. \A i \in 1..(N + 2) : at(i) \in 1..(N + 2) /\ u[i] = s[at(i)]
  <2> SUFFICES ASSUME NEW i \in 1..(N + 2) PROVE at(i) \in 1..(N + 2) /\ u[i] = s[at(i)]
    OBVIOUS
  <2>1. CASE i \in 3..(N + 2)
    <3>1. PICK m : m = i - 2 /\ m \in 1..N /\ i = m + 2
      BY <1>2, <2>1
    <3>2. p[m] \in 1..N /\ at(i) = p[m] + 2
      BY <1>2, <2>1, <3>1
    <3>3. at(i) \in 1..(N + 2)
      BY <1>2, <3>2
    <3> HIDE DEF at
    <3>4. u[i] = e.artifacts[p[m]].bytes /\ s[p[m] + 2] = e.artifacts[p[m]].bytes
      BY <1>2, <1>4, <1>5, <3>1, <3>2
    <3> QED BY <3>2, <3>3, <3>4
  <2>2. CASE i \notin 3..(N + 2)
    <3>1. at(i) = i /\ (i = 1 \/ i = 2)
      BY <1>2, <2>2
    <3> HIDE DEF at
    <3> QED BY <1>4, <1>5, <3>1
  <2> QED BY <2>1, <2>2
<1>8. \A i, j \in 1..(N + 2) : at(i) = at(j) => i = j
  <2> SUFFICES ASSUME NEW i \in 1..(N + 2), NEW j \in 1..(N + 2), at(i) = at(j) PROVE i = j
    OBVIOUS
  <2>1. \A k \in 3..(N + 2) : k - 2 \in 1..N /\ p[k - 2] \in 1..N /\ at(k) = p[k - 2] + 2
    <3>1. \A k \in 3..(N + 2) : k - 2 \in 1..N
      BY <1>2
    <3> QED BY <1>2, <3>1
  <2>2. \A k \in 1..(N + 2) : k \in 3..(N + 2) \/ (k \in 1..2 /\ at(k) = k)
    BY <1>2
  <2> HIDE DEF at
  <2>3. CASE i \in 3..(N + 2) /\ j \in 3..(N + 2)
    <3>1. p[i - 2] = p[j - 2]
      BY <2>1, <2>3
    <3>2. i - 2 = j - 2
      BY <1>6, <2>1, <2>3, <3>1
    <3> QED BY <2>3, <3>2
  <2>4. CASE i \in 3..(N + 2) /\ j \notin 3..(N + 2)
    BY <2>1, <2>2, <2>4
  <2>5. CASE i \notin 3..(N + 2) /\ j \in 3..(N + 2)
    BY <2>1, <2>2, <2>5
  <2>6. CASE i \notin 3..(N + 2) /\ j \notin 3..(N + 2)
    BY <2>2, <2>6
  <2> QED BY <2>3, <2>4, <2>5, <2>6
<1> HIDE DEF at
<1>9. \A x, v : v = Slices(x) => (OwnershipHolds(x) <=>
          \A i, j \in DOMAIN v : v[i].size > 0 /\ v[j].size > 0 /\ v[i].store = v[j].store => i = j)
  <2>1. \A x : OwnershipHolds(x) <=>
          \A i, j \in DOMAIN Slices(x) :
              Slices(x)[i].size > 0 /\ Slices(x)[j].size > 0 /\ Slices(x)[i].store = Slices(x)[j].store => i = j
    BY DEF OwnershipHolds, Slices
  <2> QED BY <2>1, Zenon
<1>10. \A i, j \in 1..(N + 2) : s[i].size > 0 /\ s[j].size > 0 /\ s[i].store = s[j].store => i = j
  BY <1>3, <1>4, <1>9
<1>11. \A i, j \in 1..(N + 2) : u[i].size > 0 /\ u[j].size > 0 /\ u[i].store = u[j].store => i = j
  BY <1>7, <1>8, <1>10
<1> QED BY <1>1, <1>3, <1>5, <1>9, <1>11

\* What the order does not decide still holds in another order.
LEMMA UnorderedMoves ==
    \A e \in Shape : HoldsUnordered(e) /\ Placed(e) =>
        \A p \in Orders(Len(e.artifacts)) : HoldsUnordered(Renumbered(e, p))
<1> SUFFICES ASSUME NEW e \in Shape, HoldsUnordered(e), Placed(e), NEW p \in Orders(Len(e.artifacts))
             PROVE  HoldsUnordered(Renumbered(e, p))
  OBVIOUS
<1>1. PICK N, f : N = Len(e.artifacts) /\ f = Renumbered(e, p)
  OBVIOUS
<1>2. /\ N \in Nat /\ f.source = e.source /\ f.primary = e.primary
      /\ Len(f.artifacts) = N /\ DOMAIN f.artifacts = 1..N
      /\ Identifiers(f) = Identifiers(e)
      /\ \A n \in 1..N : /\ f.artifacts[n] = Turned(e, p, n)
                         /\ f.artifacts[n].id = ArtifactID(n) /\ p[n] \in 1..N
  <2>1. RenumberedFrom(e, p, f)
    BY <1>1, RenumberedHolds
  <2> QED BY <1>1, <2>1, Zenon DEF RenumberedFrom
<1>3. f.facts = e.facts /\ f.warnings = e.warnings
  <2>1. PICK as, qs : f = [e EXCEPT !.artifacts = as, !.outputs = qs]
    <3>1. f = [e EXCEPT !.artifacts = f.artifacts, !.outputs = f.outputs]
      BY <1>1, RenumberedParts
    <3> QED BY <3>1, Zenon
  <2> QED BY <2>1 DEF Shape
<1>4. SourceHolds(f)
  <2>1. SourceHolds(e)
    BY DEF HoldsUnordered
  <2> QED BY <1>2, <2>1, Zenon DEF SourceHolds
<1>5. f.primary.id = ArtifactID(0) /\ ObjectHolds(f, f.primary, MaxPrimaryBytes)
  <2>1. e.primary.id = ArtifactID(0) /\ ObjectHolds(e, e.primary, MaxPrimaryBytes)
    BY DEF HoldsUnordered
  <2>2. ObjectHolds(f, e.primary, MaxPrimaryBytes)
    BY <1>2, <2>1, ObjectStays
  <2> QED BY <1>2, <2>1, <2>2, Zenon
<1>6. Len(f.artifacts) <= DefaultMaxArtifacts /\ Len(f.artifacts) <= MaxArtifacts
  <2>1. Len(e.artifacts) <= DefaultMaxArtifacts /\ Len(e.artifacts) <= MaxArtifacts
    BY DEF HoldsUnordered
  <2> QED BY <1>1, <1>2, <2>1
<1>7. ASSUME NEW n \in 1..N
      PROVE  f.artifacts[n].id = ArtifactID(n) /\ ObjectHolds(f, f.artifacts[n], MaxArtifactBytes)
  <2>1. p[n] \in DOMAIN e.artifacts /\ n \in 1..Len(e.artifacts)
    BY <1>1, <1>2, ShapeParts
  <2>2. ObjectHolds(e, e.artifacts[p[n]], MaxArtifactBytes)
    BY <2>1, Zenon DEF HoldsUnordered
  <2>3. ObjectHolds(f, Turned(e, p, n), MaxArtifactBytes)
    BY <1>2, <2>1, <2>2, ObjectMoves
  <2> QED BY <1>2, <2>3
<1>8. Total(f) <= MaxTotalArtifactBytes
  <2>1. Total(e) <= MaxTotalArtifactBytes
    BY DEF HoldsUnordered
  <2>2. Total(f) = Total(e)
    BY <1>1, TotalMoves
  <2> QED BY <2>1, <2>2
<1>9. IdentifiersDiffer(f) /\ ProvenanceHolds(f) /\ OwnershipHolds(f)
  <2>1. IdentifiersDiffer(e) /\ ProvenanceHolds(e) /\ OwnershipHolds(e)
    BY DEF HoldsUnordered
  <2>2. IdentifiersDiffer(f)
    BY <1>1, <1>2, <2>1, Zenon DEF IdentifiersDiffer
  <2>3. ProvenanceHolds(f)
    BY <1>1, <2>1, ProvenanceMoves
  <2>4. OwnershipHolds(f)
    BY <1>1, <2>1, OwnershipMoves
  <2> QED BY <2>2, <2>3, <2>4
<1>10. FactsHold(f) /\ WarningsHold(f)
  <2>1. FactsHold(e) /\ WarningsHold(e)
    BY DEF HoldsUnordered
  <2>2. FactsHold(f)
    BY <1>3, <2>1, Zenon DEF FactsHold
  <2>3. WarningsHold(f)
    BY <1>3, <2>1, Zenon DEF WarningsHold
  <2> QED BY <2>2, <2>3
<1>11. \A i \in DOMAIN f.artifacts : /\ f.artifacts[i].id = ArtifactID(i)
                                     /\ ObjectHolds(f, f.artifacts[i], MaxArtifactBytes)
  BY <1>2, <1>7
<1>12. HoldsUnordered(f)
  BY <1>4, <1>5, <1>6, <1>8, <1>9, <1>10, <1>11, Zenon DEF HoldsUnordered
<1> QED BY <1>1, <1>12

\* Of artifacts that can be told apart, no two have one order key.
LEMMA KeysApart ==
    \A e \in Shape : HoldsUnordered(e) /\ Placed(e) /\ Unambiguous(e) =>
        \A i, j \in 1..Len(e.artifacts) :
            OrderKey(Referents(e), e.artifacts[i]) = OrderKey(Referents(e), e.artifacts[j]) => i = j
<1> SUFFICES ASSUME NEW e \in Shape, HoldsUnordered(e), Placed(e), Unambiguous(e),
                    NEW i \in 1..Len(e.artifacts), NEW j \in 1..Len(e.artifacts),
                    OrderKey(Referents(e), e.artifacts[i]) = OrderKey(Referents(e), e.artifacts[j])
             PROVE  i = j
  OBVIOUS
<1>1. i \in DOMAIN e.artifacts /\ j \in DOMAIN e.artifacts
  BY ShapeParts
<1>2. \A n \in 1..Len(e.artifacts) : Kinds(e.artifacts[n])
  <2> SUFFICES ASSUME NEW n \in 1..Len(e.artifacts) PROVE Kinds(e.artifacts[n])
    OBVIOUS
  <2>1. PICK a : a = e.artifacts[n]
    OBVIOUS
  <2>2. n \in DOMAIN e.artifacts
    BY ShapeParts
  <2>3. RelationsHold(e, a)
    BY <2>1, <2>2, Zenon DEF HoldsUnordered, ObjectHolds
  <2>4. \A m \in DOMAIN a.relations : a.relations[m].kind \in RelationKind
    BY <2>3, Zenon DEF RelationsHold
  <2>5. DOMAIN a.relations = 1..Len(a.relations)
    <3>1. a.relations \in Seq(Link)
      BY <2>1, ShapeParts
    <3> QED BY <3>1
  <2> QED BY <2>1, <2>4, <2>5, Zenon DEF Kinds
<1>3. Kinds(e.artifacts[i]) /\ Kinds(e.artifacts[j])
  BY <1>2
<1>4. Sense(Referents(e), e.artifacts[i]) = Sense(Referents(e), e.artifacts[j])
  BY <1>3, SenseTold
<1> QED BY <1>1, <1>4, Zenon DEF Unambiguous

(* Artifacts that can be told apart have an order that verifies.           *)
LEMMA SomeOrderVerifies ==
    \A e \in Shape : HoldsUnordered(e) /\ Unambiguous(e) =>
        \E p \in Orders(Len(e.artifacts)) : VerifyEnvelope(Renumbered(e, p))
<1> SUFFICES ASSUME NEW e \in Shape, HoldsUnordered(e), Unambiguous(e)
             PROVE  \E p \in Orders(Len(e.artifacts)) : VerifyEnvelope(Renumbered(e, p))
  OBVIOUS
<1>1. PICK N, R : N = Len(e.artifacts) /\ R = Referents(e)
  OBVIOUS
<1>2. N \in Nat /\ DOMAIN e.artifacts = 1..N
  BY <1>1, ShapeParts
<1>3. \A i \in 1..N : e.artifacts[i].id = ArtifactID(i) /\ RelationsHold(e, e.artifacts[i])
  BY <1>2, Zenon DEF HoldsUnordered, ObjectHolds
<1>4. Numbered(e)
  <2>1. e.primary.id = ArtifactID(0)
    BY DEF HoldsUnordered
  <2> QED BY <1>1, <1>3, <2>1, ShapeParts DEF Numbered
<1>5. Placed(e)
  BY <1>1, <1>3, <1>4, RelationsPlaced
<1>6. PICK k : k = [i \in 1..N |-> OrderKey(R, e.artifacts[i])]
  OBVIOUS
<1>7. k \in [1..N -> Seq(Int)] /\ \A i \in 1..N : k[i] = OrderKey(R, e.artifacts[i])
  <2>1. \A i \in 1..N : OrderKeyIs(R, e.artifacts[i])
    BY <1>1, <1>5, OrderKeyParts
  <2>2. \A i \in 1..N : OrderKey(R, e.artifacts[i]) \in Seq(Int)
    BY <2>1, Zenon DEF OrderKeyIs
  <2> QED BY <1>6, <2>2
<1>8. \A i, j \in 1..N : k[i] = k[j] => i = j
  <2>1. \A i, j \in 1..N : OrderKey(R, e.artifacts[i]) = OrderKey(R, e.artifacts[j]) => i = j
    BY <1>1, <1>5, KeysApart
  <2> QED BY <1>7, <2>1
<1>9. PICK p \in Orders(N) : Increasing([i \in 1..N |-> k[p[i]]])
  BY <1>2, <1>7, <1>8, CanIncrease
<1>10. PICK f : f = Renumbered(e, p)
  OBVIOUS
<1>11. HoldsUnordered(f)
  BY <1>1, <1>5, <1>10, UnorderedMoves
<1>12. /\ Len(f.artifacts) = N /\ DOMAIN f.artifacts = 1..N
       /\ \A n \in 1..N : f.artifacts[n] = Turned(e, p, n) /\ p[n] \in 1..N
  <2>1. RenumberedFrom(e, p, f)
    BY <1>1, <1>5, <1>10, RenumberedHolds
  <2> QED BY <1>1, <2>1, Zenon DEF RenumberedFrom
<1>13. Increasing([i \in 1..N |-> OrderKey(Referents(f), f.artifacts[i])])
  <2>1. \A n \in 1..N : OrderKey(Referents(f), Turned(e, p, n)) = OrderKey(R, e.artifacts[p[n]])
    BY <1>1, <1>5, <1>10, KeysStay
  <2>2. \A n \in 1..N : OrderKey(Referents(f), f.artifacts[n]) = k[p[n]]
    BY <1>7, <1>12, <2>1
  <2>3. [i \in 1..N |-> OrderKey(Referents(f), f.artifacts[i])] = [i \in 1..N |-> k[p[i]]]
    BY <2>2
  <2> QED BY <1>9, <2>3, Zenon
<1>14. \A i \in 1..N : Keyed(Referents(f), f.artifacts[i])
  <2> SUFFICES ASSUME NEW i \in 1..N PROVE Keyed(Referents(f), f.artifacts[i])
    OBVIOUS
  <2>1. p[i] \in DOMAIN e.artifacts
    BY <1>2, <1>12
  <2>2. \A l \in Links(e.artifacts[p[i]]) : Resolves(Referents(e), l.from)
    BY <2>1, Zenon DEF Unambiguous
  <2>3. Keyed(Referents(Renumbered(e, p)), Turned(e, p, i))
    BY <1>1, <1>5, <2>2, KeyedMoves
  <2> QED BY <1>10, <1>12, <2>3
<1>15. InventoryHolds(f)
  <2>1. /\ N <= DefaultMaxArtifacts /\ N <= MaxArtifacts /\ Total(f) <= MaxTotalArtifactBytes
        /\ \A i \in 1..N : f.artifacts[i].id = ArtifactID(i) /\ ObjectHolds(f, f.artifacts[i], MaxArtifactBytes)
    BY <1>11, <1>12, Zenon DEF HoldsUnordered
  <2> QED BY <1>12, <1>13, <1>14, <2>1, Zenon DEF InventoryHolds
<1>16. VerifyEnvelope(f)
  BY <1>11, <1>15, Zenon DEF HoldsUnordered, VerifyEnvelope
<1> QED BY <1>1, <1>9, <1>10, <1>16

(* There is an order that verifies, for artifacts that can be told apart   *)
(* without their identifiers (ingestion.go:479-507).                       *)
THEOREM AnOrderVerifies == CustodySpec => []ArrangementExists
<1>1. CustodyInv => ArrangementExists
  <2> SUFFICES ASSUME CustodyInv, HoldsUnordered(original), Unambiguous(original)
               PROVE  \E p \in Orders(Len(original.artifacts)) : VerifyEnvelope(Renumbered(original, p))
    BY DEF ArrangementExists
  <2>1. original \in Shape
    BY CustodyAssumption DEF CustodyInv
  <2> QED BY <2>1, SomeOrderVerifies
<1> QED BY <1>1, CustodyInvHolds, PTL

-----------------------------------------------------------------------------
(* Corrupted fields.  What an object's bytes are is recorded three times:  *)
(* in the bytes, in the object and in the provenance.                      *)

Copies(e, n) ==
    IF n = 0 THEN <<Identity(e.source.bytes), e.source.identity, e.sourceIdentity>>
             ELSE <<Identity(e.artifacts[n].bytes), e.artifacts[n].identity, e.outputs[n + 1]>>

\* The copies in which e and f disagree about object n.
Apart(e, f, n) == {c \in 1..3 : Copies(e, n)[c] # Copies(f, n)[c]}

Paired(e) == e \in Shape /\ Len(e.outputs) = Len(e.artifacts) + 1

\* One field of e, at most, is another in f.
Near(e, f) ==
    /\ Paired(f) /\ Len(f.artifacts) = Len(e.artifacts)
    /\ \A n \in 0..Len(e.artifacts) : \E c \in 1..3 : Apart(e, f, n) \subseteq {c}

\* Two paired envelopes are near when only one copy of each object differs.
LEMMA NearIf ==
    \A e, f : \A c \in 1..3 :
        /\ Paired(f) /\ Len(f.artifacts) = Len(e.artifacts)
        /\ \A n \in 0..Len(e.artifacts) : \A d \in 1..3 \ {c} : Copies(f, n)[d] = Copies(e, n)[d]
        => Near(e, f)
<1> SUFFICES ASSUME NEW e, NEW f, NEW c \in 1..3, Paired(f), Len(f.artifacts) = Len(e.artifacts),
                    \A n \in 0..Len(e.artifacts) : \A d \in 1..3 \ {c} : Copies(f, n)[d] = Copies(e, n)[d]
             PROVE  Near(e, f)
  OBVIOUS
<1> SUFFICES ASSUME NEW n \in 0..Len(e.artifacts) PROVE Apart(e, f, n) \subseteq {c}
  BY DEF Near
<1> QED BY DEF Apart

\* An envelope with its source replaced is near when the source keeps its
\* bytes or its identity.
LEMMA SourceReplaced ==
    ASSUME NEW e, Paired(e), NEW s \in [bytes : Buffer, identity : Digest, length : Nat],
           NEW c \in 1..2,
           c = 1 => s.identity = e.source.identity,
           c = 2 => s.bytes = e.source.bytes
    PROVE  Near(e, [e EXCEPT !.source = s])
<1>1. PICK f : f = [e EXCEPT !.source = s]
  OBVIOUS
<1>2. /\ f \in Shape /\ f.source = s /\ f.artifacts = e.artifacts /\ f.outputs = e.outputs
      /\ f.sourceIdentity = e.sourceIdentity
  BY <1>1 DEF Paired, Shape
<1>3. Paired(f)
  BY <1>2 DEF Paired
<1>4. ASSUME NEW n \in 0..Len(e.artifacts), NEW d \in 1..3 \ {c} PROVE Copies(f, n)[d] = Copies(e, n)[d]
  <2>1. CASE n = 0
    <3>1. Copies(f, n) = <<Identity(s.bytes), s.identity, e.sourceIdentity>>
      BY <1>2, <2>1 DEF Copies
    <3>2. Copies(e, n) = <<Identity(e.source.bytes), e.source.identity, e.sourceIdentity>>
      BY <2>1 DEF Copies
    <3> QED BY <3>1, <3>2
  <2>2. CASE n # 0
    BY <1>2, <2>2 DEF Copies
  <2> QED BY <2>1, <2>2
<1>5. c \in 1..3
  OBVIOUS
<1>6. Near(e, f)
  <2>1. Len(f.artifacts) = Len(e.artifacts)
    BY <1>2
  <2> QED BY <1>3, <1>4, <1>5, <2>1, NearIf
<1> QED BY <1>1, <1>6

\* So is an envelope with an artifact replaced that keeps its bytes or its
\* identity,
LEMMA ArtifactReplaced ==
    ASSUME NEW e, Paired(e), NEW i \in DOMAIN e.artifacts, NEW a \in Object, NEW c \in 1..2,
           c = 1 => a.identity = e.artifacts[i].identity,
           c = 2 => a.bytes = e.artifacts[i].bytes
    PROVE  Near(e, [e EXCEPT !.artifacts = [e.artifacts EXCEPT ![i] = a]])
<1>1. PICK as : as = [e.artifacts EXCEPT ![i] = a]
  OBVIOUS
<1>2. PICK f : f = [e EXCEPT !.artifacts = as]
  OBVIOUS
<1>3. e.artifacts \in Seq(Object)
  BY DEF Paired, Shape
<1>4. as \in Seq(Object) /\ Len(as) = Len(e.artifacts)
  BY <1>1, <1>3
<1>5. \A n \in 1..Len(e.artifacts) : as[n] = IF n = i THEN a ELSE e.artifacts[n]
  BY <1>1, <1>3
<1>6. /\ f \in Shape /\ f.source = e.source /\ f.artifacts = as /\ f.outputs = e.outputs
      /\ f.sourceIdentity = e.sourceIdentity
  BY <1>2, <1>4 DEF Paired, Shape
<1>7. Paired(f)
  BY <1>4, <1>6 DEF Paired
<1>8. ASSUME NEW n \in 0..Len(e.artifacts), NEW d \in 1..3 \ {c} PROVE Copies(f, n)[d] = Copies(e, n)[d]
  <2>1. CASE n = i /\ n # 0
    <3>1. f.artifacts[n] = a
      <4>1. Len(e.artifacts) \in Nat
        BY <1>3
      <4>2. n \in 1..Len(e.artifacts)
        BY <2>1, <4>1
      <4>3. as[n] = a
        BY <1>5, <2>1, <4>2
      <4> QED BY <1>6, <4>3
    <3>2. Copies(f, n) = <<Identity(a.bytes), a.identity, e.outputs[n + 1]>>
      BY <1>6, <2>1, <3>1 DEF Copies
    <3>3. Copies(e, n) = <<Identity(e.artifacts[i].bytes), e.artifacts[i].identity, e.outputs[n + 1]>>
      BY <2>1 DEF Copies
    <3> QED BY <3>2, <3>3
  <2>2. CASE n # i /\ n # 0
    <3>1. f.artifacts[n] = e.artifacts[n]
      <4>1. Len(e.artifacts) \in Nat
        BY <1>3
      <4>2. n \in 1..Len(e.artifacts)
        BY <2>2, <4>1
      <4>3. as[n] = e.artifacts[n]
        BY <1>5, <2>2, <4>2
      <4> QED BY <1>6, <4>3
    <3> QED BY <1>6, <2>2, <3>1 DEF Copies
  <2>3. CASE n = 0
    BY <1>6, <2>3 DEF Copies
  <2> QED BY <2>1, <2>2, <2>3
<1>9. c \in 1..3
  OBVIOUS
<1>10. Near(e, f)
  <2>1. Len(f.artifacts) = Len(e.artifacts)
    BY <1>4, <1>6
  <2> QED BY <1>7, <1>8, <1>9, <2>1, NearIf
<1> QED BY <1>1, <1>2, <1>10

\* and one with an identity of the provenance replaced.
LEMMA ProvenanceReplaced ==
    ASSUME NEW e, Paired(e), NEW id \in Digest
    PROVE  /\ Near(e, [e EXCEPT !.sourceIdentity = id])
           /\ \A i \in DOMAIN e.outputs : Near(e, [e EXCEPT !.outputs = [e.outputs EXCEPT ![i] = id]])
<1>1. Near(e, [e EXCEPT !.sourceIdentity = id])
  <2>1. PICK f : f = [e EXCEPT !.sourceIdentity = id]
    OBVIOUS
  <2>2. /\ f \in Shape /\ f.source = e.source /\ f.artifacts = e.artifacts /\ f.outputs = e.outputs
    BY <2>1 DEF Paired, Shape
  <2>3. Paired(f)
    BY <2>2 DEF Paired
  <2>4. ASSUME NEW n \in 0..Len(e.artifacts), NEW d \in 1..3 \ {3} PROVE Copies(f, n)[d] = Copies(e, n)[d]
    BY <2>2 DEF Copies
  <2>5. 3 \in 1..3
    OBVIOUS
  <2>6. Near(e, f)
    <3>1. Len(f.artifacts) = Len(e.artifacts)
      BY <2>2
    <3> QED BY <2>3, <2>4, <2>5, <3>1, NearIf
  <2> QED BY <2>1, <2>6
<1>2. ASSUME NEW i \in DOMAIN e.outputs PROVE Near(e, [e EXCEPT !.outputs = [e.outputs EXCEPT ![i] = id]])
  <2>1. PICK os : os = [e.outputs EXCEPT ![i] = id]
    OBVIOUS
  <2>2. PICK f : f = [e EXCEPT !.outputs = os]
    OBVIOUS
  <2>3. e.outputs \in Seq(Digest)
    BY DEF Paired, Shape
  <2>4. os \in Seq(Digest) /\ Len(os) = Len(e.outputs)
    BY <2>1, <2>3
  <2>5. /\ f \in Shape /\ f.source = e.source /\ f.artifacts = e.artifacts /\ f.outputs = os
        /\ f.sourceIdentity = e.sourceIdentity
    BY <2>2, <2>4 DEF Paired, Shape
  <2>6. Paired(f)
    BY <2>4, <2>5 DEF Paired
  <2>7. ASSUME NEW n \in 0..Len(e.artifacts), NEW d \in 1..3 \ {3} PROVE Copies(f, n)[d] = Copies(e, n)[d]
    BY <2>5 DEF Copies
  <2>8. 3 \in 1..3
    OBVIOUS
  <2>9. Near(e, f)
    <3>1. Len(f.artifacts) = Len(e.artifacts)
      BY <2>5
    <3> QED BY <2>6, <2>7, <2>8, <3>1, NearIf
  <2> QED BY <2>1, <2>2, <2>9
<1> QED BY <1>1, <1>2

\* A corrupted reference is a reference still.
LEMMA KnownReferences == ASSUME Paired(reloaded), NEW id \in Known PROVE id \in Reference
<1>1. CASE \E c \in Contents : id = Identity(c)
  <2>1. PICK c \in Contents : id = Identity(c)
    BY <1>1
  <2>2. c \in [data : Nat, size : Nat]
    BY CustodyAssumption
  <2>3. id = <<"sha256", c.data, c.size>>
    BY <2>1 DEF Identity
  <2> QED BY <2>2, <2>3 DEF Reference, Digest
<1>2. CASE \E n \in 0..Len(reloaded.artifacts) : id = ArtifactID(n)
  <2>1. PICK n \in 0..Len(reloaded.artifacts) : id = <<"artifact", n>>
    BY <1>2 DEF ArtifactID
  <2>2. n \in Nat
    OBVIOUS
  <2> QED BY <2>1, <2>2 DEF Reference
<1> QED BY <1>1, <1>2 DEF Known

\* Contents have identities, and fit in buffers.
LEMMA ContentTypes ==
    ASSUME NEW c \in Contents
    PROVE  /\ Identity(c) \in Digest
           /\ \A b \in Buffer : Overwrite(b, c) \in Buffer
<1>1. c.data \in Nat /\ c.size \in Nat
  BY CustodyAssumption
<1>2. Identity(c) \in Digest
  BY <1>1 DEF Identity, Digest
<1>3. ASSUME NEW b \in Buffer PROVE Overwrite(b, c) \in Buffer
  BY <1>1 DEF Overwrite, Buffer
<1> QED BY <1>2, <1>3

\* A step of corruption changes one field at most of what identifies an object.
LEMMA OneCorrupted ==
    ASSUME Paired(reloaded), CorruptBytes \/ CorruptIdentity \/ CorruptReference
    PROVE  Near(reloaded, reloaded')
<1>1. PICK e : e = reloaded
  OBVIOUS
<1>2. /\ e \in Shape /\ e.source \in [bytes : Buffer, identity : Digest, length : Nat]
      /\ e.artifacts \in Seq(Object) /\ Paired(e)
  BY <1>1 DEF Paired, Shape
<1>3. \A i \in DOMAIN e.artifacts : e.artifacts[i] \in Object
  BY <1>2
<1>4. 1 \in 1..2 /\ 2 \in 1..2
  OBVIOUS
<1>5. CASE CorruptBytes
  <2>1. PICK c \in Contents :
          \/ reloaded' = [e EXCEPT !.source.bytes = Overwrite(@, c)]
          \/ \E i \in DOMAIN e.artifacts : reloaded' = [e EXCEPT !.artifacts[i].bytes = Overwrite(@, c)]
    BY <1>1, <1>5 DEF CorruptBytes, Damaged, Places
  <2>2. CASE reloaded' = [e EXCEPT !.source.bytes = Overwrite(@, c)]
    <3>1. PICK s : s = [e.source EXCEPT !.bytes = Overwrite(e.source.bytes, c)]
      OBVIOUS
    <3>2. s \in [bytes : Buffer, identity : Digest, length : Nat] /\ s.identity = e.source.identity
      BY <1>2, <3>1, ContentTypes
    <3>3. reloaded' = [e EXCEPT !.source = s]
      BY <2>2, <3>1
    <3>4. Near(e, [e EXCEPT !.source = s])
      BY <1>2, <1>4, <3>2, SourceReplaced
    <3> QED BY <1>1, <3>3, <3>4
  <2>3. CASE \E i \in DOMAIN e.artifacts : reloaded' = [e EXCEPT !.artifacts[i].bytes = Overwrite(@, c)]
    <3>1. PICK i \in DOMAIN e.artifacts : reloaded' = [e EXCEPT !.artifacts[i].bytes = Overwrite(@, c)]
      BY <2>3
    <3>2. PICK a : a = [e.artifacts[i] EXCEPT !.bytes = Overwrite(e.artifacts[i].bytes, c)]
      OBVIOUS
    <3>3. a \in Object /\ a.identity = e.artifacts[i].identity
      BY <1>3, <3>2, ContentTypes DEF Object
    <3>4. reloaded' = [e EXCEPT !.artifacts = [e.artifacts EXCEPT ![i] = a]]
      BY <3>1, <3>2
    <3>5. Near(e, [e EXCEPT !.artifacts = [e.artifacts EXCEPT ![i] = a]])
      BY <1>2, <1>4, <3>3, ArtifactReplaced
    <3> QED BY <1>1, <3>4, <3>5
  <2> QED BY <2>1, <2>2, <2>3
<1>6. CASE CorruptIdentity
  <2>1. PICK id \in Digest :
          \/ reloaded' = [e EXCEPT !.source.identity = id]
          \/ reloaded' = [e EXCEPT !.sourceIdentity = id]
          \/ \E i \in DOMAIN e.artifacts : reloaded' = [e EXCEPT !.artifacts[i].identity = id]
          \/ \E i \in DOMAIN e.outputs : reloaded' = [e EXCEPT !.outputs[i] = id]
    <3>1. PICK c \in Contents :
          \/ reloaded' = [e EXCEPT !.source.identity = Identity(c)]
          \/ reloaded' = [e EXCEPT !.sourceIdentity = Identity(c)]
          \/ \E i \in DOMAIN e.artifacts : reloaded' = [e EXCEPT !.artifacts[i].identity = Identity(c)]
          \/ \E i \in DOMAIN e.outputs : reloaded' = [e EXCEPT !.outputs[i] = Identity(c)]
      BY <1>1, <1>6, Zenon DEF CorruptIdentity, Damaged, Places
    <3>2. Identity(c) \in Digest
      BY ContentTypes
    <3> QED BY <3>1, <3>2
  <2>2. CASE reloaded' = [e EXCEPT !.source.identity = id]
    <3>1. PICK s : s = [e.source EXCEPT !.identity = id]
      OBVIOUS
    <3>2. s \in [bytes : Buffer, identity : Digest, length : Nat] /\ s.bytes = e.source.bytes
      BY <1>2, <3>1
    <3>3. reloaded' = [e EXCEPT !.source = s]
      BY <2>2, <3>1
    <3>4. Near(e, [e EXCEPT !.source = s])
      BY <1>2, <1>4, <3>2, SourceReplaced
    <3> QED BY <1>1, <3>3, <3>4
  <2>3. CASE reloaded' = [e EXCEPT !.sourceIdentity = id]
    BY <1>1, <1>2, <2>3, ProvenanceReplaced
  <2>4. CASE \E i \in DOMAIN e.artifacts : reloaded' = [e EXCEPT !.artifacts[i].identity = id]
    <3>1. PICK i \in DOMAIN e.artifacts : reloaded' = [e EXCEPT !.artifacts[i].identity = id]
      BY <2>4
    <3>2. PICK a : a = [e.artifacts[i] EXCEPT !.identity = id]
      OBVIOUS
    <3>3. a \in Object /\ a.bytes = e.artifacts[i].bytes
      BY <1>3, <3>2 DEF Object
    <3>4. reloaded' = [e EXCEPT !.artifacts = [e.artifacts EXCEPT ![i] = a]]
      BY <3>1, <3>2
    <3>5. Near(e, [e EXCEPT !.artifacts = [e.artifacts EXCEPT ![i] = a]])
      BY <1>2, <1>4, <3>3, ArtifactReplaced
    <3> QED BY <1>1, <3>4, <3>5
  <2>5. CASE \E i \in DOMAIN e.outputs : reloaded' = [e EXCEPT !.outputs[i] = id]
    <3>1. PICK i \in DOMAIN e.outputs : reloaded' = [e EXCEPT !.outputs[i] = id]
      BY <2>5
    <3>2. reloaded' = [e EXCEPT !.outputs = [e.outputs EXCEPT ![i] = id]]
      BY <3>1
    <3> QED BY <1>1, <1>2, <3>2, ProvenanceReplaced
  <2> QED BY <2>1, <2>2, <2>3, <2>4, <2>5
<1>7. CASE CorruptReference
  <2>1. PICK i \in DOMAIN e.artifacts, id \in Known :
          \/ reloaded' = [e EXCEPT !.artifacts[i].id = id]
          \/ \E j \in DOMAIN e.artifacts[i].relations :
                \/ reloaded' = [e EXCEPT !.artifacts[i].relations[j].from = id]
                \/ reloaded' = [e EXCEPT !.artifacts[i].relations[j].to = id]
    <3>1. PICK i \in DOMAIN reloaded.artifacts, id \in Known :
          \/ Damaged(1, [reloaded EXCEPT !.artifacts[i].id = id])
          \/ \E j \in DOMAIN reloaded.artifacts[i].relations :
                \/ Damaged(1, [reloaded EXCEPT !.artifacts[i].relations[j].from = id])
                \/ Damaged(1, [reloaded EXCEPT !.artifacts[i].relations[j].to = id])
      BY <1>7, Zenon DEF CorruptReference, Places
    <3>2. \A f : Damaged(1, f) => reloaded' = f
      BY DEF Damaged
    <3> DEFINE named(f) == [f EXCEPT !.artifacts[i].id = id]
               sent(f, j) == [f EXCEPT !.artifacts[i].relations[j].from = id]
               received(f, j) == [f EXCEPT !.artifacts[i].relations[j].to = id]
    <3>3. \/ reloaded' = named(reloaded)
          \/ \E j \in DOMAIN reloaded.artifacts[i].relations :
                reloaded' = sent(reloaded, j) \/ reloaded' = received(reloaded, j)
      BY <3>1, <3>2, Zenon
    <3> HIDE DEF named, sent, received
    <3>4. \/ reloaded' = named(e)
          \/ \E j \in DOMAIN e.artifacts[i].relations : reloaded' = sent(e, j) \/ reloaded' = received(e, j)
      BY <1>1, <3>3
    <3>5. i \in DOMAIN e.artifacts /\ id \in Known
      BY <1>1, <3>1
    <3> QED BY <3>4, <3>5, Zenon DEF named, sent, received
  <2>2. id \in Reference
    BY <1>1, <1>2, KnownReferences
  <2>3. PICK o : o = e.artifacts[i]
    OBVIOUS
  <2>4. o \in Object /\ o.relations \in Seq(Link) /\ \A j \in DOMAIN o.relations : o.relations[j] \in Link
    <3>1. o \in Object /\ o.relations \in Seq(Link)
      BY <1>3, <2>3 DEF Object
    <3> QED BY <3>1
  <2>5. PICK a \in Object : /\ reloaded' = [e EXCEPT !.artifacts = [e.artifacts EXCEPT ![i] = a]]
                            /\ a.bytes = o.bytes /\ a.identity = o.identity
    <3>1. CASE reloaded' = [e EXCEPT !.artifacts[i].id = id]
      <4>1. PICK a : a = [o EXCEPT !.id = id]
        OBVIOUS
      <4>2. a \in Object /\ a.bytes = o.bytes /\ a.identity = o.identity
        BY <2>2, <2>4, <4>1 DEF Object
      <4>3. reloaded' = [e EXCEPT !.artifacts = [e.artifacts EXCEPT ![i] = a]]
        BY <2>3, <3>1, <4>1
      <4> QED BY <4>2, <4>3
    <3>2. ASSUME NEW j \in DOMAIN o.relations, NEW r \in Link,
                 reloaded' = [e EXCEPT !.artifacts =
                                [e.artifacts EXCEPT ![i] = [o EXCEPT !.relations = [o.relations EXCEPT ![j] = r]]]]
          PROVE  \E a \in Object : /\ reloaded' = [e EXCEPT !.artifacts = [e.artifacts EXCEPT ![i] = a]]
                                   /\ a.bytes = o.bytes /\ a.identity = o.identity
      <4>1. PICK s : s = [o.relations EXCEPT ![j] = r]
        OBVIOUS
      <4>2. s \in Seq(Link)
        BY <2>4, <3>2, <4>1
      <4>3. PICK a : a = [o EXCEPT !.relations = s]
        OBVIOUS
      <4>4. a \in Object /\ a.bytes = o.bytes /\ a.identity = o.identity
        BY <2>4, <4>2, <4>3 DEF Object
      <4>5. reloaded' = [e EXCEPT !.artifacts = [e.artifacts EXCEPT ![i] = a]]
        BY <3>2, <4>1, <4>3
      <4> QED BY <4>4, <4>5
    <3>3. CASE \E j \in DOMAIN o.relations : reloaded' = [e EXCEPT !.artifacts[i].relations[j].from = id]
      <4>1. PICK j \in DOMAIN o.relations : reloaded' = [e EXCEPT !.artifacts[i].relations[j].from = id]
        BY <3>3
      <4>2. PICK r : r = [o.relations[j] EXCEPT !.from = id]
        OBVIOUS
      <4>3. r \in Link
        BY <2>2, <2>4, <4>2 DEF Link
      <4>4. reloaded' = [e EXCEPT !.artifacts =
                            [e.artifacts EXCEPT ![i] = [o EXCEPT !.relations = [o.relations EXCEPT ![j] = r]]]]
        BY <2>3, <4>1, <4>2
      <4> QED BY <3>2, <4>3, <4>4
    <3>4. CASE \E j \in DOMAIN o.relations : reloaded' = [e EXCEPT !.artifacts[i].relations[j].to = id]
      <4>1. PICK j \in DOMAIN o.relations : reloaded' = [e EXCEPT !.artifacts[i].relations[j].to = id]
        BY <3>4
      <4>2. PICK r : r = [o.relations[j] EXCEPT !.to = id]
        OBVIOUS
      <4>3. r \in Link
        BY <2>2, <2>4, <4>2 DEF Link
      <4>4. reloaded' = [e EXCEPT !.artifacts =
                            [e.artifacts EXCEPT ![i] = [o EXCEPT !.relations = [o.relations EXCEPT ![j] = r]]]]
        BY <2>3, <4>1, <4>2
      <4> QED BY <3>2, <4>3, <4>4
    <3> QED BY <2>1, <2>3, <3>1, <3>3, <3>4
  <2>6. a.identity = e.artifacts[i].identity
    BY <2>3, <2>5
  <2>7. Near(e, [e EXCEPT !.artifacts = [e.artifacts EXCEPT ![i] = a]])
    BY <1>2, <1>4, <2>5, <2>3, <2>6, ArtifactReplaced
  <2> QED BY <1>1, <2>5, <2>7
<1> QED BY <1>5, <1>6, <1>7

\* What a misplaced object leaves alone.
LEMMA ProvenanceStays ==
    ASSUME Paired(reloaded), Lose \/ Repeat \/ Exchange \/ Substitute
    PROVE  /\ reloaded' \in Shape
           /\ reloaded'.outputs = reloaded.outputs /\ reloaded'.sourceIdentity = reloaded.sourceIdentity
<1>1. PICK e : e = reloaded
  OBVIOUS
<1>2. /\ e \in Shape /\ e.artifacts \in Seq(Object) /\ Len(e.artifacts) \in Nat
      /\ \A i \in DOMAIN e.artifacts : e.artifacts[i] \in Object
  <2>1. e \in Shape /\ e.artifacts \in Seq(Object)
    BY <1>1 DEF Paired, Shape
  <2> QED BY <2>1
<1>3. ASSUME NEW as \in Seq(Object), reloaded' = [e EXCEPT !.artifacts = as]
      PROVE  /\ reloaded' \in Shape
             /\ reloaded'.outputs = reloaded.outputs /\ reloaded'.sourceIdentity = reloaded.sourceIdentity
  <2>1. PICK f : f = [e EXCEPT !.artifacts = as]
    OBVIOUS
  <2>2. f \in Shape /\ f.outputs = e.outputs /\ f.sourceIdentity = e.sourceIdentity
    BY <1>2, <2>1 DEF Shape
  <2> QED BY <1>1, <1>3, <2>1, <2>2
<1>4. \A n, f : Damaged(n, f) => reloaded' = f
  BY DEF Damaged
<1>5. CASE Lose
  <2>1. PICK i \in DOMAIN e.artifacts :
          reloaded' = [e EXCEPT !.artifacts = [j \in 1..(Len(@) - 1) |-> @[IF j < i THEN j ELSE j + 1]]]
    BY <1>1, <1>4, <1>5, Zenon DEF Lose, Places
  <2>2. PICK as : as = [j \in 1..(Len(e.artifacts) - 1) |-> e.artifacts[IF j < i THEN j ELSE j + 1]]
    OBVIOUS
  <2>3. as \in Seq(Object)
    <3>1. PICK m : m = Len(e.artifacts) - 1
      OBVIOUS
    <3>2. m \in Nat
      BY <1>2, <3>1
    <3>3. \A j \in 1..m : e.artifacts[IF j < i THEN j ELSE j + 1] \in Object
      <4> SUFFICES ASSUME NEW j \in 1..m PROVE e.artifacts[IF j < i THEN j ELSE j + 1] \in Object
        OBVIOUS
      <4>1. (IF j < i THEN j ELSE j + 1) \in DOMAIN e.artifacts
        BY <1>2, <3>1
      <4> QED BY <1>2, <4>1
    <3> QED BY <2>2, <3>1, <3>2, <3>3
  <2>4. reloaded' = [e EXCEPT !.artifacts = as]
    BY <2>1, <2>2
  <2> QED BY <1>3, <2>3, <2>4
<1>6. CASE Repeat
  <2>1. PICK i \in DOMAIN e.artifacts : reloaded' = [e EXCEPT !.artifacts = Append(@, @[i])]
    BY <1>1, <1>4, <1>6, Zenon DEF Repeat, Places
  <2>2. PICK as : as = Append(e.artifacts, e.artifacts[i])
    OBVIOUS
  <2>3. as \in Seq(Object)
    BY <1>2, <2>2
  <2>4. reloaded' = [e EXCEPT !.artifacts = as]
    BY <2>1, <2>2
  <2> QED BY <1>3, <2>3, <2>4
<1>7. CASE Exchange
  <2>1. PICK i, j \in DOMAIN e.artifacts :
          reloaded' = [e EXCEPT !.artifacts[i] = e.artifacts[j], !.artifacts[j] = e.artifacts[i]]
    <3>1. PICK i, j \in DOMAIN reloaded.artifacts :
            Damaged(2, [reloaded EXCEPT !.artifacts[i] = reloaded.artifacts[j],
                                        !.artifacts[j] = reloaded.artifacts[i]])
      BY <1>7, Zenon DEF Exchange, Places
    <3>2. reloaded' = [reloaded EXCEPT !.artifacts[i] = reloaded.artifacts[j],
                                       !.artifacts[j] = reloaded.artifacts[i]]
      BY <1>4, <3>1, Zenon
    <3> QED BY <1>1, <3>1, <3>2
  <2>2. PICK as : as = [e.artifacts EXCEPT ![i] = e.artifacts[j], ![j] = e.artifacts[i]]
    OBVIOUS
  <2>3. as \in Seq(Object)
    <3>1. e.artifacts[i] \in Object /\ e.artifacts[j] \in Object
      BY <1>2, <2>1
    <3> QED BY <1>2, <2>1, <2>2, <3>1
  <2>4. reloaded' = [e EXCEPT !.artifacts = as]
    BY <2>1, <2>2
  <2> QED BY <1>3, <2>3, <2>4
<1>8. CASE Substitute
  <2>1. PICK other \in Sound :
          \/ reloaded' = [e EXCEPT !.source = other.source]
          \/ \E i \in DOMAIN e.artifacts \cap DOMAIN other.artifacts :
                reloaded' = [e EXCEPT !.artifacts[i] = other.artifacts[i]]
    <3>1. PICK other \in Sound :
            \/ Damaged(2, [reloaded EXCEPT !.source = other.source])
            \/ \E i \in DOMAIN reloaded.artifacts \cap DOMAIN other.artifacts :
                  Damaged(2, [reloaded EXCEPT !.artifacts[i] = other.artifacts[i]])
      BY <1>8, Zenon DEF Substitute, Places
    <3>2. \/ reloaded' = [reloaded EXCEPT !.source = other.source]
          \/ \E i \in DOMAIN reloaded.artifacts \cap DOMAIN other.artifacts :
                reloaded' = [reloaded EXCEPT !.artifacts[i] = other.artifacts[i]]
      BY <1>4, <3>1, Zenon
    <3> QED BY <1>1, <3>1, <3>2
  <2>2. other \in Shape
    BY <2>1, CustodyAssumption DEF Sound
  <2>3. CASE reloaded' = [e EXCEPT !.source = other.source]
    <3>1. PICK s : s = other.source
      OBVIOUS
    <3>2. s \in [bytes : Buffer, identity : Digest, length : Nat]
      BY <2>2, <3>1 DEF Shape
    <3>3. PICK f : f = [e EXCEPT !.source = s]
      OBVIOUS
    <3>4. f \in Shape /\ f.outputs = e.outputs /\ f.sourceIdentity = e.sourceIdentity
      BY <1>2, <3>2, <3>3 DEF Shape
    <3> QED BY <1>1, <2>3, <3>1, <3>3, <3>4
  <2>4. CASE \E i \in DOMAIN e.artifacts \cap DOMAIN other.artifacts :
                reloaded' = [e EXCEPT !.artifacts[i] = other.artifacts[i]]
    <3>1. PICK i \in DOMAIN e.artifacts \cap DOMAIN other.artifacts :
                reloaded' = [e EXCEPT !.artifacts[i] = other.artifacts[i]]
      BY <2>4
    <3>2. other.artifacts[i] \in Object
      BY <2>2, <3>1, ShapeParts
    <3>3. PICK as : as = [e.artifacts EXCEPT ![i] = other.artifacts[i]]
      OBVIOUS
    <3>4. as \in Seq(Object)
      BY <1>2, <3>1, <3>2, <3>3
    <3>5. reloaded' = [e EXCEPT !.artifacts = as]
      BY <3>1, <3>3
    <3> QED BY <1>3, <3>4, <3>5
  <2> QED BY <2>1, <2>3, <2>4
<1> QED BY <1>5, <1>6, <1>7, <1>8

(* In an envelope that verifies the three copies agree, and there is one   *)
(* identity in the provenance for each output.                             *)
LEMMA CopiesAgree ==
    ASSUME NEW e \in Shape, VerifyEnvelope(e)
    PROVE  /\ Paired(e)
           /\ \A n \in 0..Len(e.artifacts) : \A c \in 1..3 :
                Copies(e, n)[c] = IF n = 0 THEN Identity(e.source.bytes)
                                           ELSE Identity(e.artifacts[n].bytes)
<1>1. PICK N, s : N = Len(e.artifacts) /\ s = e.artifacts
  OBVIOUS
<1>2. N \in Nat /\ DOMAIN s = 1..N /\ s = [i \in 1..N |-> s[i]]
  <2>1. s \in Seq(Object)
    BY <1>1, ShapeParts
  <2> QED BY <1>1, <2>1
<1>3. PICK x : x = e.primary
  OBVIOUS
<1>4. PICK all : all = <<x>> \o s
  OBVIOUS
<1>5. Len(all) = N + 1 /\ \A i \in 1..N : all[i + 1] = s[i]
  BY <1>2, <1>4, PutInFront
<1>6. Outputs(e) = all
  BY <1>1, <1>3, <1>4, Zenon DEF Outputs
<1>7. e.outputs = [i \in 1..(N + 1) |-> all[i].identity] /\ e.sourceIdentity = e.source.identity
  BY <1>5, <1>6 DEF VerifyEnvelope, ProvenanceHolds
<1>8. Paired(e)
  <2>1. N + 1 \in Nat
    BY <1>2
  <2>2. Len(e.outputs) = N + 1
    BY <1>7, <2>1
  <2> QED BY <1>1, <2>2 DEF Paired
<1>9. e.source.identity = Identity(e.source.bytes)
  BY DEF VerifyEnvelope, SourceHolds
<1>10. \A i \in 1..N : e.artifacts[i].identity = Identity(e.artifacts[i].bytes)
  BY <1>1, Zenon DEF VerifyEnvelope, InventoryHolds, ObjectHolds
<1>11. \A i \in 1..N : e.outputs[i + 1] = e.artifacts[i].identity
  <2> SUFFICES ASSUME NEW i \in 1..N PROVE e.outputs[i + 1] = e.artifacts[i].identity
    OBVIOUS
  <2>1. i + 1 \in 1..(N + 1) /\ all[i + 1] = s[i]
    BY <1>2, <1>5
  <2> QED BY <1>1, <1>7, <2>1
<1>12. ASSUME NEW n \in 0..N, NEW c \in 1..3
       PROVE  Copies(e, n)[c] = IF n = 0 THEN Identity(e.source.bytes) ELSE Identity(e.artifacts[n].bytes)
  <2>1. CASE n = 0
    <3>1. PICK id : id = Identity(e.source.bytes)
      OBVIOUS
    <3>2. Copies(e, n) = <<id, id, id>>
      BY <1>7, <1>9, <2>1, <3>1 DEF Copies
    <3> QED BY <2>1, <3>1, <3>2
  <2>2. CASE n # 0
    <3>1. PICK id : id = Identity(e.artifacts[n].bytes)
      OBVIOUS
    <3>2. n \in 1..N
      BY <1>2, <2>2
    <3>3. Copies(e, n) = <<id, id, id>>
      BY <1>10, <1>11, <2>2, <3>1, <3>2 DEF Copies
    <3> QED BY <2>2, <3>1, <3>3
  <2> QED BY <2>1, <2>2
<1> QED BY <1>1, <1>8, <1>12

\* Two near steps leave a copy of each object's identity where it was.
LEMMA NearTwice ==
    ASSUME NEW e, NEW f, NEW g, Near(e, f), Near(f, g)
    PROVE  \A n \in 0..Len(e.artifacts) : \E c \in 1..3 : c \notin Apart(e, g, n)
<1> SUFFICES ASSUME NEW n \in 0..Len(e.artifacts) PROVE \E c \in 1..3 : c \notin Apart(e, g, n)
  OBVIOUS
<1>1. PICK a \in 1..3 : Apart(e, f, n) \subseteq {a}
  BY DEF Near
<1>2. PICK b \in 1..3 : Apart(f, g, n) \subseteq {b}
  BY DEF Near
<1>3. PICK c \in 1..3 : c # a /\ c # b
  OBVIOUS
<1>4. c \notin Apart(e, f, n) /\ c \notin Apart(f, g, n)
  BY <1>1, <1>2, <1>3
<1>5. Copies(e, n)[c] = Copies(f, n)[c] /\ Copies(f, n)[c] = Copies(g, n)[c]
  BY <1>3, <1>4 DEF Apart
<1> QED BY <1>3, <1>5 DEF Apart

\* One copy at least stays where it was while two fields are corrupted or one
\* object is misplaced, and none is ever added to the provenance.
CopyStays ==
    /\ reloaded \in Shape /\ Len(reloaded.outputs) = Len(original.outputs)
    /\ \A n \in 0..Len(original.artifacts) : \E c \in 1..3 : c \notin Apart(original, reloaded, n)

TamperingInv ==
    /\ renumbered => damage = 0
    /\ damage > 0 => original \in Sound
    /\ damage = 1 => Near(original, reloaded)
    /\ damage = 2 => CopyStays

\* What is damaged verified when it was stored.
LEMMA SoundIsPaired == ASSUME original \in Sound PROVE Paired(original) /\ original \in Shape /\ VerifyEnvelope(original)
<1>1. original \in Shape /\ VerifyEnvelope(original)
  BY CustodyAssumption DEF Sound
<1> QED BY <1>1, CopiesAgree

\* TamperingInv holds from the start and at every step.
LEMMA TamperingInvHolds == CustodySpec => [](CustodyInv /\ TamperingInv)
<1>1. CustodyInit => TamperingInv
  BY DEF CustodyInit, TamperingInv
<1>2. ASSUME CustodyInv, TamperingInv, [CustodyNext]_custodyVars PROVE TamperingInv'
  <2>1. damage \in Nat /\ (damage = 0 /\ ~renumbered => reloaded = original)
    BY <1>2 DEF CustodyInv
  <2>0. damage \in Nat
    BY <2>1, Zenon
  <2>2. CASE Corrupt
    <3>1. /\ original \in Sound /\ ~renumbered /\ original' = original /\ renumbered' = renumbered
          /\ damage' = damage + 1
          /\ CorruptBytes \/ CorruptIdentity \/ CorruptReference
      <4>1. /\ original \in Sound /\ ~renumbered
            /\ CorruptBytes \/ CorruptIdentity \/ CorruptReference
        BY <2>2 DEF Corrupt
      <4>2. \E e : Damaged(1, e)
        BY <4>1, Zenon DEF CorruptBytes, CorruptIdentity, CorruptReference
      <4> QED BY <4>1, <4>2 DEF Damaged
    <3>2. Paired(original)
      BY <3>1, SoundIsPaired
    <3>6. (original \in Sound)' /\ ~renumbered'
      <4>1. (original \in Sound)'
        BY <3>1 DEF Sound
      <4>2. ~renumbered'
        BY <3>1, Zenon
      <4> QED BY <4>1, <4>2, Zenon
    <3>7. damage' = damage + 1
      BY <3>1, Zenon
    <3>3. CASE damage = 0
      <4>1. Near(original, reloaded')
        BY <2>1, <3>1, <3>2, <3>3, OneCorrupted
      <4>2. Near(original, reloaded)'
        BY <3>1, <4>1 DEF Near, Apart, Copies, Paired
      <4> QED BY <3>3, <3>6, <3>7, <4>2 DEF TamperingInv
    <3>4. CASE damage = 1
      <4>1. Near(original, reloaded)
        BY <1>2, <3>4 DEF TamperingInv
      <4>2. Near(reloaded, reloaded')
        BY <3>1, <4>1, OneCorrupted DEF Near
      <4>3. \A n \in 0..Len(original.artifacts) : \E c \in 1..3 : c \notin Apart(original, reloaded', n)
        BY <4>1, <4>2, NearTwice
      <4>4. reloaded' \in Shape /\ Len(reloaded'.outputs) = Len(original.outputs)
        BY <3>2, <4>1, <4>2 DEF Near, Paired
      <4>5. CopyStays'
        BY <3>1, <4>3, <4>4 DEF CopyStays, Apart, Copies
      <4> QED BY <3>4, <3>6, <3>7, <4>5 DEF TamperingInv
    <3>5. CASE damage > 1
      BY <2>0, <3>5, <3>6, <3>7 DEF TamperingInv
    <3> QED BY <2>0, <3>3, <3>4, <3>5
  <2>3. CASE Misplace
    <3>1. /\ original \in Sound /\ ~renumbered /\ original' = original /\ renumbered' = renumbered
          /\ damage' = damage + 2
          /\ Lose \/ Repeat \/ Exchange \/ Substitute
      <4>1. original \in Sound /\ ~renumbered /\ (Lose \/ Repeat \/ Exchange \/ Substitute)
        BY <2>3 DEF Misplace
      <4>2. \E e : Damaged(2, e)
        BY <4>1, Zenon DEF Lose, Repeat, Exchange, Substitute
      <4> QED BY <4>1, <4>2 DEF Damaged
    <3>4. (original \in Sound)' /\ ~renumbered'
      <4>1. (original \in Sound)'
        BY <3>1 DEF Sound
      <4>2. ~renumbered'
        BY <3>1, Zenon
      <4> QED BY <4>1, <4>2, Zenon
    <3>5. damage' = damage + 2
      BY <3>1, Zenon
    <3>2. CASE damage = 0
      <4>1. reloaded = original /\ Paired(reloaded)
        BY <2>1, <3>1, <3>2, SoundIsPaired
      <4>2. /\ reloaded' \in Shape /\ reloaded'.outputs = original.outputs
            /\ reloaded'.sourceIdentity = original.sourceIdentity
        BY <3>1, <4>1, ProvenanceStays
      <4>3. ASSUME NEW n \in 0..Len(original.artifacts)
            PROVE  \E c \in 1..3 : c \notin Apart(original, reloaded', n)
        <5>1. Copies(reloaded', n)[3] = Copies(original, n)[3]
          BY <4>2 DEF Copies
        <5> QED BY <5>1 DEF Apart
      <4>4. CopyStays'
        BY <3>1, <4>2, <4>3 DEF CopyStays, Apart, Copies
      <4> QED BY <3>2, <3>4, <3>5, <4>4 DEF TamperingInv
    <3>3. CASE damage > 0
      BY <2>0, <3>3, <3>4, <3>5 DEF TamperingInv
    <3> QED BY <2>0, <3>2, <3>3
  <2>4. CASE Renumber
    BY <2>4 DEF Renumber, TamperingInv
  <2>5. CASE UNCHANGED custodyVars
    BY <1>2, <2>5 DEF custodyVars, TamperingInv, CopyStays, Near, Apart, Copies, Paired
  <2> QED BY <1>2, <2>2, <2>3, <2>4, <2>5 DEF CustodyNext, Keep
<1> QED BY <1>1, <1>2, CustodyInvHolds, PTL DEF CustodySpec

(* What verifies after two fields were corrupted, or an object lost,       *)
(* repeated, exchanged or replaced, still holds the bytes that were        *)
(* stored, each under its identifier, whatever was stored: a third field   *)
(* must be wrong before a wrong byte goes unnoticed                        *)
(* (ingestion_verify.go:134-155, 343-350, spec.md SC-005).                 *)
THEOREM TwoFaultsShow == CustodySpec => []TamperingShows
<1>1. CustodyInv /\ TamperingInv => TamperingShows
  <2> SUFFICES ASSUME CustodyInv, TamperingInv, damage \in 1..2, VerifyEnvelope(reloaded)
               PROVE  Record(reloaded) = Record(original)
    BY DEF TamperingShows
  <2>1. PICK o, e : o = original /\ e = reloaded
    OBVIOUS
  <2>2. o \in Shape /\ VerifyEnvelope(o) /\ Paired(o)
    BY <2>1, SoundIsPaired DEF TamperingInv
  <2>3. CopyStays
    <3>1. CASE damage = 1
      <4>1. Near(original, reloaded)
        BY <3>1 DEF TamperingInv
      <4>2. reloaded \in Shape /\ Len(reloaded.outputs) = Len(original.outputs)
        BY <2>1, <2>2, <4>1 DEF Near, Paired
      <4>3. ASSUME NEW n \in 0..Len(original.artifacts)
            PROVE  \E c \in 1..3 : c \notin Apart(original, reloaded, n)
        <5>1. PICK c \in 1..3 : Apart(original, reloaded, n) \subseteq {c}
          BY <4>1 DEF Near
        <5>2. PICK d \in 1..3 : d # c
          OBVIOUS
        <5> QED BY <5>1, <5>2
      <4> QED BY <4>2, <4>3 DEF CopyStays
    <3>2. CASE damage = 2
      BY <3>2 DEF TamperingInv
    <3> QED BY <3>1, <3>2
  <2>4. /\ e \in Shape /\ VerifyEnvelope(e) /\ Len(e.outputs) = Len(o.outputs)
        /\ \A n \in 0..Len(o.artifacts) : \E c \in 1..3 : Copies(o, n)[c] = Copies(e, n)[c]
    BY <2>1, <2>3 DEF CopyStays, Apart
  <2>5. PICK N : N = Len(o.artifacts)
    OBVIOUS
  <2>6. /\ N \in Nat /\ Len(e.artifacts) = N
        /\ DOMAIN o.artifacts = 1..N /\ DOMAIN e.artifacts = 1..N
    <3>1. Paired(e)
      BY <2>4, CopiesAgree
    <3>2. N \in Nat /\ DOMAIN o.artifacts = 1..N
      BY <2>2, <2>5, ShapeParts
    <3>3. Len(e.artifacts) \in Nat /\ DOMAIN e.artifacts = 1..Len(e.artifacts)
      BY <2>4, ShapeParts
    <3> QED BY <2>2, <2>4, <2>5, <3>1, <3>2, <3>3 DEF Paired
  <2>7. ASSUME NEW n \in 0..N
        PROVE  (IF n = 0 THEN Identity(o.source.bytes) ELSE Identity(o.artifacts[n].bytes))
                 = (IF n = 0 THEN Identity(e.source.bytes) ELSE Identity(e.artifacts[n].bytes))
    <3>1. PICK c \in 1..3 : Copies(o, n)[c] = Copies(e, n)[c]
      BY <2>4, <2>5
    <3>2. Copies(o, n)[c] = IF n = 0 THEN Identity(o.source.bytes) ELSE Identity(o.artifacts[n].bytes)
      BY <2>2, <2>5, CopiesAgree
    <3>3. Copies(e, n)[c] = IF n = 0 THEN Identity(e.source.bytes) ELSE Identity(e.artifacts[n].bytes)
      BY <2>4, <2>6, CopiesAgree
    <3> QED BY <3>1, <3>2, <3>3
  <2>8. \A x, y : Identity(x) = Identity(y) => x.data = y.data /\ x.size = y.size
    BY DEF Identity
  <2>9. o.source.bytes.data = e.source.bytes.data /\ o.source.bytes.size = e.source.bytes.size
    <3>1. 0 \in 0..N
      BY <2>6
    <3>2. Identity(o.source.bytes) = Identity(e.source.bytes)
      BY <2>7, <3>1
    <3> QED BY <2>8, <3>2
  <2>10. ASSUME NEW i \in 1..N
         PROVE  <<o.artifacts[i].id, o.artifacts[i].bytes.data, o.artifacts[i].bytes.size>>
                  = <<e.artifacts[i].id, e.artifacts[i].bytes.data, e.artifacts[i].bytes.size>>
    <3>1. i \in 0..N /\ i # 0
      BY <2>6
    <3>2. Identity(o.artifacts[i].bytes) = Identity(e.artifacts[i].bytes)
      BY <2>7, <3>1
    <3>3. o.artifacts[i].id = ArtifactID(i)
      BY <2>2, <2>5, VerifiedParts DEF Numbered
    <3>4. e.artifacts[i].id = ArtifactID(i)
      BY <2>4, <2>6, VerifiedParts DEF Numbered
    <3> QED BY <2>8, <3>2, <3>3, <3>4
  <2>11. Record(e) = Record(o)
    <3>1. Record(o) = [source  |-> <<o.source.bytes.data, o.source.bytes.size>>,
                       objects |-> [i \in 1..N |->
                            <<o.artifacts[i].id, o.artifacts[i].bytes.data, o.artifacts[i].bytes.size>>]]
      BY <2>6 DEF Record
    <3>2. Record(e) = [source  |-> <<e.source.bytes.data, e.source.bytes.size>>,
                       objects |-> [i \in 1..N |->
                            <<e.artifacts[i].id, e.artifacts[i].bytes.data, e.artifacts[i].bytes.size>>]]
      BY <2>6 DEF Record
    <3>3. [i \in 1..N |-> <<o.artifacts[i].id, o.artifacts[i].bytes.data, o.artifacts[i].bytes.size>>]
            = [i \in 1..N |-> <<e.artifacts[i].id, e.artifacts[i].bytes.data, e.artifacts[i].bytes.size>>]
      BY <2>10
    <3> QED BY <2>9, <3>1, <3>2, <3>3
  <2> QED BY <2>1, <2>11
<1> QED BY <1>1, TamperingInvHolds, PTL
===============================================================================
