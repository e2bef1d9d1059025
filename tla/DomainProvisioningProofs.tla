---------------------- MODULE DomainProvisioningProofs ----------------------
(***************************************************************************)
(* Theorems about provisionDomain, for any runs, aliases, recipients,      *)
(* zones, options and faults.                                              *)
(***************************************************************************)
EXTENDS DomainProvisioning, FiniteSetTheorems, TLAPS

\* Where a run works on an alias, it has one; it verifies last, while it may.
AtWork == \A r \in Run :
  /\ pc[r] \in {"updating", "adding", "relisting"} => current[r] \in Alias
  /\ pc[r] = "verifying" => attempts[r] < MaxAttempts
  /\ pc[r] \in Working \ {"verifying"} => attempts[r] = 0

\* A run that looks again after a refusal finds what it was refused for.
RacesAreSettled == faults = 0 => \A r \in Run :
  /\ pc[r] = "again" => registered
  /\ pc[r] = "relisting" => alias[current[r]] # NoAlias

\* Nobody but an editor makes the domain a CNAME.
CnameIsAsListed == edits = 0 => \A r \in Run : listed[r].cname = zone.cname

ProvisionInvariant ==
  /\ ProvisionTypeOK
  /\ AtWork
  /\ RacesAreSettled
  /\ CnameIsAsListed
  /\ OverlappingRunsSucceed
  /\ IsFiniteSet(zone.spf)
-----------------------------------------------------------------------------
\* The batch, field by field.
IsBatch(w, z, l, o, f, spf, first) ==
  /\ w \in Zone
  /\ w.cname = z.cname
  /\ w.spf = IF l.cname THEN z.spf ELSE {ReformatSpf(spf)}
  /\ w.verification = IF l.cname THEN z.verification ELSE {"ours"}
  /\ w.text = IF l.cname THEN z.text ELSE Reformat(l.text)
  /\ w.mx = IF l.cname THEN z.mx ELSE {"ours"}
  /\ w.bimi = z.bimi
  /\ w.dkim = IF "dkim" \in o THEN {"ours"} ELSE z.dkim
  /\ w.dmarc = IF Overwrites(first, f) /\ "dmarc" \in o THEN {"ours"} ELSE z.dmarc

\* A value that is written anew is one, and one that is intact stays what it is.
LEMMA RewrittenFacts ==
  ASSUME NEW t \in Text
  PROVE  /\ Rewritten(t) \in Text
         /\ t \in Term => Rewritten(t) \in Term
         /\ Intact(t) => Rewritten(t) = t
<1>1. CASE t.form = "octal"
  <2>1. Rewritten(t) = [t EXCEPT !.form = "literal"]  BY <1>1 DEF Rewritten
  <2> QED  BY <1>1, <2>1 DEF Text, Form, Term, Intact
<1>2. CASE t.form = "quoted"
  <2>1. Rewritten(t) = [t EXCEPT !.form = "part"]  BY <1>2 DEF Rewritten
  <2> QED  BY <1>2, <2>1 DEF Text, Form, Term, Intact
<1>3. CASE t.form \notin {"octal", "quoted"}
  <2>1. Rewritten(t) = t  BY <1>3 DEF Rewritten
  <2> QED  BY <2>1
<1> QED  BY <1>1, <1>2, <1>3

\* An SPF record that is written anew keeps its include and its all-mechanism.
LEMMA ReformatSpfFacts ==
  ASSUME NEW s \in SpfRecord
  PROVE  /\ ReformatSpf(s) \in SpfRecord
         /\ ReformatSpf(s).include = s.include
         /\ ReformatSpf(s).rest = Reformat(s.rest)
         /\ ReformatSpf(s).all = s.all
<1> DEFINE I == 0 .. 2
           R == SUBSET Term
           x == Reformat(s.rest)
<1>1. SpfRecord = [include : I, rest : R, all : Ending]  BY DEF SpfRecord
<1>2. x \in R
  <2>1. s.rest \subseteq Term  BY DEF SpfRecord
  <2>2. Term \subseteq Text  BY DEF Term
  <2>3. \A t \in s.rest : Rewritten(t) \in Term  BY <2>1, <2>2, RewrittenFacts
  <2> QED  BY <2>3 DEF Reformat
<1>3. ReformatSpf(s) = [s EXCEPT !.rest = x]  BY DEF ReformatSpf
<1> HIDE DEF I, R, x
<1>4. /\ ReformatSpf(s) \in SpfRecord
      /\ ReformatSpf(s).include = s.include /\ ReformatSpf(s).rest = x
      /\ ReformatSpf(s).all = s.all
  BY <1>1, <1>2, <1>3
<1> QED  BY <1>4 DEF x

\* The batch, field by field.
LEMMA UpsertedFields ==
  ASSUME NEW z \in Zone, NEW l \in Zone, NEW o \in Offer, NEW f, NEW spf \in SpfRecord, NEW first
  PROVE  IsBatch(Upserted(z, l, o, f, spf, first), z, l, o, f, spf, first)
<1> DEFINE t == Reformat(l.text)
           sp == {ReformatSpf(spf)}
           ours == {"ours"}
           a == IF l.cname THEN z
                ELSE [z EXCEPT !.text = t, !.spf = sp, !.verification = ours, !.mx = ours]
           d == IF "dkim" \in o THEN {"ours"} ELSE a.dkim
           p == IF "return-path" \in o THEN {"ours"} ELSE a.returnPath
           m == IF Overwrites(first, f) THEN IF "dmarc" \in o THEN {"ours"} ELSE a.dmarc
                ELSE a.dmarc
           u == [a EXCEPT !.dkim = d, !.returnPath = p, !.dmarc = m]
<1>1. Upserted(z, l, o, f, spf, first) = u
  BY DEF Upserted, Kept, Required
<1>2. t \in SUBSET Text /\ ours \in SUBSET Value /\ sp \in SUBSET SpfRecord
  <2>1. l.text \subseteq Text  BY DEF Zone
  <2>2. \A x \in l.text : Rewritten(x) \in Text  BY <2>1, RewrittenFacts
  <2>3. t \in SUBSET Text  BY <2>2 DEF Reformat
  <2> QED  BY <2>3, ReformatSpfFacts DEF Value
<1> HIDE DEF t, sp, ours
<1>3. /\ a \in Zone
      /\ a.cname = z.cname /\ a.bimi = z.bimi /\ a.dkim = z.dkim
      /\ a.returnPath = z.returnPath /\ a.dmarc = z.dmarc
      /\ a.spf = IF l.cname THEN z.spf ELSE sp
      /\ a.verification = IF l.cname THEN z.verification ELSE ours
      /\ a.text = IF l.cname THEN z.text ELSE t
      /\ a.mx = IF l.cname THEN z.mx ELSE ours
  <2>1. CASE l.cname  BY <2>1
  <2>2. CASE ~l.cname
    <3> DEFINE x == [z EXCEPT !.text = t, !.spf = sp, !.verification = ours, !.mx = ours]
    <3>1. x = [z EXCEPT !.text = t, !.spf = sp, !.verification = ours, !.mx = ours]
      OBVIOUS
    <3>2. a = x  BY <2>2
    <3> HIDE DEF x, a
    <3>3. /\ x \in Zone
          /\ x.text = t /\ x.spf = sp /\ x.verification = ours /\ x.mx = ours
          /\ x.cname = z.cname /\ x.bimi = z.bimi /\ x.dkim = z.dkim
          /\ x.returnPath = z.returnPath /\ x.dmarc = z.dmarc
      BY <1>2, <3>1 DEF Zone
    <3> QED  BY <2>2, <3>2, <3>3
  <2> QED  BY <2>1, <2>2
<1> HIDE DEF a
<1>4. d \in SUBSET Value /\ p \in SUBSET Value /\ m \in SUBSET DmarcValue
  BY <1>3 DEF Zone, Value, DmarcValue
<1>5. d = IF "dkim" \in o THEN {"ours"} ELSE z.dkim
  BY <1>3
<1>6. m = IF Overwrites(first, f) /\ "dmarc" \in o THEN {"ours"} ELSE z.dmarc
  BY <1>3
<1> HIDE DEF d, p, m
<1>7. /\ u \in Zone
      /\ u.text = a.text /\ u.spf = a.spf /\ u.verification = a.verification /\ u.mx = a.mx
      /\ u.cname = a.cname /\ u.bimi = a.bimi /\ u.dkim = d /\ u.returnPath = p /\ u.dmarc = m
  <2>1. u = [a EXCEPT !.dkim = d, !.returnPath = p, !.dmarc = m]  OBVIOUS
  <2> HIDE DEF u
  <2>2. a \in Zone  BY <1>3
  <2> QED  BY <1>4, <2>1, <2>2 DEF Zone
<1> HIDE DEF u
<1>8. IsBatch(u, z, l, o, f, spf, first)
  BY <1>3, <1>5, <1>6, <1>7 DEF IsBatch, t, sp, ours
<1> QED  BY <1>1, <1>8

\* The required SPF record: one include, and otherwise what the listed one says, not
\* weakened.
LEMMA RequiredSpfFacts ==
  ASSUME NEW l \in Zone, NEW spf \in RequiredSpf(l)
  PROVE  /\ spf \in SpfRecord
         /\ (\A s \in l.spf : s.include < 2) => spf.include = 1
         /\ l.spf # {} => \E s \in l.spf :
              /\ spf.rest = s.rest
              /\ s.all # "none" => spf.all = s.all
              /\ spf.all # s.all => spf.all = "-all"
<1>1. CASE l.spf = {}
  BY <1>1 DEF RequiredSpf, FreshSpf, SpfRecord, Ending
<1>2. CASE l.spf # {}
  <2>1. PICK s \in l.spf : spf = MergeSpfInclude(s)
    BY <1>2 DEF RequiredSpf
  <2>2. s \in SpfRecord  BY DEF Zone
  <2>3. CASE HasInclude(s)
    BY <2>1, <2>2, <2>3 DEF MergeSpfInclude, HasInclude, SpfRecord
  <2>4. CASE ~HasInclude(s)
    <3>1. s.include = 0  BY <2>2, <2>4 DEF HasInclude, SpfRecord
    <3> DEFINE e == IF s.all = "none" THEN "-all" ELSE s.all
    <3>2. spf = [s EXCEPT !.include = 1, !.all = e]
      BY <2>1, <2>4, <3>1 DEF MergeSpfInclude
    <3>3. e \in Ending  BY <2>2 DEF SpfRecord, Ending
    <3> HIDE DEF e
    <3>4. /\ spf \in SpfRecord
          /\ spf.include = 1 /\ spf.rest = s.rest /\ spf.all = e
      <4> DEFINE I == 0 .. 2
                 R == SUBSET Term
      <4>1. SpfRecord = [include : I, rest : R, all : Ending]  BY DEF SpfRecord
      <4>2. 1 \in I  OBVIOUS
      <4> HIDE DEF I, R
      <4> QED  BY <2>2, <3>2, <3>3, <4>1, <4>2
    <3> QED  BY <3>4 DEF e
  <2> QED  BY <2>3, <2>4
<1> QED  BY <1>1, <1>2
-----------------------------------------------------------------------------
\* Runs start in the invariant.
LEMMA InitInvariant == ProvisionInit => ProvisionInvariant
<1> SUFFICES ASSUME ProvisionInit PROVE ProvisionInvariant
  OBVIOUS
<1> USE ProvisioningAssumption DEF ProvisionInit
<1>1. ProvisionTypeOK  BY DEF ProvisionTypeOK, Working
<1>2. AtWork /\ RacesAreSettled /\ CnameIsAsListed /\ OverlappingRunsSucceed
  BY DEF AtWork, RacesAreSettled, CnameIsAsListed, OverlappingRunsSucceed
<1>3. IsFiniteSet(zone.spf)  OBVIOUS
<1> QED  BY <1>1, <1>2, <1>3 DEF ProvisionInvariant

\* A step that moves only the control of one run.
LEMMA ControlPreserves ==
  ASSUME ProvisionInvariant, NEW r \in Run, UNCHANGED <<outside, inside, faults, edits>>,
         NEW p \in Working \cup {"done", "pending", "failed"}, Go(r, p),
         p \notin {"updating", "adding", "relisting"} \/ current[r] \in Alias,
         pc[r] \in Working \ {"verifying"},
         faults = 0 =>
           /\ p = "again" => registered
           /\ p = "relisting" => alias[current[r]] # NoAlias
           /\ p = "failed" => edits > 0
  PROVE  ProvisionInvariant'
<1> USE DEF ProvisionInvariant, ProvisionTypeOK, Go, outside, inside
<1>1. ProvisionTypeOK'  BY Zenon
<1>2. AtWork'
  <2>1. attempts[r] = 0 /\ 0 < MaxAttempts
    BY ProvisioningAssumption DEF AtWork
  <2> QED  BY <2>1 DEF AtWork, Working
<1>3. RacesAreSettled'  BY DEF RacesAreSettled
<1>4. CnameIsAsListed' /\ IsFiniteSet(zone.spf)'  BY DEF CnameIsAsListed
<1>5. OverlappingRunsSucceed'  BY DEF OverlappingRunsSucceed
<1> QED  BY <1>1, <1>2, <1>3, <1>4, <1>5

\* The steps that only ask.
LEMMA QuestionsPreserve ==
  ASSUME ProvisionInvariant, NEW r \in Run,
         \/ GetDomain(r) \/ EnsureDomain(r) \/ GetDomainAgain(r) \/ EndDryRun(r)
         \/ RejectBatch(r) \/ ListAliasesAgain(r) \/ EndAliases(r)
  PROVE  ProvisionInvariant'
<1> USE DEF ProvisionInvariant, Working, AfterDomain
<1>1. CASE GetDomain(r)
  <2> DEFINE p == IF registered THEN AfterDomain(r)
                  ELSE IF options[r].dry THEN "done" ELSE "missing"
  <2>1. p \in {"aliases", "apex", "done", "missing"}  OBVIOUS
  <2> HIDE DEF p
  <2> QED  BY <1>1, <2>1, ControlPreserves DEF GetDomain, p
<1>2. CASE EnsureDomain(r)
  <2> DEFINE p == IF registered THEN AfterDomain(r) ELSE "creating"
  <2>1. p \in {"aliases", "apex", "creating"}  OBVIOUS
  <2> HIDE DEF p
  <2> QED  BY <1>2, <2>1, ControlPreserves DEF EnsureDomain, p
<1>3. CASE GetDomainAgain(r)
  <2> DEFINE p == IF registered THEN AfterDomain(r) ELSE "failed"
  <2>1. /\ p \in {"aliases", "apex", "failed"}
        /\ faults = 0 => p # "failed"
    BY <1>3 DEF GetDomainAgain, RacesAreSettled
  <2> HIDE DEF p
  <2> QED  BY <1>3, <2>1, ControlPreserves DEF GetDomainAgain, p
<1>4. CASE EndDryRun(r)
  BY <1>4, ControlPreserves DEF EndDryRun
<1>5. CASE RejectBatch(r)
  <2>1. faults = 0 => edits > 0
    <3>1. edits # 0
      <4>1. zone.cname /\ ~listed[r].cname  BY <1>5 DEF RejectBatch, Conflict
      <4> QED  BY <4>1, Zenon DEF CnameIsAsListed
    <3>2. edits \in Nat  BY ProvisioningAssumption DEF ProvisionTypeOK
    <3> QED  BY <3>1, <3>2
  <2> QED  BY <1>5, <2>1, ControlPreserves DEF RejectBatch
<1>6. CASE ListAliasesAgain(r)
  <2> DEFINE p == IF SameRecipients(r, current[r]) THEN "aliases"
                  ELSE IF alias[current[r]] = NoAlias THEN "failed" ELSE "updating"
  <2>1. /\ p \in {"aliases", "failed", "updating"}
        /\ faults = 0 => p # "failed"
        /\ current[r] \in Alias
    BY <1>6 DEF ListAliasesAgain, RacesAreSettled, AtWork
  <2> HIDE DEF p
  <2> QED  BY <1>6, <2>1, ControlPreserves DEF ListAliasesAgain, p
<1>7. CASE EndAliases(r)
  <2> DEFINE p == IF options[r].skipVerify THEN "done" ELSE "verifying"
  <2>1. p \in {"done", "verifying"}  OBVIOUS
  <2> HIDE DEF p
  <2> QED  BY <1>7, <2>1, ControlPreserves DEF EndAliases, p
<1> QED  BY <1>1, <1>2, <1>3, <1>4, <1>5, <1>6, <1>7
\* The domain is created, or was by somebody else.
LEMMA CreatePreserves ==
  ASSUME ProvisionInvariant, NEW r \in Run, CreateDomain(r)
  PROVE  ProvisionInvariant'
<1> USE DEF ProvisionInvariant, ProvisionTypeOK, CreateDomain, Go, inside
<1> DEFINE p == IF registered THEN AfterRefusal("again") ELSE AfterDomain(r)
<1>1. p \in {"again", "aliases", "apex"} /\ pc' = [pc EXCEPT ![r] = p]
  BY DEF AfterRefusal, AfterDomain
<1>2. pc[r] = "creating" /\ registered' = TRUE
      /\ UNCHANGED <<zone, zoneWriter, alias, offer, options, listed, todo, current, attempts,
                     faults, edits>>
  OBVIOUS
<1> HIDE DEF p, CreateDomain
<1>3. ProvisionTypeOK'  BY <1>1, <1>2 DEF Working
<1>4. AtWork'  BY <1>1, <1>2 DEF AtWork, Working
<1>5. RacesAreSettled'  BY <1>1, <1>2 DEF RacesAreSettled
<1>6. CnameIsAsListed' /\ IsFiniteSet(zone.spf)'  BY <1>2 DEF CnameIsAsListed
<1>7. OverlappingRunsSucceed'  BY <1>1, <1>2 DEF OverlappingRunsSucceed
<1> QED  BY <1>3, <1>4, <1>5, <1>6, <1>7

\* The records are listed.
LEMMA ListPreserves ==
  ASSUME ProvisionInvariant, NEW r \in Run, ListApex(r) \/ ListCname(r) \/ ListDmarc(r)
  PROVE  ProvisionInvariant'
<1> USE DEF ProvisionInvariant, ProvisionTypeOK, ListApex, ListCname, ListDmarc, Go, outside
<1>1. /\ UNCHANGED <<zone, zoneWriter, registered, alias, offer, options, todo, current,
                    attempts, faults, edits>>
      /\ \E p \in {"cname", "dmarc", "apply"} : pc' = [pc EXCEPT ![r] = p]
      /\ pc[r] \in {"apex", "cname", "dmarc"}
  OBVIOUS
<1>2. /\ listed' \in [Run -> Zone]
      /\ \A q \in Run : listed'[q].cname \in {listed[q].cname, zone.cname}
  <2>1. CASE ListApex(r)
    BY <2>1
  <2>2. CASE ListDmarc(r)
    <3> DEFINE l == [listed[r] EXCEPT !.dmarc = zone.dmarc]
    <3>1. listed' = [listed EXCEPT ![r] = l]  BY <2>2
    <3>2. l \in Zone /\ l.cname = listed[r].cname  BY DEF Zone
    <3> HIDE DEF l
    <3> QED  BY <3>1, <3>2
  <2>3. CASE ListCname(r)
    <3> DEFINE l == [listed[r] EXCEPT !.cname = zone.cname]
    <3>1. listed' = [listed EXCEPT ![r] = l]  BY <2>3
    <3>2. l \in Zone /\ l.cname = zone.cname  BY DEF Zone
    <3> HIDE DEF l
    <3> QED  BY <3>1, <3>2
  <2> QED  BY <2>1, <2>2, <2>3
<1> HIDE DEF ListApex, ListCname, ListDmarc
<1>3. ProvisionTypeOK'  BY <1>1, <1>2 DEF Working
<1>4. AtWork'  BY <1>1 DEF AtWork, Working
<1>5. RacesAreSettled'  BY <1>1 DEF RacesAreSettled
<1>6. CnameIsAsListed'  BY <1>1, <1>2 DEF CnameIsAsListed
<1>7. OverlappingRunsSucceed' /\ IsFiniteSet(zone.spf)'  BY <1>1 DEF OverlappingRunsSucceed
<1> QED  BY <1>3, <1>4, <1>5, <1>6, <1>7

\* A batch is applied.
LEMMA ApplyPreserves ==
  ASSUME ProvisionInvariant, NEW r \in Run, NEW spf \in RequiredSpf(listed[r]), NEW first,
         Apply(r, spf, first)
  PROVE  ProvisionInvariant'
<1> USE DEF ProvisionInvariant, ProvisionTypeOK
<1>1. /\ zone' = Upserted(zone, listed[r], offer, options[r].force, spf, first)
      /\ zoneWriter' = r
      /\ UNCHANGED <<registered, alias, offer, options, listed, todo, current, attempts, edits>>
      /\ pc[r] = "apply"
      /\ \/ pc' = [pc EXCEPT ![r] = "aliases"] /\ faults' = faults
         \/ pc' = [pc EXCEPT ![r] = "failed"] /\ faults < MaxFaults /\ faults' = faults + 1
  BY DEF Apply, Go, inside
<1>2. listed[r] \in Zone /\ options[r].force \in BOOLEAN
  BY ProvisioningAssumption DEF OptionRecord, AliasConfig
<1>3. spf \in SpfRecord  BY <1>2, RequiredSpfFacts
<1>4. /\ zone' \in Zone /\ zone'.cname = zone.cname
      /\ zone'.spf \in {zone.spf, {ReformatSpf(spf)}}
  <2>1. zone \in Zone /\ listed[r] \in Zone /\ offer \in Offer /\ spf \in SpfRecord
    BY <1>2, <1>3
  <2>2. IsBatch(zone', zone, listed[r], offer, options[r].force, spf, first)
    BY <1>1, <2>1, UpsertedFields
  <2> QED  BY <2>2 DEF IsBatch
<1>5. IsFiniteSet(zone'.spf)  BY <1>4, FS_Singleton
<1>6. faults' \in 0 .. MaxFaults /\ (faults' = 0 => faults = 0 /\ pc' = [pc EXCEPT ![r] = "aliases"])
  BY <1>1, ProvisioningAssumption
<1>7. ProvisionTypeOK'
  <2>1. pc' \in [Run -> Working \cup {"done", "pending", "failed"}]
    BY <1>1 DEF Working
  <2> QED  BY <1>1, <1>4, <1>6, <2>1
<1>8. AtWork'  BY <1>1 DEF AtWork, Working
<1>9. RacesAreSettled'  BY <1>1, <1>6 DEF RacesAreSettled
<1>10. CnameIsAsListed'  BY <1>1, <1>4 DEF CnameIsAsListed
<1>11. OverlappingRunsSucceed'  BY <1>1, <1>6 DEF OverlappingRunsSucceed
<1> QED  BY <1>5, <1>7, <1>8, <1>9, <1>10, <1>11

\* A run that has no more to do with an alias, or has next to write it.
LEMMA AliasPreserves ==
  ASSUME ProvisionInvariant, NEW r \in Run,
         \/ \E a \in Alias : ListAliases(r, a)
         \/ UpdateAlias(r) \/ AddAlias(r)
  PROVE  ProvisionInvariant'
<1> USE DEF ProvisionInvariant, ProvisionTypeOK
<1>1. /\ pc[r] \in {"aliases", "updating", "adding"}
      /\ UNCHANGED <<zone, zoneWriter, registered, offer, options, listed, attempts, faults, edits>>
      /\ \E p \in {"aliases", "updating", "adding", "relisting"} :
           /\ pc' = [pc EXCEPT ![r] = p]
           /\ p \in {"updating", "adding", "relisting"} => current'[r] \in Alias
           /\ p = "relisting" => alias'[current'[r]] # NoAlias
      /\ todo' \in [Run -> SUBSET Alias]
      /\ \E a \in Alias : current' \in {current, [current EXCEPT ![r] = a]}
      /\ \A a \in Alias : alias[a] # NoAlias => alias'[a] # NoAlias
      /\ alias' \in [Alias -> Recipients \cup {NoAlias}]
  <2> DEFINE Goal ==
        /\ pc[r] \in {"aliases", "updating", "adding"}
        /\ UNCHANGED <<zone, zoneWriter, registered, offer, options, listed, attempts, faults, edits>>
        /\ \E p \in {"aliases", "updating", "adding", "relisting"} :
             /\ pc' = [pc EXCEPT ![r] = p]
             /\ p \in {"updating", "adding", "relisting"} => current'[r] \in Alias
             /\ p = "relisting" => alias'[current'[r]] # NoAlias
        /\ todo' \in [Run -> SUBSET Alias]
        /\ \E a \in Alias : current' \in {current, [current EXCEPT ![r] = a]}
        /\ \A a \in Alias : alias[a] # NoAlias => alias'[a] # NoAlias
        /\ alias' \in [Alias -> Recipients \cup {NoAlias}]
  <2>1. ASSUME NEW a \in Alias, ListAliases(r, a) PROVE Goal
    <3>1. CASE SameRecipients(r, a)
      <4>1. pc' = pc /\ current' = current /\ pc[r] = "aliases"
        BY <2>1, <3>1 DEF ListAliases
      <4>2. pc' = [pc EXCEPT ![r] = "aliases"]  BY <4>1
      <4> QED  BY <2>1, <4>1, <4>2 DEF ListAliases, outside
    <3>2. CASE ~SameRecipients(r, a)
      BY <2>1, <3>2 DEF ListAliases, outside, Go
    <3> QED  BY <3>1, <3>2
  <2>2. ASSUME UpdateAlias(r) \/ AddAlias(r) PROVE Goal
    <3>1. /\ current[r] \in Alias /\ options[r].want[current[r]] \in Recipients
          /\ pc[r] \in {"updating", "adding"}
      BY <2>2, ProvisioningAssumption DEF UpdateAlias, AddAlias, AtWork, OptionRecord, AliasConfig
    <3>2. /\ UNCHANGED <<zone, zoneWriter, registered, offer, options, listed, attempts, faults,
                         edits, todo, current>>
          /\ \/ /\ pc' = [pc EXCEPT ![r] = "aliases"]
                /\ alias' = [alias EXCEPT ![current[r]] = options[r].want[current[r]]]
             \/ /\ pc' = [pc EXCEPT ![r] = "relisting"]
                /\ alias' = alias /\ alias[current[r]] # NoAlias
      BY <2>2 DEF UpdateAlias, AddAlias, SetAlias, Go, AfterRefusal, inside
    <3> QED  BY <3>1, <3>2, ProvisioningAssumption
  <2> QED  BY <2>1, <2>2
<1>2. PICK p \in {"aliases", "updating", "adding", "relisting"} :
        /\ pc' = [pc EXCEPT ![r] = p]
        /\ p \in {"updating", "adding", "relisting"} => current'[r] \in Alias
        /\ p = "relisting" => alias'[current'[r]] # NoAlias
  BY <1>1
<1>3. /\ current' \in [Run -> Alias \cup {NoAlias}]
      /\ \A q \in Run \ {r} : current'[q] = current[q]
  BY <1>1
<1>4. ProvisionTypeOK'  BY <1>1, <1>2, <1>3 DEF Working
<1>5. AtWork'  BY <1>1, <1>2, <1>3 DEF AtWork, Working
<1>6. RacesAreSettled'
  BY <1>1, <1>2, <1>3 DEF RacesAreSettled, AtWork
<1>7. CnameIsAsListed' /\ IsFiniteSet(zone.spf)'  BY <1>1 DEF CnameIsAsListed
<1>8. OverlappingRunsSucceed'  BY <1>1, <1>2 DEF OverlappingRunsSucceed
<1> QED  BY <1>4, <1>5, <1>6, <1>7, <1>8

\* Verifying changes nothing but the count of attempts and the outcome.
LEMMA VerifyPreserves ==
  ASSUME ProvisionInvariant, NEW r \in Run, Verify(r)
  PROVE  ProvisionInvariant'
<1> USE DEF ProvisionInvariant, ProvisionTypeOK
<1> DEFINE n == attempts[r] + 1
<1>1. /\ UNCHANGED <<zone, zoneWriter, registered, alias, offer, options, listed, todo, current,
                    faults, edits>>
      /\ attempts' = [attempts EXCEPT ![r] = n]
      /\ pc[r] = "verifying"
      /\ \E p \in {"done", "verifying", "pending"} :
           pc' = [pc EXCEPT ![r] = p] /\ (p = "verifying" => n < MaxAttempts)
  BY DEF Verify, Go, outside, TriesAgain
<1>2. n \in 0 .. MaxAttempts
  BY <1>1, ProvisioningAssumption DEF AtWork
<1> HIDE DEF n
<1>3. ProvisionTypeOK'  BY <1>1, <1>2 DEF Working
<1>4. AtWork'  BY <1>1 DEF AtWork, Working
<1>5. RacesAreSettled'  BY <1>1 DEF RacesAreSettled
<1>6. CnameIsAsListed' /\ IsFiniteSet(zone.spf)'  BY <1>1 DEF CnameIsAsListed
<1>7. OverlappingRunsSucceed'  BY <1>1 DEF OverlappingRunsSucceed
<1> QED  BY <1>3, <1>4, <1>5, <1>6, <1>7

\* A run that fails or stops, after its effect or without it, leaves a state the
\* others can go on from.
LEMMA FailPreserves ==
  ASSUME ProvisionInvariant, NEW r \in Run, Fail(r)
  PROVE  ProvisionInvariant'
<1> USE DEF ProvisionInvariant, ProvisionTypeOK
<1>1. /\ UNCHANGED <<zone, zoneWriter, offer, options, listed, todo, current, attempts, edits>>
      /\ faults < MaxFaults /\ faults' = faults + 1
      /\ pc[r] \in Working
      /\ \E p \in {"failed", "again", "relisting"} :
           /\ pc' = [pc EXCEPT ![r] = p]
           /\ p = "again" => pc[r] = "creating"
           /\ p = "relisting" => pc[r] = "adding"
      /\ registered' \in BOOLEAN
      /\ \/ alias' = alias
         \/ /\ pc[r] \in {"updating", "adding"}
            /\ alias' = [alias EXCEPT ![current[r]] = options[r].want[current[r]]]
  BY DEF Fail, Go, inside
<1>2. faults' \in 0 .. MaxFaults /\ faults' # 0
  BY <1>1, ProvisioningAssumption
<1>3. alias' \in [Alias -> Recipients \cup {NoAlias}]
  <2>1. CASE pc[r] \in {"updating", "adding"}
    <3>1. current[r] \in Alias /\ options[r].want[current[r]] \in Recipients
      BY <2>1, ProvisioningAssumption DEF AtWork, OptionRecord, AliasConfig
    <3> QED  BY <1>1, <3>1
  <2>2. CASE pc[r] \notin {"updating", "adding"}
    BY <1>1, <2>2
  <2> QED  BY <2>1, <2>2
<1>4. ProvisionTypeOK'
  <2>1. pc' \in [Run -> Working \cup {"done", "pending", "failed"}]  BY <1>1 DEF Working
  <2> QED  BY <1>1, <1>2, <1>3, <2>1
<1>5. AtWork'  BY <1>1 DEF AtWork, Working
<1>6. CnameIsAsListed' /\ IsFiniteSet(zone.spf)'  BY <1>1 DEF CnameIsAsListed
<1>7. RacesAreSettled' /\ OverlappingRunsSucceed'
  BY <1>2 DEF RacesAreSettled, OverlappingRunsSucceed
<1> QED  BY <1>4, <1>5, <1>6, <1>7

\* An edit of the zone makes the listings of the runs stale, and nothing else.
LEMMA EditPreserves ==
  ASSUME ProvisionInvariant, NEW z \in Zones, EditZone(z)
  PROVE  ProvisionInvariant'
<1> USE DEF ProvisionInvariant, ProvisionTypeOK
<1>1. /\ UNCHANGED <<registered, alias, offer, options, listed, todo, current, attempts, pc, faults>>
      /\ zone' = z /\ zoneWriter' = Others
      /\ edits < MaxEdits /\ edits' = edits + 1
  BY DEF EditZone, inside
<1>2. edits' \in 0 .. MaxEdits /\ edits' # 0
  BY <1>1, ProvisioningAssumption
<1>3. z \in Zone /\ IsFiniteSet(z.spf)  BY ProvisioningAssumption
<1>4. ProvisionTypeOK'  BY <1>1, <1>2, <1>3
<1>5. AtWork' /\ RacesAreSettled'  BY <1>1 DEF AtWork, RacesAreSettled
<1>6. CnameIsAsListed' /\ OverlappingRunsSucceed' /\ IsFiniteSet(zone.spf)'
  BY <1>1, <1>2, <1>3 DEF CnameIsAsListed, OverlappingRunsSucceed
<1> QED  BY <1>4, <1>5, <1>6

\* Every step keeps the invariant.
LEMMA StepPreserves ==
  ASSUME ProvisionInvariant, [ProvisionNext]_provisionVars
  PROVE  ProvisionInvariant'
<1>1. CASE UNCHANGED provisionVars
  <2>1. UNCHANGED <<zone, zoneWriter, registered, offer, alias, pc, options, listed, todo,
                    current, attempts, faults, edits>>
    BY <1>1 DEF provisionVars
  <2> QED
    BY <2>1 DEF ProvisionInvariant, ProvisionTypeOK, AtWork, RacesAreSettled, CnameIsAsListed,
                OverlappingRunsSucceed
<1>2. ASSUME NEW r \in Run, ProvisionStep(r) PROVE ProvisionInvariant'
  BY <1>2, QuestionsPreserve, CreatePreserves, ListPreserves, ApplyPreserves, AliasPreserves,
     VerifyPreserves, FailPreserves DEF ProvisionStep
<1> QED  BY <1>1, <1>2, EditPreserves DEF ProvisionNext
\* The invariant holds in every behaviour.
LEMMA ProvisionInvariance == ProvisionSpec => []ProvisionInvariant
BY InitInvariant, StepPreserves, PTL DEF ProvisionSpec

(***************************************************************************)
(* The state of the runs and of the services has its type: no attempt      *)
(* beyond the last one, no set of records of another form.                 *)
(***************************************************************************)
THEOREM ProvisioningTypes == ProvisionSpec => []ProvisionTypeOK
<1>1. ProvisionInvariant => ProvisionTypeOK  BY DEF ProvisionInvariant
<1> QED  BY <1>1, ProvisionInvariance, PTL

(***************************************************************************)
(* A run that loses the race to create the domain or an alias goes on:     *)
(* with no failed call and no foreign edit, no run fails.                  *)
(***************************************************************************)
THEOREM RacesAreHarmless == ProvisionSpec => []OverlappingRunsSucceed
<1>1. ProvisionInvariant => OverlappingRunsSucceed  BY DEF ProvisionInvariant
<1> QED  BY <1>1, ProvisionInvariance, PTL
-----------------------------------------------------------------------------
(***************************************************************************)
(* A run leaves an alias behind only with the recipients configured,       *)
(* whether it found, updated or added it, or lost the race to add it.      *)
(***************************************************************************)
THEOREM AliasesAreConfigured == ProvisionSpec => AliasIsAsConfigured
<1> DEFINE Left(r, a) ==
      pc'[r] = "aliases" /\ ((a \in todo[r] /\ a \notin todo'[r])
                               \/ (pc[r] # "aliases" /\ a = current[r] /\ todo'[r] = todo[r]
                                     /\ pc[r] \in {"updating", "adding", "relisting"}))
           Done == \A r \in Run, a \in Alias : Left(r, a) => alias'[a] = options[r].want[a]
<1>1. ASSUME ProvisionInvariant, NEW r \in Run, ProvisionStep(r) PROVE Done
  <2> USE <1>1 DEF ProvisionInvariant, ProvisionTypeOK
  <2> SUFFICES ASSUME NEW q \in Run, NEW a \in Alias, Left(q, a)
               PROVE  alias'[a] = options[q].want[a]
    OBVIOUS
  <2>1. ASSUME NEW b \in Alias, ListAliases(r, b) PROVE alias'[a] = options[q].want[a]
    <3>1. /\ todo' = [todo EXCEPT ![r] = @ \ {b}] /\ pc[r] = "aliases" /\ alias' = alias
          /\ SameRecipients(r, b) \/ pc' = [pc EXCEPT ![r] = "adding"]
                                  \/ pc' = [pc EXCEPT ![r] = "updating"]
          /\ SameRecipients(r, b) => pc' = pc
      BY <2>1 DEF ListAliases, outside, Go
    <3>2. q = r  BY <3>1
    <3>3. a = b /\ SameRecipients(r, b)  BY <3>1, <3>2
    <3> QED  BY <3>1, <3>2, <3>3 DEF SameRecipients
  <2>2. ASSUME UpdateAlias(r) \/ AddAlias(r) \/ ListAliasesAgain(r)
        PROVE  alias'[a] = options[q].want[a]
    <3>1. /\ todo' = todo /\ \A t \in Run \ {r} : pc'[t] = pc[t]
      BY <2>2 DEF UpdateAlias, AddAlias, ListAliasesAgain, SetAlias, Go, inside
    <3>2. q = r /\ a = current[r]  BY <3>1
    <3>3. pc'[r] = "aliases" => alias'[a] = options[r].want[a]
      BY <2>2, <3>2
         DEF UpdateAlias, AddAlias, ListAliasesAgain, SetAlias, Go, AfterRefusal, SameRecipients,
             outside
    <3> QED  BY <3>2, <3>3
  <2>3. ASSUME \/ GetDomain(r) \/ EnsureDomain(r) \/ CreateDomain(r) \/ GetDomainAgain(r)
               \/ ListApex(r) \/ ListCname(r) \/ ListDmarc(r) \/ EndDryRun(r) \/ RejectBatch(r)
               \/ (\E spf, first : Apply(r, spf, first))
               \/ EndAliases(r) \/ Verify(r) \/ Fail(r)
        PROVE  FALSE
    <3>1. /\ todo' = todo
          /\ pc[r] \in {"updating", "adding", "relisting"} => pc'[r] # "aliases"
          /\ \A t \in Run \ {r} : pc'[t] = pc[t]
      BY <2>3 DEF GetDomain, EnsureDomain, CreateDomain, GetDomainAgain, ListApex, ListCname,
                  ListDmarc, EndDryRun, RejectBatch, Apply, EndAliases, Verify, Fail, Go, inside
    <3> QED  BY <3>1
  <2> QED  BY <1>1, <2>1, <2>2, <2>3 DEF ProvisionStep
<1>2. ASSUME ProvisionInvariant, NEW z \in Zones, EditZone(z) PROVE Done
  BY <1>2 DEF EditZone, inside
<1>3. ProvisionInvariant /\ [ProvisionNext]_provisionVars => [Done]_provisionVars
  BY <1>1, <1>2 DEF ProvisionNext
<1> QED  BY <1>3, ProvisionInvariance, PTL DEF ProvisionSpec, AliasIsAsConfigured
-----------------------------------------------------------------------------
\* What the validator asks of SPF: exactly one record, which does not admit
\* everybody.
LEMMA SpfCheckFacts ==
  ASSUME NEW z, IsFiniteSet(z.spf)
  PROVE  SpfCheck(z) # "fail" <=> \E x : z.spf = {x} /\ x.all # "+all"
<1>1. CASE Cardinality(z.spf) = 1
  <2>1. PICK x : z.spf = {x}  BY <1>1, FS_Singleton
  <2>2. (CHOOSE y \in z.spf : TRUE) = x  BY <2>1
  <2>3. SpfCheck(z) # "fail" <=> x.all # "+all"  BY <1>1, <2>2 DEF SpfCheck
  <2> QED  BY <2>1, <2>3
<1>2. CASE Cardinality(z.spf) # 1
  <2>1. SpfCheck(z) = "fail"  BY <1>2 DEF SpfCheck
  <2>2. ~ \E x : z.spf = {x}  BY <1>2, FS_Singleton
  <2> QED  BY <2>1, <2>2
<1> QED  BY <1>1, <1>2

\* The DMARC records of a zone that passes the check, none of them in lowercase, are
\* the one value the plan takes for one.
LEMMA DmarcCheckFacts ==
  ASSUME NEW z \in Zone, "lowercase" \notin z.dmarc, DmarcCheck(z) # "fail"
  PROVE  \E v \in Value : (z.dmarc \ {"other"}) = {v} /\ FirstDmarc(z) = {v}
<1> DEFINE matches == z.dmarc \ {"other"}
<1>1. Cardinality(matches) = 1  BY DEF DmarcCheck
<1>2. matches = Recognised(z)
  BY DEF Recognised, Zone, DmarcValue, Value
<1>3. IsFiniteSet(matches)
  <2>1. IsFiniteSet({"ours"} \cup {"theirs"})  BY FS_Singleton, FS_Union
  <2> QED  BY <1>2, <2>1, FS_Subset DEF Recognised, Value
<1> HIDE DEF matches
<1>4. PICK v : matches = {v}  BY <1>1, <1>3, FS_Singleton
<1> QED  BY <1>2, <1>4 DEF FirstDmarc, Recognised, matches

(***************************************************************************)
(* A batch takes nothing of others that it has listed and that is there:   *)
(* no TXT value, changed only where it is not intact, no term of the one   *)
(* SPF record and not its all-mechanism, and, unless forced, no DMARC      *)
(* record of theirs that was listed alone; a zone that is valid, and as it *)
(* was listed, stays valid.                                                *)
(***************************************************************************)
THEOREM OthersRecordsAreKept == ProvisionSpec => RecordsOfOthersKept
<1> DEFINE TextKept(r) == \A t \in zone.text \cap listed[r].text :
             {t, Rewritten(t)} \cap zone'.text # {} /\ (Intact(t) => t \in zone'.text)
           SpfKept(r) == \A s \in listed[r].spf, u \in zone'.spf :
             (listed[r].spf = {s} /\ ~listed[r].cname) =>
               /\ u.rest = Reformat(s.rest)
               /\ s.all # "none" => s.all = u.all
           DmarcKept(r) == Recognised(listed[r]) = {"theirs"} => zone'.dmarc = zone.dmarc
           StaysValid(r) == (listed[r] = zone /\ "lowercase" \notin zone.dmarc /\ Validates(zone))
                               => Validates(zone')
           Spared(r) ==
             /\ TextKept(r)
             /\ SpfKept(r)
             /\ ~options[r].force =>
                  /\ DmarcKept(r)
                  /\ StaysValid(r)
           Batch(r) == pc[r] = "apply" /\ zone' # zone /\ zoneWriter' = r
           Kind == \A r \in Run : Batch(r) => Spared(r)
<1>1. ASSUME ProvisionInvariant, NEW r \in Run, NEW spf \in RequiredSpf(listed[r]), NEW first,
             Apply(r, spf, first)
      PROVE  Spared(r)
  <2> DEFINE l == listed[r]
  <2>1. /\ zone \in Zone /\ l \in Zone /\ offer \in Offer /\ IsFiniteSet(zone.spf)
        /\ spf \in RequiredSpf(l)
    BY <1>1 DEF ProvisionInvariant, ProvisionTypeOK
  <2>2. /\ zone' = Upserted(zone, l, offer, options[r].force, spf, first)
        /\ first \in FirstDmarc(l)
    BY <1>1 DEF Apply
  <2> HIDE DEF l
  <2>3. /\ spf \in SpfRecord
        /\ l.spf # {} => \E s \in l.spf :
              /\ spf.rest = s.rest
              /\ s.all # "none" => spf.all = s.all
              /\ spf.all # s.all => spf.all = "-all"
    BY <2>1, RequiredSpfFacts
  <2>4. IsBatch(zone', zone, l, offer, options[r].force, spf, first)
    BY <2>1, <2>2, <2>3, UpsertedFields
  <2> DEFINE v == ReformatSpf(spf)
  <2>5. v.rest = Reformat(spf.rest) /\ v.all = spf.all  BY <2>3, ReformatSpfFacts
  <2> HIDE DEF v
  <2>6. zone'.spf = (IF l.cname THEN zone.spf ELSE {v})  BY <2>4 DEF IsBatch, v
  <2>7. ASSUME NEW t \in zone.text \cap l.text
        PROVE  {t, Rewritten(t)} \cap zone'.text # {} /\ (Intact(t) => t \in zone'.text)
    <3>1. CASE l.cname  BY <2>4, <3>1 DEF IsBatch
    <3>2. CASE ~l.cname
      <4>1. zone'.text = Reformat(l.text)  BY <2>4, <3>2 DEF IsBatch
      <4>2. Rewritten(t) \in zone'.text  BY <4>1 DEF Reformat
      <4>3. t \in Text  BY <2>1 DEF Zone
      <4> QED  BY <4>2, <4>3, RewrittenFacts
    <3> QED  BY <3>1, <3>2
  <2>8. ASSUME NEW s, l.spf = {s}, ~l.cname
        PROVE  /\ v.rest = Reformat(s.rest)
               /\ s.all # "none" => s.all = v.all
               /\ v.all # s.all => v.all = "-all"
    BY <2>3, <2>5, <2>8
  <2>9. ASSUME ~options[r].force, Recognised(l) = {"theirs"} PROVE zone'.dmarc = zone.dmarc
    <3>1. first = "theirs"  BY <2>2, <2>9 DEF FirstDmarc
    <3> QED  BY <2>4, <2>9, <3>1 DEF IsBatch, Overwrites
  <2>10. ASSUME ~options[r].force, l = zone, "lowercase" \notin zone.dmarc, Validates(zone)
         PROVE  Validates(zone')
    <3>1. SpfCheck(zone) # "fail" /\ DkimCheck(zone) # "fail" /\ DmarcCheck(zone) # "fail"
      BY <2>10 DEF Validates
    <3>2. SpfCheck(zone') # "fail"
      <4>1. PICK x : zone.spf = {x} /\ x.all # "+all"  BY <2>1, <3>1, SpfCheckFacts
      <4>2. CASE l.cname
        <5>1. zone'.spf = {x}  BY <2>6, <4>1, <4>2
        <5>2. IsFiniteSet(zone'.spf)  BY <5>1, FS_Singleton
        <5> QED  BY <4>1, <5>1, <5>2, SpfCheckFacts
      <4>3. CASE ~l.cname
        <5>1. zone'.spf = {v} /\ v.all # "+all"  BY <2>6, <2>8, <2>10, <4>1, <4>3
        <5>2. IsFiniteSet(zone'.spf)  BY <5>1, FS_Singleton
        <5> QED  BY <5>1, <5>2, SpfCheckFacts
      <4> QED  BY <4>2, <4>3
    <3>3. DkimCheck(zone') # "fail"
      BY <2>4, <3>1 DEF IsBatch, DkimCheck
    <3>4. /\ BimiRecordCheck(zone') # "fail" /\ BimiLogoCheck(zone') # "fail"
          /\ BimiSvgCheck(zone') # "fail"
      BY <2>4, <2>10 DEF IsBatch, Validates, BimiRecordCheck, BimiLogoCheck, BimiSvgCheck
    <3>5. DmarcCheck(zone') # "fail"
      <4>1. PICK m \in Value : zone.dmarc \ {"other"} = {m} /\ FirstDmarc(zone) = {m}
        BY <2>1, <2>10, <3>1, DmarcCheckFacts
      <4>2. first = m  BY <2>2, <2>10, <4>1
      <4>3. zone'.dmarc = zone.dmarc \/ (m = "ours" /\ zone'.dmarc = {"ours"})
        BY <2>4, <2>10, <4>2 DEF IsBatch, Overwrites, Value
      <4>4. zone'.dmarc \ {"other"} = zone.dmarc \ {"other"}
        BY <4>1, <4>3
      <4> QED  BY <3>1, <4>4 DEF DmarcCheck
    <3> QED  BY <3>2, <3>3, <3>4, <3>5 DEF Validates
  <2>11. TextKept(r)  BY <2>7 DEF l
  <2>12. SpfKept(r)
    <3> SUFFICES ASSUME NEW s \in l.spf, NEW u \in zone'.spf, l.spf = {s}, ~l.cname
                 PROVE  u.rest = Reformat(s.rest) /\ (s.all # "none" => s.all = u.all)
      BY DEF l
    <3>1. u = v  BY <2>6
    <3> QED  BY <2>8, <3>1
  <2>13. ~options[r].force => DmarcKept(r)  BY <2>9 DEF l
  <2>14. ~options[r].force => StaysValid(r)  BY <2>10 DEF l
  <2> QED  BY <2>11, <2>12, <2>13, <2>14
<1>2. ASSUME ProvisionInvariant, NEW q \in Run, ProvisionStep(q) PROVE Kind
  <2> SUFFICES ASSUME NEW r \in Run, Batch(r) PROVE Spared(r)
    OBVIOUS
  <2>1. PICK spf, first : Apply(q, spf, first)
    BY <1>2 DEF ProvisionStep, GetDomain, EnsureDomain, CreateDomain, GetDomainAgain, ListApex,
                ListCname, ListDmarc, EndDryRun, RejectBatch, ListAliases, UpdateAlias, AddAlias,
                ListAliasesAgain, EndAliases, Verify, Fail, outside
  <2>2. q = r /\ spf \in RequiredSpf(listed[q])  BY <2>1 DEF Apply
  <2> HIDE DEF Spared
  <2> QED  BY <1>1, <1>2, <2>1, <2>2
<1>3. ASSUME NEW z \in Zones, EditZone(z) PROVE Kind
  BY <1>3, ProvisioningAssumption DEF EditZone
<1>4. ProvisionInvariant /\ [ProvisionNext]_provisionVars => [Kind]_provisionVars
  BY <1>2, <1>3 DEF ProvisionNext
<1> QED  BY <1>4, ProvisionInvariance, PTL DEF ProvisionSpec, RecordsOfOthersKept
-----------------------------------------------------------------------------
\* An SPF set whose records name the include once or not at all.
OnceNamed(z) == \A s \in z.spf : s.include < 2

Behind == {"aliases", "updating", "adding", "relisting", "verifying", "done", "pending", "failed"}

\* Who wrote the zone last is past its batch, and has its listing still.
ZoneInvariant ==
  /\ OnceNamed(zone) /\ \A r \in Run : OnceNamed(listed[r])
  /\ zoneWriter \in Run => pc[zoneWriter] \in Behind
  /\ ManagedZoneIsValid

\* A batch leaves the zone as the validator asks.
LEMMA ApplyManages ==
  ASSUME ProvisionInvariant, ZoneInvariant,
         NEW r \in Run, NEW spf \in RequiredSpf(listed[r]), NEW first, Apply(r, spf, first)
  PROVE  ZoneInvariant'
<1> USE DEF ProvisionInvariant, ProvisionTypeOK, ZoneInvariant
<1>1. /\ zone' = Upserted(zone, listed[r], offer, options[r].force, spf, first)
      /\ zoneWriter' = r /\ listed' = listed /\ offer' = offer
      /\ pc' = [pc EXCEPT ![r] = "aliases"] \/ pc' = [pc EXCEPT ![r] = "failed"]
  BY DEF Apply, Go, inside
<1>2. listed[r] \in Zone /\ OnceNamed(listed[r])
  OBVIOUS
<1>3. spf \in SpfRecord /\ spf.include = 1
  BY <1>2, RequiredSpfFacts DEF OnceNamed
<1>4. IsBatch(zone', zone, listed[r], offer, options[r].force, spf, first)
  BY <1>1, <1>2, <1>3, UpsertedFields
<1>5. /\ ReformatSpf(spf).include = 1
      /\ Cardinality({ReformatSpf(spf)}) = 1
  BY <1>3, ReformatSpfFacts, FS_Singleton
<1>6. OnceNamed(zone')
  BY <1>3, <1>4, <1>5 DEF IsBatch, OnceNamed
<1>7. ManagedZoneIsValid'
  BY <1>1, <1>3, <1>4, <1>5 DEF IsBatch, ManagedZoneIsValid
<1>8. pc'[zoneWriter'] \in Behind
  BY <1>1 DEF Behind
<1> QED  BY <1>1, <1>6, <1>7, <1>8 DEF OnceNamed

\* No other step of a run changes the zone.
LEMMA OthersManage ==
  ASSUME ProvisionInvariant, ZoneInvariant,
         NEW r \in Run, ProvisionStep(r), \A spf, first : ~Apply(r, spf, first)
  PROVE  ZoneInvariant'
<1> USE DEF ProvisionInvariant, ProvisionTypeOK, ZoneInvariant
<1>1. /\ UNCHANGED <<zone, zoneWriter, offer>>
      /\ \A t \in Run \ {r} : pc'[t] = pc[t] /\ listed'[t] = listed[t]
      /\ pc[r] \in Behind => pc'[r] \in Behind /\ listed'[r] = listed[r]
      /\ listed'[r].spf \in {listed[r].spf, zone.spf}
  <2>1. CASE ListApex(r)
    BY <2>1 DEF ListApex, Go, outside, Behind
  <2>2. CASE ListCname(r) \/ ListDmarc(r)
    BY <2>2 DEF ListCname, ListDmarc, Go, outside, Behind, Zone
  <2>3. ASSUME NEW a \in Alias, ListAliases(r, a)
        PROVE  /\ UNCHANGED <<zone, zoneWriter, offer, listed>>
               /\ \E p \in Behind : pc' = pc \/ pc' = [pc EXCEPT ![r] = p]
    BY <2>3 DEF ListAliases, Go, outside, Behind
  <2>4. CASE GetDomain(r) \/ EnsureDomain(r) \/ CreateDomain(r) \/ GetDomainAgain(r)
    BY <2>4 DEF GetDomain, EnsureDomain, CreateDomain, GetDomainAgain, Go, outside, inside, Behind
  <2>5. CASE EndDryRun(r) \/ RejectBatch(r) \/ UpdateAlias(r) \/ AddAlias(r)
             \/ ListAliasesAgain(r) \/ EndAliases(r) \/ Verify(r)
    BY <2>5 DEF EndDryRun, RejectBatch, UpdateAlias, AddAlias, SetAlias, AfterRefusal,
                ListAliasesAgain, EndAliases, Verify, Go, outside, inside, Behind
  <2>6. CASE Fail(r)
    BY <2>6 DEF Fail, Go, inside, Behind
  <2> QED  BY <2>1, <2>2, <2>3, <2>4, <2>5, <2>6 DEF ProvisionStep
<1>2. \A t \in Run : OnceNamed(listed'[t])
  BY <1>1 DEF OnceNamed
<1>3. zoneWriter \in Run => pc'[zoneWriter] \in Behind /\ listed'[zoneWriter] = listed[zoneWriter]
  BY <1>1
<1>4. ManagedZoneIsValid'
  BY <1>1, <1>3 DEF ManagedZoneIsValid
<1> QED  BY <1>1, <1>2, <1>3, <1>4 DEF OnceNamed

(***************************************************************************)
(* After a batch the domain has one SPF record, with the include once, and *)
(* the records required, until somebody else edits it: provided that no    *)
(* record found or put there by others names the include twice itself.     *)
(***************************************************************************)
THEOREM ManagedZonesAreValid ==
  ASSUME \A z \in Zones : OnceNamed(z)
  PROVE  ProvisionSpec => []ManagedZoneIsValid
<1>1. ProvisionInit => ZoneInvariant
  BY ProvisioningAssumption DEF ProvisionInit, ZoneInvariant, ManagedZoneIsValid
<1>2. ASSUME ProvisionInvariant, ZoneInvariant, NEW z \in Zones, EditZone(z)
      PROVE  ZoneInvariant'
  <2>1. OnceNamed(z)  OBVIOUS
  <2>2. zone' = z /\ zoneWriter' \notin Run /\ listed' = listed
    BY <1>2, ProvisioningAssumption DEF EditZone, inside
  <2> QED  BY <1>2, <2>1, <2>2 DEF ZoneInvariant, ManagedZoneIsValid, OnceNamed
<1>3. ASSUME ProvisionInvariant, ZoneInvariant, UNCHANGED provisionVars
      PROVE  ZoneInvariant'
  BY <1>3 DEF provisionVars, ZoneInvariant, ManagedZoneIsValid, OnceNamed
<1>4. ProvisionInvariant /\ ZoneInvariant /\ [ProvisionNext]_provisionVars => ZoneInvariant'
  <2>1. ASSUME ProvisionInvariant, ZoneInvariant, NEW r \in Run, ProvisionStep(r)
        PROVE  ZoneInvariant'
    <3>1. CASE \E spf, first : Apply(r, spf, first)
      <4>1. PICK spf, first : Apply(r, spf, first)  BY <3>1
      <4>2. spf \in RequiredSpf(listed[r])  BY <4>1 DEF Apply
      <4> QED  BY <2>1, <4>1, <4>2, ApplyManages
    <3>2. CASE \A spf, first : ~Apply(r, spf, first)
      BY <2>1, <3>2, OthersManage
    <3> QED  BY <3>1, <3>2
  <2> QED  BY <1>2, <1>3, <2>1 DEF ProvisionNext
<1>5. ZoneInvariant => ManagedZoneIsValid  BY DEF ZoneInvariant
<1> QED  BY <1>1, <1>4, <1>5, ProvisionInvariance, PTL DEF ProvisionSpec
=============================================================================
