------------------------ MODULE DomainProvisioning ------------------------
(***************************************************************************)
(* provisionDomain: runs that bring one sending domain into being at       *)
(* Forward Email and in Route 53, while other runs and the operators of    *)
(* the zone work on the same records.                                      *)
(***************************************************************************)
EXTENDS Route53Plan

CONSTANTS
  Run, Alias, Recipients,
  Options,       \* the command lines and configurations explored
  Zones,         \* the zones a run may find
  Offers,        \* the SMTP records the service may require
  MaxAttempts,   \* verifications of one run
  MaxFaults,     \* bound: calls that fail, runs that are stopped
  MaxEdits       \* bound: changes of the zone by others

VARIABLES
  zone,        \* the records in Route 53
  zoneWriter,  \* who wrote the zone last
  registered,  \* Forward Email has the domain
  offer,       \* the SMTP records it requires
  alias,       \* the recipients of every alias there
  pc, options, \* of every run
  listed,      \* the records it has listed
  todo,        \* the aliases it has still to ensure
  current,     \* the one it is at
  attempts,    \* verifications made
  faults, edits

provisionVars == <<zone, zoneWriter, registered, offer, alias, pc, options,
                   listed, todo, current, attempts, faults, edits>>
outside == <<zone, zoneWriter, registered, alias, offer>>
inside == <<options, listed, todo, current, attempts>>

NoAlias == "no alias"
Others == "others"

\* EmailDomainConfig, once it is accepted: what each alias is to forward to.
AliasConfig == [Alias -> Recipients]

OptionRecord == [dry : BOOLEAN, force : BOOLEAN, skipDns : BOOLEAN,
                 skipVerify : BOOLEAN, want : AliasConfig]

ASSUME ProvisioningAssumption ==
  /\ Options \subseteq OptionRecord /\ Zones \subseteq Zone /\ Offers \subseteq Offer
  /\ \A z \in Zones : IsFiniteSet(z.spf)
  /\ MaxAttempts \in Nat \ {0} /\ MaxFaults \in Nat /\ MaxEdits \in Nat
  /\ NoAlias \notin Recipients /\ NoAlias \notin Alias /\ Others \notin Run
-----------------------------------------------------------------------------
Go(r, p) == pc' = [pc EXCEPT ![r] = p]
Working == {"start", "missing", "creating", "again", "apex", "cname", "dmarc", "apply",
            "aliases", "updating", "adding", "relisting", "verifying"}

AfterDomain(r) == IF options[r].skipDns THEN "aliases" ELSE "apex"

\* getDomain: to be created, unless the run is a dry one, or at hand.
GetDomain(r) ==
  /\ pc[r] = "start"
  /\ Go(r, IF registered THEN AfterDomain(r) ELSE IF options[r].dry THEN "done" ELSE "missing")
  /\ UNCHANGED <<outside, inside, faults, edits>>

\* ensureDomain looks again before it posts.
EnsureDomain(r) ==
  /\ pc[r] = "missing"
  /\ Go(r, IF registered THEN AfterDomain(r) ELSE "creating")
  /\ UNCHANGED <<outside, inside, faults, edits>>

\* Mutated form of AfterRefusal: a refused POST fails the run.
FailAfterRefusal(p) == "failed"
AfterRefusal(p) == p

\* POST /v1/domains is refused when another run was faster.
CreateDomain(r) ==
  /\ pc[r] = "creating"
  /\ registered' = TRUE
  /\ Go(r, IF registered THEN AfterRefusal("again") ELSE AfterDomain(r))
  /\ UNCHANGED <<zone, zoneWriter, alias, offer, inside, faults, edits>>

GetDomainAgain(r) ==
  /\ pc[r] = "again"
  /\ Go(r, IF registered THEN AfterDomain(r) ELSE "failed")
  /\ UNCHANGED <<outside, inside, faults, edits>>

\* listRecords asks name by name, and for TXT and CNAME apart.  Before the first
\* name the hosted zone is resolved; a zone that is not found is a Fail.
ListApex(r) ==
  /\ pc[r] = "apex"
  /\ listed' = [listed EXCEPT ![r] = zone]
  /\ Go(r, "cname")
  /\ UNCHANGED <<outside, options, todo, current, attempts, faults, edits>>

ListCname(r) ==
  /\ pc[r] = "cname"
  /\ listed' = [listed EXCEPT ![r].cname = zone.cname]
  /\ Go(r, "dmarc")
  /\ UNCHANGED <<outside, options, todo, current, attempts, faults, edits>>

ListDmarc(r) ==
  /\ pc[r] = "dmarc"
  /\ listed' = [listed EXCEPT ![r].dmarc = zone.dmarc]
  /\ Go(r, "apply")
  /\ UNCHANGED <<outside, options, todo, current, attempts, faults, edits>>

\* A name with a CNAME takes no other record: Route 53 refuses the batch.
Conflict(r) == zone.cname /\ ~listed[r].cname

RejectBatch(r) ==
  /\ pc[r] = "apply" /\ ~options[r].dry /\ Conflict(r)
  /\ Go(r, "failed")
  /\ UNCHANGED <<outside, inside, faults, edits>>

\* applyChanges: one batch, all of it or nothing; the reply may be lost.
Apply(r, spf, first) ==
  /\ pc[r] = "apply" /\ ~options[r].dry /\ ~Conflict(r)
  /\ spf \in RequiredSpf(listed[r]) /\ first \in FirstDmarc(listed[r])
  /\ zone' = Upserted(zone, listed[r], offer, options[r].force, spf, first)
  /\ zoneWriter' = r
  /\ \/ Go(r, "aliases") /\ UNCHANGED faults
     \/ Go(r, "failed") /\ faults < MaxFaults /\ faults' = faults + 1
  /\ UNCHANGED <<registered, alias, offer, inside, edits>>

\* A dry run prints the batch and stops before anything else is changed.
EndDryRun(r) ==
  /\ options[r].dry /\ pc[r] \in {"apply", "aliases"}
  /\ Go(r, "done")
  /\ UNCHANGED <<outside, inside, faults, edits>>

\* Mutated form of SameRecipients: an alias that exists is taken as it is.
AnyRecipients(r, a) == alias[a] # NoAlias
SameRecipients(r, a) == alias[a] = options[r].want[a]

\* ensureAlias lists, and goes on, updates or adds.
ListAliases(r, a) ==
  /\ pc[r] = "aliases" /\ ~options[r].dry /\ a \in todo[r]
  /\ todo' = [todo EXCEPT ![r] = @ \ {a}]
  /\ IF SameRecipients(r, a) THEN UNCHANGED <<pc, current>>
     ELSE /\ current' = [current EXCEPT ![r] = a]
          /\ Go(r, IF alias[a] = NoAlias THEN "adding" ELSE "updating")
  /\ UNCHANGED <<outside, options, listed, attempts, faults, edits>>

SetAlias(r) ==
  /\ alias' = [alias EXCEPT ![current[r]] = options[r].want[current[r]]]
  /\ Go(r, "aliases")

UpdateAlias(r) ==
  /\ pc[r] = "updating"
  /\ SetAlias(r)
  /\ UNCHANGED <<zone, zoneWriter, registered, offer, inside, faults, edits>>

\* POST of an alias is refused, too, when its name is taken.
AddAlias(r) ==
  /\ pc[r] = "adding"
  /\ IF alias[current[r]] = NoAlias THEN SetAlias(r)
                                    ELSE Go(r, AfterRefusal("relisting")) /\ UNCHANGED alias
  /\ UNCHANGED <<zone, zoneWriter, registered, offer, inside, faults, edits>>

ListAliasesAgain(r) ==
  /\ pc[r] = "relisting"
  /\ Go(r, IF SameRecipients(r, current[r]) THEN "aliases"
           ELSE IF alias[current[r]] = NoAlias THEN "failed" ELSE "updating")
  /\ UNCHANGED <<outside, inside, faults, edits>>

EndAliases(r) ==
  /\ pc[r] = "aliases" /\ ~options[r].dry /\ todo[r] = {}
  /\ Go(r, IF options[r].skipVerify THEN "done" ELSE "verifying")
  /\ UNCHANGED <<outside, inside, faults, edits>>

TriesAgain(n) == n < MaxAttempts

\* verify-records and verify-smtp: the service decides; pending is no failure.
Verify(r) ==
  /\ pc[r] = "verifying"
  /\ attempts' = [attempts EXCEPT ![r] = @ + 1]
  /\ \/ Go(r, "done")
     \/ Go(r, IF TriesAgain(attempts[r] + 1) THEN "verifying" ELSE "pending")
  /\ UNCHANGED <<outside, options, listed, todo, current, faults, edits>>

\* A call fails and throws, or the run is stopped; a POST of the domain or of
\* an alias, or a PUT, may have had its effect.  A status of 400 or more of a
\* POST sends the run back to look.
Fail(r) ==
  /\ pc[r] \in Working /\ faults < MaxFaults /\ faults' = faults + 1
  /\ \/ Go(r, "failed") /\ UNCHANGED <<registered, alias>>
     \/ Go(r, "failed") /\ pc[r] = "creating" /\ registered' = TRUE /\ UNCHANGED alias
     \/ /\ Go(r, "failed")
        /\ pc[r] = "updating" \/ (pc[r] = "adding" /\ alias[current[r]] = NoAlias)
        /\ alias' = [alias EXCEPT ![current[r]] = options[r].want[current[r]]]
        /\ UNCHANGED registered
     \/ pc[r] = "creating" /\ Go(r, "again") /\ UNCHANGED <<registered, alias>>
     \/ pc[r] = "adding" /\ Go(r, "relisting") /\ UNCHANGED <<registered, alias>>
  /\ UNCHANGED <<zone, zoneWriter, offer, inside, edits>>

\* Somebody else edits the zone.
EditZone(z) ==
  /\ edits < MaxEdits /\ edits' = edits + 1
  /\ z # zone /\ zone' = z
  /\ zoneWriter' = Others
  /\ UNCHANGED <<registered, alias, offer, inside, pc, faults>>

ProvisionInit ==
  /\ zone \in Zones /\ zoneWriter = Others
  /\ registered \in BOOLEAN
  /\ offer \in Offers
  /\ alias \in [Alias -> Recipients \cup {NoAlias}]
  /\ pc = [r \in Run |-> "start"]
  /\ options \in [Run -> Options]
  /\ listed = [r \in Run |-> zone]
  /\ todo = [r \in Run |-> Alias]
  /\ current = [r \in Run |-> NoAlias]
  /\ attempts = [r \in Run |-> 0]
  /\ faults = 0 /\ edits = 0

ProvisionStep(r) ==
  \/ GetDomain(r) \/ EnsureDomain(r) \/ CreateDomain(r) \/ GetDomainAgain(r)
  \/ ListApex(r) \/ ListCname(r) \/ ListDmarc(r) \/ EndDryRun(r) \/ RejectBatch(r)
  \/ \E spf \in RequiredSpf(listed[r]), first \in FirstDmarc(listed[r]) : Apply(r, spf, first)
  \/ \E a \in Alias : ListAliases(r, a)
  \/ UpdateAlias(r) \/ AddAlias(r) \/ ListAliasesAgain(r) \/ EndAliases(r)
  \/ Verify(r) \/ Fail(r)

ProvisionNext == (\E r \in Run : ProvisionStep(r)) \/ (\E z \in Zones : EditZone(z))

ProvisionSpec == ProvisionInit /\ [][ProvisionNext]_provisionVars
-----------------------------------------------------------------------------
\* Types; a run verifies at most MaxAttempts times.
ProvisionTypeOK ==
  /\ zone \in Zone /\ zoneWriter \in Run \cup {Others}
  /\ registered \in BOOLEAN /\ offer \in Offer
  /\ alias \in [Alias -> Recipients \cup {NoAlias}]
  /\ pc \in [Run -> Working \cup {"done", "pending", "failed"}]
  /\ options \in [Run -> Options]
  /\ listed \in [Run -> Zone]
  /\ todo \in [Run -> SUBSET Alias]
  /\ current \in [Run -> Alias \cup {NoAlias}]
  /\ attempts \in [Run -> 0 .. MaxAttempts]
  /\ faults \in 0 .. MaxFaults /\ edits \in 0 .. MaxEdits

(***************************************************************************)
(* However runs overlap, after a batch the domain has one SPF record, with *)
(* the include once, its verification and MX, unless it was a CNAME, and   *)
(* the DKIM record offered; it stays so until somebody else edits it.      *)
(* Zones whose SPF record names the include twice of itself are left out:  *)
(* the record is not mended.                                               *)
(***************************************************************************)
ManagedZoneIsValid ==
  zoneWriter \in Run =>
    /\ ~listed[zoneWriter].cname =>
         /\ \A s \in zone.spf : s.include = 1
         /\ Cardinality(zone.spf) = 1
         /\ zone.verification = {"ours"} /\ zone.mx = {"ours"}
    /\ "dkim" \in offer => zone.dkim = {"ours"}

\* A value the round trip through the plan leaves as it is.
Intact(t) == t.form \notin {"octal", "quoted"}

(***************************************************************************)
(* What a batch takes of others, it has not listed: of a TXT value, or a   *)
(* term of the SPF record, that was listed and is still there, nothing is  *)
(* lost, only its form where it is not intact; nor is the all-mechanism of *)
(* the one SPF record that was listed.  Unless forced, a DMARC record of   *)
(* theirs stays if the listing had no value of ours beside it.  And a zone *)
(* that passed validation, and is as it was listed, still does: unless     *)
(* forced, and unless its DMARC record is spelled so that the plan does    *)
(* not take it for one.                                                    *)
(***************************************************************************)
RecordsOfOthersKept ==
  [][\A r \in Run : (pc[r] = "apply" /\ zone' # zone /\ zoneWriter' = r) =>
       /\ \A t \in zone.text \cap listed[r].text :
            {t, Rewritten(t)} \cap zone'.text # {} /\ (Intact(t) => t \in zone'.text)
       /\ \A s \in listed[r].spf, u \in zone'.spf :
            (listed[r].spf = {s} /\ ~listed[r].cname) =>
              /\ u.rest = Reformat(s.rest)
              /\ s.all # "none" => s.all = u.all
       /\ ~options[r].force =>
            /\ Recognised(listed[r]) = {"theirs"} => zone'.dmarc = zone.dmarc
            /\ (listed[r] = zone /\ "lowercase" \notin zone.dmarc /\ Validates(zone))
                 => Validates(zone')]_provisionVars

(***************************************************************************)
(* A run is done with an alias only when it forwards to the recipients     *)
(* configured, whoever created it.                                         *)
(***************************************************************************)
AliasIsAsConfigured ==
  [][\A r \in Run, a \in Alias :
       (pc'[r] = "aliases" /\ ((a \in todo[r] /\ a \notin todo'[r])
                                 \/ (pc[r] # "aliases" /\ a = current[r] /\ todo'[r] = todo[r]
                                       /\ pc[r] \in {"updating", "adding", "relisting"})))
       => alias'[a] = options[r].want[a]]_provisionVars

(***************************************************************************)
(* Losing the race to create the domain or an alias is no failure: where   *)
(* no call failed and nobody edited the zone, no run has.                  *)
(***************************************************************************)
OverlappingRunsSucceed == faults = 0 /\ edits = 0 => \A r \in Run : pc[r] # "failed"
=============================================================================
