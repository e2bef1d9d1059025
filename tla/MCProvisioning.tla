--------------------------- MODULE MCProvisioning ---------------------------
(***************************************************************************)
(* Instances of DomainProvisioning for TLC: two runs, one alias.           *)
(***************************************************************************)
EXTENDS DomainProvisioning, TLC

CONSTANTS p, q, hello, x, y, google, brand

Symmetry == Permutations(Run) \cup Permutations(Recipients)

\* A full run, one that may overwrite DMARC, one for the aliases only, a dry one.
Full == [dry |-> FALSE, force |-> FALSE, skipDns |-> FALSE, skipVerify |-> TRUE]
Wanting(o) == {[dry |-> o.dry, force |-> o.force, skipDns |-> o.skipDns,
                skipVerify |-> o.skipVerify, want |-> [a \in Alias |-> w]] : w \in Recipients}
CommandLines ==
  Wanting(Full) \cup Wanting([Full EXCEPT !.force = TRUE])
  \cup Wanting([Full EXCEPT !.skipDns = TRUE, !.skipVerify = FALSE])
  \cup Wanting([Full EXCEPT !.dry = TRUE])

\* Values that come back from a run as they were, and that do not.
Plain(t) == [name |-> t, form |-> "plain"]
Octal(t) == [name |-> t, form |-> "octal"]
Quoted(t) == [name |-> t, form |-> "quoted"]

\* An empty zone, one that validates, one with two SPF and two DMARC records, a CNAME,
\* and one that validates with a DMARC record the plan does not take for one.
Bare == [cname |-> FALSE, spf |-> {}, verification |-> {}, text |-> {}, mx |-> {},
         dkim |-> {}, returnPath |-> {}, dmarc |-> {}, bimi |-> "absent"]
Used == [Bare EXCEPT !.spf = {[include |-> 0, rest |-> {Plain(google), Octal(brand)},
                               all |-> "~all"]},
                     !.verification = {"theirs"}, !.text = {Plain(google), Octal(brand)},
                     !.mx = {"theirs"}, !.dkim = {"theirs"}, !.dmarc = {"theirs"},
                     !.bimi = "sound"]
Untidy == [Used EXCEPT !.spf = {[include |-> 0, rest |-> {Plain(google)}, all |-> "none"],
                                [include |-> 1, rest |-> {}, all |-> "+all"]},
                       !.text = {Plain(google), Quoted(brand)},
                       !.dkim = {}, !.dmarc = {"ours", "theirs"}, !.bimi = "malformed"]
Pointed == [Bare EXCEPT !.cname = TRUE, !.dmarc = {"theirs", "other"}]
Spelled == [Used EXCEPT !.text = {Plain(google)}, !.dmarc = {"lowercase", "other"}]
FoundZones == {Bare, Used, Untidy, Pointed, Spelled}
=============================================================================
