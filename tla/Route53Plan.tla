---------------------------- MODULE Route53Plan ----------------------------
(***************************************************************************)
(* The DNS of a sending domain: the records Forward Email requires, the    *)
(* change batch that brings a Route 53 zone to them beside the records of  *)
(* others, and the verdicts of the branding validator on a zone.           *)
(*                                                                         *)
(* Values of TXT records are told apart by what the plan and the validator *)
(* ask of them; the records of purposes dkim, return-path and dmarc exist  *)
(* only if the API of the service offers them (smtp_dns_records).          *)
(***************************************************************************)
EXTENDS Naturals, FiniteSets

CONSTANTS
  Name,           \* other TXT values at the domain, other terms of an SPF record
  Enforced,       \* the DMARC values with the policy the validator expects
  RequireBimiSvg  \* a logo of another structure is an error

Ending == {"-all", "~all", "+all", "none"}

\* How Route 53 lists a TXT value: as it is, with octal escapes in it, or with a pair
\* of quotes of its own; the last two forms are what a run makes of the second and the
\* third: the escapes as literal text, and only what was in the quotes.
Form == {"plain", "octal", "quoted", "literal", "part"}
Text == [name : Name, form : Form]
Term == {t \in Text : t.form \notin {"quoted", "part"}}

\* How often the record names our include, its other terms, its all-mechanism.
SpfRecord == [include : 0 .. 2, rest : SUBSET Term, all : Ending]

Offer == SUBSET {"dkim", "return-path", "dmarc"}

\* The BIMI record, told apart by where its checks end.
Bimi == {"absent", "no logo", "other logo", "insecure", "unavailable", "malformed", "sound"}

\* "ours" is the value the service requires, "theirs" any other; at the name of the
\* DMARC record these two start with v=DMARC1, one in "lowercase" spells it v=dmarc1,
\* and "other" is no DMARC record.
Value == {"ours", "theirs"}
DmarcValue == Value \cup {"lowercase", "other"}
Zone ==
  [cname : BOOLEAN, spf : SUBSET SpfRecord, verification : SUBSET Value,
   text : SUBSET Text, mx : SUBSET Value, dkim : SUBSET Value,
   returnPath : SUBSET Value, dmarc : SUBSET DmarcValue, bimi : Bimi]

ASSUME PlanAssumption == Enforced \subseteq DmarcValue \ {"other"} /\ RequireBimiSvg \in BOOLEAN
-----------------------------------------------------------------------------
FreshSpf == [include |-> 1, rest |-> {}, all |-> "-all"]

\* Mutated form of HasInclude: the include is added whether it is there or not.
NeverHasInclude(s) == FALSE
HasInclude(s) == s.include > 0

\* mergeSpfInclude, given a record: the include goes before its all-mechanism.
MergeSpfInclude(s) ==
  IF HasInclude(s) THEN s
  ELSE [s EXCEPT !.include = IF @ < 2 THEN @ + 1 ELSE 2,
                 !.all = IF @ = "none" THEN "-all" ELSE @]

\* The SPF value required: the first record listed is the one merged into.
RequiredSpf(listed) ==
  IF listed.spf = {} THEN {FreshSpf} ELSE {MergeSpfInclude(s) : s \in listed.spf}

\* Mutated form of Kept: the TXT set is written anew.
KeepNothing(z) == {}
\* The apex TXT values that are neither SPF nor a verification of the service.
Kept(z) == z.text

\* unquoteTxt of a listed value and, when it is written, unquoteTxt and formatTxt: only
\* \" and \\ are unescaped, so an octal escape gets its backslash doubled; and of a value
\* that holds quotes the second unquoteTxt leaves what is in them.
Rewritten(t) ==
  CASE t.form = "octal" -> [t EXCEPT !.form = "literal"]
    [] t.form = "quoted" -> [t EXCEPT !.form = "part"]
    [] OTHER -> t
Reformat(texts) == {Rewritten(t) : t \in texts}
ReformatSpf(s) == [s EXCEPT !.rest = Reformat(@)]

\* existingDmarc: the first listed value the plan takes for a DMARC record, if any; the
\* order is that of Route 53.
Recognised(listed) == listed.dmarc \cap Value
FirstDmarc(listed) == IF Recognised(listed) = {} THEN {"none"} ELSE Recognised(listed)

\* It is left alone if it differs, unless forced; else the set is replaced.
Overwrites(first, force) == first # "theirs" \/ force

\* getRequiredDnsRecords: the purposes there is a record for.
Required(offer) == {"verification", "spf", "mx"} \cup offer

\* planRoute53Changes: what the batch makes of zone z, planned from what was
\* listed, with the SPF record and the DMARC value that came first there.  A set
\* that is upserted is replaced whole.
Upserted(z, listed, offer, force, spf, first) ==
  LET If(purpose, old) == IF purpose \in Required(offer) THEN {"ours"} ELSE old
      apex == IF listed.cname THEN z
              ELSE [z EXCEPT !.text = Reformat(Kept(listed)),
                             !.spf = {ReformatSpf(spf)},
                             !.verification = If("verification", {}), !.mx = If("mx", @)]
  IN [apex EXCEPT !.dkim = If("dkim", @),
                  !.returnPath = If("return-path", @),
                  !.dmarc = IF Overwrites(first, force) THEN If("dmarc", @) ELSE @]
-----------------------------------------------------------------------------
\* validateEmailDomainBranding, check by check.
SpfCheck(z) ==
  IF Cardinality(z.spf) # 1 THEN "fail"
  ELSE LET all == (CHOOSE s \in z.spf : TRUE).all
       IN IF all = "+all" THEN "fail" ELSE IF all = "none" THEN "warn" ELSE "pass"

DkimCheck(z) == IF z.dkim = {} THEN "fail" ELSE "pass"

\* However it is spelled.
DmarcCheck(z) ==
  LET matches == z.dmarc \ {"other"}
  IN IF Cardinality(matches) = 1 /\ matches \subseteq Enforced THEN "pass" ELSE "fail"

BimiRecordCheck(z) == IF z.bimi \in {"absent", "no logo", "other logo"} THEN "fail" ELSE "pass"

\* The logo is fetched when a record names one, over HTTPS.
BimiLogoCheck(z) ==
  IF z.bimi \in {"absent", "no logo"} THEN "skip"
  ELSE IF z.bimi \in {"insecure", "unavailable"} THEN "fail" ELSE "pass"

BimiSvgCheck(z) ==
  IF BimiLogoCheck(z) # "pass" THEN "skip"
  ELSE IF z.bimi # "malformed" THEN "pass" ELSE IF RequireBimiSvg THEN "fail" ELSE "warn"

\* No check fails.
Validates(z) ==
  "fail" \notin {SpfCheck(z), DkimCheck(z), DmarcCheck(z),
                BimiRecordCheck(z), BimiLogoCheck(z), BimiSvgCheck(z)}
=============================================================================
