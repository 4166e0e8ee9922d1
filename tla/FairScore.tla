----------------------------- MODULE FairScore -----------------------------
(***************************************************************************)
(* The FAIR score of a version (app/services/fair_service.py) and what the *)
(* publish guard makes of it.  A version passes some of fifteen checks, in *)
(* four dimensions.  A dimension's score is the share of its checks that   *)
(* pass, rounded to four digits, and the overall score is the mean of the  *)
(* four, rounded again.  Scores are counted in units of 1/10000.           *)
(***************************************************************************)
EXTENDS Integers, FiniteSets

Findable ==
    {"has_title", "description_adequate", "has_keywords", "has_theme", "has_doi"}
Accessible == {"has_distribution", "access_rights_defined", "access_url_present"}
Interoperable ==
    {"has_license", "has_language", "media_types_present", "publisher_resolvable"}
Reusable == {"has_provenance", "has_rights_statement", "checksum_on_uploads"}

FairChecks == Findable \union Accessible \union Interoperable \union Reusable

Unit == 10000

\* fair_score_publish_threshold, unless the deployment sets another one: 0.4.
Threshold == 4000

\* The score of a dimension of "size" checks of which "passed" pass: the
\* nearest integer.  There are no ties; a third is the only rounded share.
Share(passed, size) == (2 * Unit * passed + size) \div (2 * size)

\* The overall scores that the counts of passed checks may round to: the
\* binary fraction of a mean that lies between two scores is next to it.
Overalls(f, a, i, r) ==
    LET sum == Share(f, 5) + Share(a, 3) + Share(i, 4) + Share(r, 3)
        low == sum \div 4
    IN  {n \in {low, low + 1} : 4 * n - sum \in -2 .. 2}

\* Mutant: the checks of all dimensions count alike.
MeetsThresholdPooled(f, a, i, r) == Unit * (f + a + i + r) >= Threshold * 15

\* The guard's comparison, fair.score < threshold, does not hold.
MeetsThreshold(f, a, i, r) == \E n \in Overalls(f, a, i, r) : n >= Threshold

Passed(checks, dimension) == Cardinality(checks \intersect dimension)

FairEnough(checks) ==
    MeetsThreshold(Passed(checks, Findable), Passed(checks, Accessible),
                   Passed(checks, Interoperable), Passed(checks, Reusable))

-----------------------------------------------------------------------------
\* The mean of the four exact shares is at least 0.4, times 4 * 60.
IsFair(f, a, i, r) == 12 * f + 20 * a + 15 * i + 20 * r >= 96
=============================================================================
