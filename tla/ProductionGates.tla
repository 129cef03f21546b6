-------------------------- MODULE ProductionGates ---------------------------
(***************************************************************************)
(* The deployment checks of the hibs-bet patches: the configuration issues *)
(* and the engineering grade of institutional_readiness.py, the checks and *)
(* claims of production_secure.py, and the market contract both of them    *)
(* ask, beside the forward evidence of the log.  An environment is a       *)
(* record of the settings they read; issues and warnings are pairs of what *)
(* they are about.                                                         *)
(***************************************************************************)
EXTENDS EvidenceGates

CONSTANTS
  Codes,         \* leagues with a profile
  Excluded,      \* pipeline_excluded_league_codes
  TierA, TierC,  \* market_contract's leagues, staked on and audited only
  BadFields      \* [Codes -> sets of fields that are missing or out of range]

ASSUME ContractAssumption ==
  IsFiniteSet(Codes) /\ IsFiniteSet(TierA) /\ \A c \in Codes : IsFiniteSet(BadFields[c])

-----------------------------------------------------------------------------
(* market_contract.py                                                       *)

\* A profile that misses a field, or has it out of its range, blocks.
ContractIssues == UNION {{<<c, f>> : f \in BadFields[c]} : c \in Codes}
ContractWarnings ==
  {<<"not excluded", c>> : c \in (Codes \cap TierC) \ Excluded}
    \cup {<<"elite excluded", c>> : c \in TierA \cap Excluded}
    \cup {<<"no profiles", c>> : c \in IF Codes = {} THEN {"all"} ELSE {}}

-----------------------------------------------------------------------------
(* institutional_readiness.py                                               *)

Settings ==
  [production : BOOLEAN, devDq : BOOLEAN, fetchAll : BOOLEAN,
   auth : {"off", "ok", "no secret", "no password", "neither"},
   audit : BOOLEAN, clv : {"on", "off", "unset"},
   leagues : {"unset", "trial", "extra", "missing", "both"},
   calibrated : BOOLEAN, needCalibration : BOOLEAN, sharpen : BOOLEAN,
   fve : BOOLEAN, paused : BOOLEAN]

\* The settings an operator is asked for; the line shop itself is an option.
Recommended ==
  [production |-> TRUE, devDq |-> FALSE, fetchAll |-> FALSE, auth |-> "ok", audit |-> TRUE,
   clv |-> "on", leagues |-> "trial", calibrated |-> TRUE, sharpen |-> TRUE, paused |-> FALSE]

Named(found, name) == IF found THEN {<<name, "setting">>} ELSE {}
Offline(e) == e.production /\ e.fve /\ e.paused

ConfigIssues(e) ==
  Named(e.production /\ e.devDq, "dev data quality")
    \cup Named(e.auth \in {"no secret", "neither"}, "secret key")
    \cup Named(e.auth \in {"no password", "neither"}, "password")
    \cup Named(e.production /\ ~ e.audit, "audit log")
    \cup Named(Offline(e), "line shop offline")
    \cup ContractIssues

\* A trial set with a league too many and one too few is warned of twice.
ConfigWarnings(e) ==
  Named(e.production /\ e.fetchAll, "fetches all leagues")
    \cup Named(e.production /\ e.auth = "off", "dashboard is public")
    \cup Named(~ e.production /\ ~ e.audit, "audit log")
    \cup Named(e.production /\ e.audit /\ e.clv # "on", "closing line value")
    \cup Named(e.production /\ e.leagues = "unset", "value leagues")
    \cup Named(e.production /\ e.leagues \in {"extra", "both"}, "leagues beyond the trial")
    \cup Named(e.production /\ e.leagues \in {"missing", "both"}, "leagues missing")
    \cup Named(e.production /\ ~ e.calibrated, "calibration cache")
    \cup Named(e.production /\ ~ e.sharpen, "sharpen gates")
    \cup ContractWarnings

\* Mutant: the warnings of a production deployment count from the first.
EngineeringGradeStrict(e) ==
  IF ConfigIssues(e) # {} \/ Cardinality(ConfigWarnings(e)) > 4 THEN "C"
  ELSE IF ConfigWarnings(e) # {} THEN "B+" ELSE "A"

EngineeringGrade(e) ==
  LET issues == Cardinality(ConfigIssues(e)) warnings == Cardinality(ConfigWarnings(e)) IN
  IF issues > 2 THEN "D" ELSE IF issues > 0 THEN "C"
  ELSE IF warnings > 4 THEN "B" ELSE IF warnings > 0 THEN "B+" ELSE "A"

\* validate_production_config judges any environment as a production one.
BootsStrict(e) == ConfigIssues([e EXCEPT !.production = TRUE]) = {}

-----------------------------------------------------------------------------
(* production_secure.py, for a probe of the line shop that says it is       *)
(* healthy or not.                                                          *)

Blocking(e) ==
  ConfigIssues(e) \cup ContractIssues
    \cup Named(e.production /\ e.needCalibration /\ ~ e.calibrated, "calibration cache")

FveOk(e, probe, healthy) == (probe /\ e.fve) => (~ e.paused /\ healthy)
EngineeringSecure(e) == Blocking(e) = {}
TrafficSafe(e, probe, healthy) ==
  IF e.fve /\ probe THEN FveOk(e, probe, healthy) ELSE EngineeringSecure(e)
Secure(e, probe, healthy) == EngineeringSecure(e) /\ TrafficSafe(e, probe, healthy)

-----------------------------------------------------------------------------
GradeRank(g) == CASE g = "D" -> 0 [] g = "C" -> 1 [] g = "B" -> 2 [] g = "B+" -> 3 [] g = "A" -> 4

\* Correcting one setting never lowers the engineering grade, in any environment of
\* production: some checks hide others (the audit log's issue hides the warning on
\* closing line value), and the grade counts both kinds against limits of their own.
CorrectionNeverHurts ==
  \A e \in {x \in Settings : x.production}, k \in DOMAIN Recommended :
    GradeRank(EngineeringGrade(e))
      <= GradeRank(EngineeringGrade([e EXCEPT ![k] = Recommended[k]]))

\* The two pages on a deployment agree: production_secure calls secure only what
\* institutional_readiness grades B or better, refuses nothing else but a missing
\* calibration cache it was told to need, and calls nothing secure in production
\* that would not boot under strict validation.
SecureMeansGraded ==
  \A e \in Settings :
    /\ EngineeringSecure(e) <=>
         /\ EngineeringGrade(e) \notin {"C", "D"}
         /\ ~ (e.production /\ e.needCalibration /\ ~ e.calibrated)
    /\ \A healthy \in BOOLEAN : Secure(e, TRUE, healthy) => ~ Offline(e)
    /\ (e.production /\ EngineeringSecure(e)) => BootsStrict(e)

\* What the operator is shown is of one mind: the evidence grade with its gates, the
\* engineering grade with its issues, and the verdict of production_secure with both.
GradesAgree == GradeMonotone /\ GatesNested /\ CorrectionNeverHurts /\ SecureMeansGraded
=============================================================================
