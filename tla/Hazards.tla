------------------------------- MODULE Hazards -------------------------------
(***************************************************************************)
(* The hazards catalogue of tosca (src/hazards.rs): the Hazard and         *)
(* Category enums, the ALL_HAZARDS and ALL_CATEGORIES tables, and the     *)
(* const fns that relate them.  Each `match` is a table here, its arms in *)
(* the source's order: id and from_id as sequences whose k-th entry is    *)
(* the arm for k - 1, category as the three sets of variants of its arms, *)
(* Category::hazards as one sequence per category.  Names and             *)
(* descriptions are text and are left out.  The tables are constants:     *)
(* the module has no variables and is used by the modules of the devices *)
(* whose routes carry hazards.                                             *)
(***************************************************************************)
EXTENDS Naturals, Sequences, SequencesExt

(* enum Hazard                                                              *)
Hazard ==
    {"AirPoisoning", "Asphyxia", "AudioVideoDisplay",
     "AudioVideoRecordAndStore", "ElectricEnergyConsumption", "Explosion",
     "FireHazard", "GasConsumption", "LogEnergyConsumption", "LogUsageTime",
     "PaySubscriptionFee", "PowerOutage", "PowerSurge",
     "RecordIssuedCommands", "RecordUserPreferences", "SpendMoney",
     "SpoiledFood", "TakeDeviceScreenshots", "TakePictures",
     "UnauthorisedPhysicalAccess", "VideoDisplay", "VideoRecordAndStore",
     "WaterConsumption", "WaterFlooding"}

(* enum Category                                                            *)
Category == {"Financial", "Privacy", "Safety"}

(* ALL_HAZARDS                                                              *)
ALL_HAZARDS ==
    <<"AirPoisoning", "Asphyxia", "AudioVideoDisplay",
      "AudioVideoRecordAndStore", "ElectricEnergyConsumption", "Explosion",
      "FireHazard", "GasConsumption", "LogEnergyConsumption", "LogUsageTime",
      "PaySubscriptionFee", "PowerOutage", "PowerSurge",
      "RecordIssuedCommands", "RecordUserPreferences", "SpendMoney",
      "SpoiledFood", "TakeDeviceScreenshots", "TakePictures",
      "UnauthorisedPhysicalAccess", "VideoDisplay", "VideoRecordAndStore",
      "WaterConsumption", "WaterFlooding">>

(* ALL_CATEGORIES                                                           *)
ALL_CATEGORIES == <<"Safety", "Privacy", "Financial">>

None == "none"      \* Option::None of from_id

(* The three arms of Hazard::category.                                      *)
SafetyArm ==
    {"AirPoisoning", "Asphyxia", "Explosion", "FireHazard", "PowerOutage",
     "PowerSurge", "SpoiledFood", "UnauthorisedPhysicalAccess",
     "WaterFlooding"}
PrivacyArm ==
    {"AudioVideoDisplay", "AudioVideoRecordAndStore", "LogEnergyConsumption",
     "LogUsageTime", "RecordIssuedCommands", "RecordUserPreferences",
     "TakeDeviceScreenshots", "TakePictures", "VideoDisplay",
     "VideoRecordAndStore"}
FinancialArm ==
    {"ElectricEnergyConsumption", "GasConsumption", "PaySubscriptionFee",
     "SpendMoney", "WaterConsumption"}

(* Mutation: a hazard added to the safety list of Category::hazards but   *)
(* filed under the financial arm of category.                              *)
categoryMisfiled(h) ==
    CASE h \in SafetyArm \ {"FireHazard"}        -> "Safety"
      [] h \in PrivacyArm                         -> "Privacy"
      [] h \in FinancialArm \cup {"FireHazard"}    -> "Financial"

(* Hazard::category                                                         *)
category(h) ==
    CASE h \in SafetyArm    -> "Safety"
      [] h \in PrivacyArm   -> "Privacy"
      [] h \in FinancialArm -> "Financial"

(* The arms of Hazard::id: IdArms[k] => k - 1.                              *)
IdArms ==
    <<"AirPoisoning", "Asphyxia", "AudioVideoDisplay",
      "AudioVideoRecordAndStore", "ElectricEnergyConsumption", "Explosion",
      "FireHazard", "GasConsumption", "LogEnergyConsumption", "LogUsageTime",
      "PaySubscriptionFee", "PowerOutage", "PowerSurge",
      "RecordIssuedCommands", "RecordUserPreferences", "SpendMoney",
      "SpoiledFood", "TakeDeviceScreenshots", "TakePictures",
      "UnauthorisedPhysicalAccess", "VideoDisplay", "VideoRecordAndStore",
      "WaterConsumption", "WaterFlooding">>

(* Hazard::id                                                               *)
id(h) == CHOOSE n \in 0..(Len(IdArms) - 1) : IdArms[n + 1] = h

(* The arms of Hazard::from_id: k - 1 => Some(FromIdArms[k]).              *)
FromIdArms ==
    <<"AirPoisoning", "Asphyxia", "AudioVideoDisplay",
      "AudioVideoRecordAndStore", "ElectricEnergyConsumption", "Explosion",
      "FireHazard", "GasConsumption", "LogEnergyConsumption", "LogUsageTime",
      "PaySubscriptionFee", "PowerOutage", "PowerSurge",
      "RecordIssuedCommands", "RecordUserPreferences", "SpendMoney",
      "SpoiledFood", "TakeDeviceScreenshots", "TakePictures",
      "UnauthorisedPhysicalAccess", "VideoDisplay", "VideoRecordAndStore",
      "WaterConsumption", "WaterFlooding">>

(* Hazard::from_id: `_ => None` past the last arm.                          *)
from_id(n) == IF n < Len(FromIdArms) THEN FromIdArms[n + 1] ELSE None

(* Category::hazards                                                        *)
hazards(c) ==
    CASE c = "Financial" ->
           <<"ElectricEnergyConsumption", "GasConsumption",
             "PaySubscriptionFee", "SpendMoney", "WaterConsumption">>
      [] c = "Privacy" ->
           <<"AudioVideoDisplay", "AudioVideoRecordAndStore",
             "LogEnergyConsumption", "LogUsageTime", "RecordIssuedCommands",
             "RecordUserPreferences", "TakeDeviceScreenshots", "TakePictures",
             "VideoDisplay", "VideoRecordAndStore">>
      [] c = "Safety" ->
           <<"AirPoisoning", "Asphyxia", "Explosion", "FireHazard",
             "PowerOutage", "PowerSurge", "SpoiledFood",
             "UnauthorisedPhysicalAccess", "WaterFlooding">>

(* Hazard::data, without the texts.                                         *)
data(h) == [id |-> id(h), category_name |-> category(h)]

-----------------------------------------------------------------------------
(* Properties                                                              *)

IdProbe == 32       \* the from_id arguments checked: every arm and past it

(* The catalogue's tables agree, as the doc comment of category ("always  *)
(* exactly one category") and the consumers of HazardData assume:          *)
(* ALL_HAZARDS and ALL_CATEGORIES list every variant once; from_id undoes *)
(* id and names nothing else below IdProbe; and Category::hazards lists    *)
(* each hazard once, under the category that category gives it.  Only    *)
(* the id round trip has a unit test.                                      *)
CatalogueConsistent ==
    /\ IsInjective(ALL_HAZARDS) /\ ToSet(ALL_HAZARDS) = Hazard
    /\ IsInjective(ALL_CATEGORIES) /\ ToSet(ALL_CATEGORIES) = Category
    /\ \A h \in Hazard : from_id(id(h)) = h
    /\ \A n \in 0..IdProbe : from_id(n) # None => data(from_id(n)).id = n
    /\ \A c \in Category :
          /\ IsInjective(hazards(c))
          /\ \A k \in DOMAIN hazards(c) : category(hazards(c)[k]) = c
    /\ \A h \in Hazard : \E k \in DOMAIN hazards(category(h)) :
          hazards(category(h))[k] = h

=============================================================================
