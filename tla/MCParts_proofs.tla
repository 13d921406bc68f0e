---------------------------- MODULE MCParts_proofs ----------------------------
(***************************************************************************)
(* The sources and the parts side by side: a behaviour of the composed     *)
(* specification is one of each of them, so what is proved of one holds in *)
(* it.                                                                     *)
(***************************************************************************)
EXTENDS MCParts, Sources_proofs, Parts_proofs

LEMMA SourcesAreApart ==
  /\ SourcesInit => TagsInit /\ RegInit /\ TmuxInit /\ TsInit /\ SnInit /\ T9Init /\ LcInit
  /\ [SourcesNext]_sourcesVars =>
       [TagsNext]_tagsVars /\ [RegNext]_regVars /\ [TmuxNext]_tmuxVars /\ [TsNext]_tsVars /\ [SnNext]_snVars /\ [T9Next]_t9Vars /\ [LcNext]_lcVars
<1>1. SourcesInit => TagsInit /\ RegInit /\ TmuxInit /\ TsInit /\ SnInit /\ T9Init /\ LcInit BY DEF SourcesInit
<1>2. ASSUME [SourcesNext]_sourcesVars PROVE [TagsNext]_tagsVars /\ [RegNext]_regVars /\ [TmuxNext]_tmuxVars /\ [TsNext]_tsVars /\ [SnNext]_snVars /\ [T9Next]_t9Vars /\ [LcNext]_lcVars
  <2>1. CASE UNCHANGED sourcesVars BY <2>1 DEF sourcesVars
  <2>2. CASE SourcesNext BY <2>2 DEF SourcesNext
  <2> QED BY <1>2, <2>1, <2>2
<1> QED BY <1>1, <1>2

LEMMA ItemsAreApart ==
  /\ ItemsInit => PvInit /\ EpInit /\ MkInit /\ LxInit /\ FzInit /\ RkInit
  /\ [ItemsNext]_itemsVars =>
       [PvNext]_pvVars /\ [EpNext]_epVars /\ [MkNext]_mkVars /\ [LxNext]_lxVars /\ [FzNext]_fzVars /\ [RkNext]_rkVars
<1>1. ItemsInit => PvInit /\ EpInit /\ MkInit /\ LxInit /\ FzInit /\ RkInit BY DEF ItemsInit
<1>2. ASSUME [ItemsNext]_itemsVars PROVE [PvNext]_pvVars /\ [EpNext]_epVars /\ [MkNext]_mkVars /\ [LxNext]_lxVars /\ [FzNext]_fzVars /\ [RkNext]_rkVars
  <2>1. CASE UNCHANGED itemsVars BY <2>1 DEF itemsVars
  <2>2. CASE ItemsNext BY <2>2 DEF ItemsNext
  <2> QED BY <1>2, <2>1, <2>2
<1> QED BY <1>1, <1>2

LEMMA PartsAreApart ==
  /\ PartsInit => SourcesInit /\ ItemsInit
  /\ [PartsNext]_<<sourcesVars, itemsVars>> => [SourcesNext]_sourcesVars /\ [ItemsNext]_itemsVars
BY DEF PartsInit, PartsNext

LEMMA EachIsServed == PartsSpec => TagsSpec /\ RegSpec /\ TmuxSpec /\ TsSpec /\ SnSpec /\ T9Spec /\ LcSpec
                                 /\ PvSpec /\ EpSpec /\ MkSpec /\ LxSpec /\ FzSpec /\ RkSpec
BY SourcesAreApart, ItemsAreApart, PartsAreApart, PTL
   DEF PartsSpec, TagsSpec, RegSpec, TmuxSpec, TsSpec, SnSpec, T9Spec, LcSpec, PvSpec, EpSpec, MkSpec, LxSpec, FzSpec, RkSpec

\* Every source and every part keeps its types, for every instance of all of them.  As above, it is asked of the
\* snippets that no more than two of their marks have one number.
THEOREM PartsTypesCorrect == PartsSpec /\ (\A s \in MkSnippets : AtMostTwo(s.marks)) => []TypesOK
<1>1. /\ TagsTypeOK /\ RegTypeOK /\ TmuxTypeOK /\ TsTypeOK /\ SnTypeOK /\ T9TypeOK /\ LcTypeOK
      /\ PvTypeOK /\ EpTypeOK /\ MkTypeOK /\ LxTypeOK /\ FzTypeOK /\ RkTypeOK
      => TypesOK
  BY DEF TypesOK, SourcesTypeOK, ItemsTypeOK
<1> QED BY <1>1, EachIsServed, TagTypes, RegTypes, TmuxTypes, TsTypes, SnTypes, T9Types, LcTypes,
          PreviewTypes, EpTypes, MkTypes, LxTypes, FzTypes, RkTypes, PTL
=============================================================================
