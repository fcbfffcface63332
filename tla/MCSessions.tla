----------------------------- MODULE MCSessions -----------------------------
(***************************************************************************)
(* Two tabs of one browser, which share its cookie.                        *)
(***************************************************************************)
EXTENDS Sessions, TLC

CONSTANTS t1, t2, laptop, professional, contractor

TwoTabs == {t1, t2}
OneBrowser == {laptop}
Browser == [t \in Tabs |-> laptop]
TwoTypes == {professional, contractor}
OneLinkEach == [p \in Purposes |-> 1]

\* Nothing tells the tabs of a browser apart, nor the types of profile.
TabAndTypeSymmetry ==
  Permutations({t1, t2}) \cup Permutations({professional, contractor})
=============================================================================
