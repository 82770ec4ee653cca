-------------------------- MODULE MCBrowserSession --------------------------
(* Instances of BrowserSession for TLC.                                     *)
EXTENDS BrowserSession, TLC

CONSTANTS t1, t2, c1, c2, c3

OneTab == {<<t1, c1>>, <<t1, c2>>}
ThreeCalls == {t1} \X Calls
TwoTabs == {<<t1, c1>>, <<t2, c1>>}
UsedSlots == ThreeCalls \cup TwoTabs

Browsers ==
  {[slots |-> OneTab, expiring |-> {1, 2}, ops |-> {}],
   [slots |-> ThreeCalls, expiring |-> {1}, ops |-> {}],
   [slots |-> OneTab, expiring |-> {1}, ops |-> {"logout"}],
   [slots |-> OneTab, expiring |-> {1}, ops |-> {"profile", "reload"}],
   [slots |-> OneTab, expiring |-> {1}, ops |-> {"fail", "deactivate"}],
   [slots |-> TwoTabs, expiring |-> {1}, ops |-> {"expireRefresh"}]}
=============================================================================
