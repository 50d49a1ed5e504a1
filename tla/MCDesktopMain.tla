---------------------------- MODULE MCDesktopMain ------------------------------
\* A small instance of DesktopMain: two sites, two files, batches of two.
EXTENDS DesktopMain

MCSite == <<"s1", "s2">>
MCFilesOf == [s1 |-> <<"f1">>, s2 |-> <<"f2">>]

Cfg(policies, target, dry, sites) ==
  [policies |-> policies, target |-> target, dry |-> dry, sites |-> sites]

MCConfigs ==
  { Cfg(TRUE, FALSE, FALSE, {}), Cfg(TRUE, TRUE, FALSE, {"s1"}),
    Cfg(FALSE, TRUE, FALSE, {}), Cfg(FALSE, TRUE, TRUE, {}) }
MCId == { "f1", "f2", "u1" }
=============================================================================
