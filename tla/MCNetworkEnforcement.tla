------------------------ MODULE MCNetworkEnforcement ------------------------
(* Small instances of the network controls: one website whose names are a search *)
(* provider's, one other.                                                        *)
EXTENDS NetworkEnforcement

MCNeeds ==
    {Nothing,
     [controls |-> {"doh"}, domains |-> {}],
     [controls |-> {"safe_search"}, domains |-> {"search"}],
     [controls |-> {"local_dns", "doh"}, domains |-> {"site"}],
     [controls |-> {"local_dns"}, domains |-> {"search"}]}

\* Both resolver controls, and a provider that is blocked altogether.
MCCombinedNeeds == {[controls |-> {"local_dns", "safe_search"}, domains |-> {"search"}],
                    [controls |-> {"local_dns", "safe_search"}, domains |-> {"site"}],
                    [controls |-> {"whole_internet"}, domains |-> {}]}
=============================================================================
