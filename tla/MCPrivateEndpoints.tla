------------------------- MODULE MCPrivateEndpoints -------------------------
(* An instance of PrivateEndpoints with two links: one of AWS and one of      *)
(* Azure, both of Azure, or one of GCP beside one that is never set up. They  *)
(* are interchangeable, so that one order stands for both.                    *)
EXTENDS PrivateEndpoints

CONSTANTS l1, l2

MCInit == Init /\ <<provider[l1], provider[l2]>> \in
                    {<<"aws", "azure">>, <<"aws", "gcp">>, <<"azure", "azure">>}
(* Beside a link of GCP the service of the other one is never enabled.        *)
MCNext == Next /\ (provider[l2] = "gcp" => service'[l1] = "off")
MCSpec == MCInit /\ [][MCNext]_vars /\ Fairness
=============================================================================
