----------------------- MODULE MCOrganizationRemoval -----------------------
(* TLC instance of OrganizationRemoval: one linear extension of the references
   between tables. *)
EXTENDS OrganizationRemoval

MCPurgeOrder == <<"attempts", "jobs", "leads", "actions", "products", "plans", "runs", "sources",
                  "intents", "connections">>
=============================================================================
