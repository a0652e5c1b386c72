------------------------ MODULE MCLeadCommunication ------------------------
(* TLC instances of LeadCommunication. *)
EXTENDS LeadCommunication

CONSTANTS a, b, first, second, transactional, marketing

\* Two communications of one organization, each for its own type of consent.
OneOrganization == [c \in {first, second} |-> a]
\* One communication of each of two organizations.
TwoOrganizations == [c \in {first, second} |-> IF c = first THEN a ELSE b]
TwoTypes == [c \in {first, second} |-> IF c = first THEN transactional ELSE marketing]
=============================================================================
