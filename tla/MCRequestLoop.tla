---------------------------- MODULE MCRequestLoop ----------------------------
EXTENDS RequestLoop

Plain == [params |-> "some", path |-> "none", hasmap |-> TRUE,
          service |-> "none", mode |-> "none", places |-> 0]

\* Up to three parameters about places in the mode with the shortest way to its
\* answer, two in the query that looks at most of them, one in every mode.
TraditionalRequests ==
    {[Plain EXCEPT !.mode = "COORDINATE", !.places = 3]}
    \cup {[Plain EXCEPT !.mode = "NQUERY", !.places = 2]}
    \cup {[Plain EXCEPT !.mode = m, !.places = 1] : m \in ModeNames \cup {"invalid"}}

\* Every way to send a request; a request without parameters has no map
\* parameter and names its service in a document only.
OtherRequests ==
    {r \in [params : {"nomethod", "noquery", "unreadable", "zero", "some"},
            path : {"none", "root", "map", "ogcapi", "badapi"},
            hasmap : BOOLEAN,
            service : {"none", "WMS", "other", "body", "unknown"},
            mode : {"none", "OWS", "MAP"}, places : {0}] :
        /\ r.params # "some" => ~r.hasmap
        /\ r.params \notin {"some", "zero"} => r.service = "none"
        /\ r.params = "zero" => r.service \in {"none", "body"}}

MCRequests == TraditionalRequests \cup OtherRequests

\* A map with a template has a page for empty results, an index if services are
\* strict, and a legend without height if it has an index.
MCConfigurations ==
    {c \in Configuration :
        /\ c.template = c.empty
        /\ c.template => c.index = c.strict
        /\ c.wide = (c.template /\ c.index)}
=============================================================================
