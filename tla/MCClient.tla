------------------------------ MODULE MCClient ------------------------------
(***************************************************************************)
(* Instances of Client for TLC: a media server, restarted once at another  *)
(* address, and two renderers with a service without events and two of one *)
(* type.  One of the renderers is of a type that is not looked for, so     *)
(* that it is known as a root device only, and has an embedded media       *)
(* server.  Two of the three have the same name.                           *)
(***************************************************************************)
EXTENDS Client

CONSTANTS d1, d2, d3

ThreeDevices == {d1, d2, d3}

Service(type, id, events) ==
  [type |-> << type >>, id |-> << id >>, scpd |-> << "/", id >>, control |-> << "/", id >>,
   event |-> IF events THEN << "/", id, "event" >> ELSE Null]

Server(uuid, name) ==
  [type |-> << "MediaServer" >>, name |-> name, udn |-> << uuid >>,
   services |-> << Service("ContentDirectory", "cds", TRUE), Service("ConnectionManager", "cms", TRUE) >>]

Renderer(type, uuid, name) ==
  [type |-> << type >>, name |-> name, udn |-> << uuid >>,
   services |-> << Service("RenderingControl", "rcs", TRUE), Service("ConnectionManager", "cms", FALSE),
                   Service("RenderingControl", "rcs2", TRUE) >>]

ThreeDocuments == [d \in ThreeDevices |->
  CASE d = d1 -> [urlbase |-> TRUE, device |-> Server(d1, << 2 >>), embedded |-> << >>]
    [] d = d2 -> [urlbase |-> FALSE, device |-> Renderer("MediaRenderer", d2, << 1, 2 >>), embedded |-> << >>]
    [] d = d3 -> [urlbase |-> FALSE, device |-> Renderer("MediaDongle", d3, << 1, 2 >>), embedded |-> << Server(d1, << 9 >>) >>]]

TheirHosts == [d \in ThreeDevices |-> IF d = d1 THEN << "a:1", "a:2" >> ELSE << "b:80" >>]
=============================================================================
