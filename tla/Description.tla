---------------------------- MODULE Description ----------------------------
(***************************************************************************)
(* The description of a device: how upnpd writes it (generate_description, *)
(* upnpd/common/upnp.c) and what a control point takes from it             *)
(* (client_parser_callback and client_upnpd_service_init,                  *)
(* upnpd/common/client.c).                                                 *)
(***************************************************************************)
EXTENDS Xml

-----------------------------------------------------------------------------
(* The writer.  URLBase and embedded devices are found with the devices of *)
(* others; the embedded one is of no interest to this control point.       *)

ServiceText(service) ==
  Node("service", << Leaf("serviceId", service.id), Leaf("serviceType", service.type), Leaf("SCPDURL", service.scpd),
                     Leaf("controlURL", service.control), Leaf("eventSubURL", service.event) >>)

DeviceText(device, embedded) ==
  Node("device",
    << Leaf("deviceType", device.type), Leaf("presentationURL", Null), Leaf("friendlyName", device.name), Leaf("UDN", device.udn),
       Node("iconList", << Node("icon", << Leaf("url", << "icon" >>) >>) >>),
       Node("serviceList", [i \in DOMAIN device.services |-> ServiceText(device.services[i])]) >> \o embedded)

DescriptionText(doc, host) ==
  Node("root",
    << Node("specVersion", << Leaf("major", << 1 >>), Leaf("minor", << 0 >>) >>) >>
      \o (IF doc.urlbase THEN << Leaf("URLBase", << "http://", host >>) >> ELSE << >>)
      \o << DeviceText(doc.device, [i \in DOMAIN doc.embedded |-> Node("deviceList", << DeviceText(doc.embedded[i], << >>) >>)]) >>)

-----------------------------------------------------------------------------
(* The reader.                                                             *)

DevicePath == << "root", "device" >>
ServicePath == DevicePath \o << "serviceList", "service" >>

NewDevice == [deviceType |-> Null, UDN |-> Null, friendlyName |-> Null, services |-> << >>]
NewService == [serviceId |-> Null, serviceType |-> Null, SCPDURL |-> Null, controlURL |-> Null, eventSubURL |-> Null]

\* data->device and data->device->service are the last of their arrays, or NULL
\* while these are empty.
client_parser_callback(data, call) ==
  LET field == Last(call.path)
      d == Len(data.devices)
      s == IF d = 0 THEN 0 ELSE Len(data.devices[d].services)
  IN CASE call.path = << "root", "URLBase" >> -> [data EXCEPT !.URLBase = call.value]
       [] call.path = DevicePath -> [data EXCEPT !.devices = Append(@, NewDevice)]
       [] d > 0 /\ call.path = ServicePath -> [data EXCEPT !.devices[d].services = Append(@, NewService)]
       [] d > 0 /\ Front(call.path) = DevicePath /\ field \in {"deviceType", "UDN", "friendlyName"} ->
            [data EXCEPT !.devices[d][field] = call.value]
       [] s > 0 /\ Front(call.path) = ServicePath /\ field \in DOMAIN NewService ->
            [data EXCEPT !.devices[d].services[s][field] = call.value]
       [] OTHER -> data

ParsedDescription(document) ==
  LET read == Callbacks(document)
      after[i \in 0 .. Len(read)] == IF i = 0 THEN [URLBase |-> Null, devices |-> << >>]
                                      ELSE client_parser_callback(after[i - 1], read[i])
  IN after[Len(read)]

\* upnpd_upnp_url_parse: the host, with its port, is what stands before the
\* first slash.
HostOf(url) ==
  LET rest == IF Head(url) = "http://" THEN Tail(url) ELSE url
      slash == SelectInSeq(rest, LAMBDA c : c = "/")
  IN IF slash = 0 THEN rest ELSE SubSeq(rest, 1, slash - 1)

\* upnpd_upnp_resolveurl: nothing but the host is taken from the base.
Resolve(base, relative) ==
  LET first == SelectInSeq(relative, LAMBDA c : c # "/")
  IN HostOf(base) \o << "/" >> \o (IF first = 0 THEN << >> ELSE SubSeq(relative, first, Len(relative)))

\* MUTANT: the last service of the type is taken.
client_upnpd_service_init_Last(device, base, type) ==
  LET s == SelectLastInSeq(device.services, LAMBDA x : x.serviceType = type) IN
    IF s = 0 \/ device.services[s].eventSubURL = Null THEN << >>
    ELSE << [type |-> type, id |-> device.services[s].serviceId,
             controlurl |-> Resolve(base, device.services[s].controlURL),
             eventurl |-> Resolve(base, device.services[s].eventSubURL)] >>

\* The first service of the type, and none if it has no url for its events.
client_upnpd_service_init(device, base, type) ==
  LET s == SelectInSeq(device.services, LAMBDA x : x.serviceType = type) IN
    IF s = 0 \/ device.services[s].eventSubURL = Null THEN << >>
    ELSE << [type |-> type, id |-> device.services[s].serviceId,
             controlurl |-> Resolve(base, device.services[s].controlURL),
             eventurl |-> Resolve(base, device.services[s].eventSubURL)] >>

\* The services of the types looked for, the last one found first in the list.
ServicesInit(device, base, types) ==
  Reverse(FlattenSeq([t \in DOMAIN types |-> client_upnpd_service_init(device, base, types[t])]))

\* The device made of a description: the last one with the three texts.  With
\* none the code goes on with a device that it does not have.
DeviceFrom(data, location, types) ==
  LET device == data.devices[SelectLastInSeq(data.devices, LAMBDA d : Null \notin {d.UDN, d.deviceType, d.friendlyName})]
      base == IF data.URLBase # Null THEN data.URLBase ELSE location
  IN [name |-> device.friendlyName, uuid |-> device.UDN, location |-> location,
      services |-> ServicesInit(device, base, types)]
=============================================================================
