-------------------------- MODULE MCCloudResources --------------------------
(* Templates with and without public address, security group, image and a  *)
(* fallback address, for spot VMs of either eviction policy and others.    *)
EXTENDS CloudResources

Template(ip, ssh, image, address, spot) ==
  [ip |-> ip, ssh |-> ssh, image |-> image, address |-> address, spot |-> spot]
MCConfigs == {Template(TRUE, TRUE, TRUE, FALSE, "Delete"), Template(FALSE, FALSE, TRUE, FALSE, "none"),
              Template(FALSE, TRUE, TRUE, TRUE, "Deallocate"), Template(TRUE, FALSE, FALSE, FALSE, "Delete")}
=============================================================================
