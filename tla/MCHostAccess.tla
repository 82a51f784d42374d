---------------------------- MODULE MCHostAccess ----------------------------
(* Hosts of every connection type; who is active together is a group. *)
EXTENDS HostAccess

CONSTANTS web, db, ssm, api, out, disk, sshEnv, ssmEnv, apiEnv, badEnv,
          agent, badAgent, p1, p2, p3, p4, shop, eu, os

Tasks == [j \in Jobs |->
            CASE j \in {web, db, api, out} -> "act"
              [] j \in {ssm} -> "collect"
              [] OTHER -> "discover"]
Types == [j \in Jobs |->
            CASE j \in {web, sshEnv, badEnv} -> "ssh"
              [] j \in {db, ssm, ssmEnv} -> "ssm"
              [] j \in {api, apiEnv} -> "runner"
              [] OTHER -> "outbound"]
OneHost == [j \in Jobs |-> "host"]
OneRegion == [j \in Jobs |-> eu]
OneProject == [r \in Requests |-> shop]
OneRunner == [p \in Polls |-> agent]
Reports == [p \in Polls |->
              CASE p = p1 -> {os, disk} [] p = p2 -> {os} [] p = p3 -> {disk} [] OTHER -> {}]
Together == { {agent, badAgent, p1, p2, p3, p4},
              {sshEnv, badEnv, agent, p1}, {ssmEnv, apiEnv},
              {ssm, ssmEnv}, {web, api}, {db, out}, {db, ssmEnv} }
=============================================================================
