---- MODULE MCServer ----
EXTENDS ServerTable
====
