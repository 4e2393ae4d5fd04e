---------------------------- MODULE MCCatalogInit ----------------------------
EXTENDS CatalogInit

AllPlatforms == {"ecs", "swarm", "k8s"}
AllKinds == {"postgresql", "zookeeper", "elasticsearch", "logstash", "kibana", "kafka",
             "kafkamanager", "telegraf", "kafkasinkes", "couchdb", "cassandra",
             "cassandranode", "mongodb", "redis", "redisserver", "consul"}
=============================================================================
