---------------------------- MODULE RrcOtherIes ----------------------------
(***************************************************************************)
(* RRC information elements of 36.331 sections 6.3.3, 6.3.6 and 6.3.7:     *)
(* security, identities, timers, capabilities, MBMS.                       *)
(* One layout per function, named without the prefix liblte_rrc_.  Numbers *)
(* in Is, Arm and Enum are values and sizes of enumerations of liblte_rrc.h. *)
(***************************************************************************)
EXTENDS BitLayout

pack_mbsfn_notification_config_ie ==
  <<Fld("repetition_coeff", 1), Fld("offset", 4), Bias("sf_index", 3, -1)>>

unpack_mbsfn_notification_config_ie ==
  <<Fld("repetition_coeff", 1), Fld("offset", 4), Bias("sf_index", 3, -1)>>

pack_mbsfn_area_info_ie ==
  <<Fill(0, 1), Fld("mbsfn_area_id_r9", 8), Fld("non_mbsfn_region_length", 1),
    Fld("notification_indicator_r9", 3), Fld("mcch_repetition_period_r9", 2),
    Fld("mcch_offset_r9", 4), Fld("mcch_modification_period_r9", 1), Fld("sf_alloc_info_r9", 6),
    Fld("signalling_mcs_r9", 2)>>

unpack_mbsfn_area_info_ie ==
  <<Fld("ext", 1), Fld("mbsfn_area_id_r9", 8), Fld("non_mbsfn_region_length", 1),
    Fld("notification_indicator_r9", 3), Fld("mcch_repetition_period_r9", 2),
    Fld("mcch_offset_r9", 4), Fld("mcch_modification_period_r9", 1), Fld("sf_alloc_info_r9", 6),
    Fld("signalling_mcs_r9", 2), Ext("ext")>>

pack_mbsfn_subframe_config_ie ==
  <<Enum("radio_fr_alloc_period", 3, 6), Fld("radio_fr_alloc_offset", 3),
    Fld("subfr_alloc_num_frames", 1),
    Case(Off("subfr_alloc_num_frames"), <<Fld("subfr_alloc", 6)>>, <<Fld("subfr_alloc", 24)>>)>>

unpack_mbsfn_subframe_config_ie ==
  <<Enum("radio_fr_alloc_period", 3, 6), Fld("radio_fr_alloc_offset", 3),
    Fld("subfr_alloc_num_frames", 1),
    Case(Off("subfr_alloc_num_frames"), <<Fld("subfr_alloc", 6)>>, <<Fld("subfr_alloc", 24)>>)>>

pack_c_rnti_ie == <<Fld("", 16)>>

unpack_c_rnti_ie == <<Fld("", 16)>>

pack_dedicated_info_cdma2000_ie ==
  <<Case(Below("N_bytes", 128), <<Fill(0, 1), Cnt("N_bytes", 7, 0)>>,
      <<When(Below("N_bytes", 16383), <<Fill(1, 1), Fill(0, 1), Cnt("N_bytes", 14, 0)>>)>>),
    Each("N_bytes", "msg", <<Fld("", 8)>>)>>

unpack_dedicated_info_cdma2000_ie ==
  <<Read(1, 0, <<Cnt("N_bytes", 7, 0)>>,
      <<Read(1, 0, <<Cnt("N_bytes", 14, 0)>>, <<Put("N_bytes", 0)>>)>>),
    Each("N_bytes", "msg", <<Fld("", 8)>>)>>

pack_dedicated_info_nas_ie ==
  <<Case(Below("N_bytes", 128), <<Fill(0, 1), Cnt("N_bytes", 7, 0)>>,
      <<When(Below("N_bytes", 16383), <<Fill(1, 1), Fill(0, 1), Cnt("N_bytes", 14, 0)>>)>>),
    Each("N_bytes", "msg", <<Fld("", 8)>>)>>

unpack_dedicated_info_nas_ie ==
  <<Read(1, 0, <<Cnt("N_bytes", 7, 0)>>,
      <<Read(1, 0, <<Cnt("N_bytes", 14, 0)>>, <<Put("N_bytes", 0)>>)>>),
    Each("N_bytes", "msg", <<Fld("", 8)>>)>>

pack_filter_coefficient_ie == <<Fill(0, 1), Fld("", 4)>>

unpack_filter_coefficient_ie == <<Fld("ext", 1), Fld("", 4), Ext("ext")>>

pack_mmec_ie == <<Fld("", 8)>>

unpack_mmec_ie == <<Fld("", 8)>>

pack_neigh_cell_config_ie == <<Fld("", 2)>>

unpack_neigh_cell_config_ie == <<Fld("", 2)>>

pack_other_config_ie ==
  <<Fill(0, 1), Fld("report_proximity_cnfg_present", 1),
    When(On("report_proximity_cnfg_present"),
      <<Flags(<<"report_proximity_cnfg.report_proximity_ind_eutra_present",
          "report_proximity_cnfg.report_proximity_ind_utra_present">>),
        When(On("report_proximity_cnfg.report_proximity_ind_eutra_present"),
          <<Enum("report_proximity_cnfg.report_proximity_ind_eutra", 1, 1)>>),
        When(On("report_proximity_cnfg.report_proximity_ind_utra_present"),
          <<Enum("report_proximity_cnfg.report_proximity_ind_utra", 1, 1)>>)>>)>>

unpack_other_config_ie ==
  <<Flags(<<"ext", "report_proximity_cnfg_present">>),
    When(On("report_proximity_cnfg_present"),
      <<Flags(<<"report_proximity_cnfg.report_proximity_ind_eutra_present",
          "report_proximity_cnfg.report_proximity_ind_utra_present">>),
        When(On("report_proximity_cnfg.report_proximity_ind_eutra_present"),
          <<Enum("report_proximity_cnfg.report_proximity_ind_eutra", 1, 1)>>),
        When(On("report_proximity_cnfg.report_proximity_ind_utra_present"),
          <<Enum("report_proximity_cnfg.report_proximity_ind_utra", 1, 1)>>)>>),
    Ext("ext")>>

pack_rand_cdma2000_1xrtt_ie == <<Fld("", 32)>>

unpack_rand_cdma2000_1xrtt_ie == <<Fld("", 32)>>

pack_rat_type_ie == <<Fill(0, 1), Fld("", 3)>>

unpack_rat_type_ie == <<Fld("ext", 1), Fld("", 3), Ext("ext")>>

pack_rrc_transaction_identifier_ie == <<Fld("", 2)>>

unpack_rrc_transaction_identifier_ie == <<Fld("", 2)>>

pack_s_tmsi_ie == <<Sub("mmec", pack_mmec_ie), Fld("m_tmsi", 32)>>

unpack_s_tmsi_ie == <<Sub("mmec", unpack_mmec_ie), Fld("m_tmsi", 32)>>

pack_pdcp_params_ie ==
  <<Fill(0, 1), Fld("max_rohc_ctxts_present", 1),
    Times(9, "supported_rohc_profiles", <<Fld("", 1)>>),
    When(On("max_rohc_ctxts_present"), <<Fld("max_rohc_ctxts", 4)>>)>>

unpack_pdcp_params_ie ==
  <<Flags(<<"ext", "max_rohc_ctxts_present">>),
    Times(9, "supported_rohc_profiles", <<Fld("", 1)>>),
    When(On("max_rohc_ctxts_present"), <<Fld("max_rohc_ctxts", 4)>>), Ext("ext")>>

pack_phy_layer_params_ie ==
  <<Flags(<<"tx_antenna_selection_supported", "specific_ref_sigs_supported">>)>>

unpack_phy_layer_params_ie ==
  <<Flags(<<"tx_antenna_selection_supported", "specific_ref_sigs_supported">>)>>

pack_rf_params_ie ==
  <<Cnt("N_supported_band_eutras", 6, -1),
    Each("N_supported_band_eutras", "supported_band_eutra",
      <<Bias("band_eutra", 6, -1), Fld("half_duplex", 1)>>)>>

unpack_rf_params_ie ==
  <<Cnt("N_supported_band_eutras", 6, -1),
    Each("N_supported_band_eutras", "supported_band_eutra",
      <<Bias("band_eutra", 6, -1), Fld("half_duplex", 1)>>)>>

pack_band_info_eutra_ie ==
  <<Fill(0, 1), Cnt("N_inter_freq_need_for_gaps", 6, -1),
    Each("N_inter_freq_need_for_gaps", "inter_freq_need_for_gaps", <<Fld("", 1)>>)>>

unpack_band_info_eutra_ie ==
  <<Skip(1), Cnt("N_inter_freq_need_for_gaps", 6, -1),
    Each("N_inter_freq_need_for_gaps", "inter_freq_need_for_gaps", <<Fld("", 1)>>)>>

pack_meas_params_ie ==
  <<Cnt("N_band_list_eutra", 6, -1),
    Each("N_band_list_eutra", "band_list_eutra", <<Sub("", pack_band_info_eutra_ie)>>)>>

unpack_meas_params_ie ==
  <<Cnt("N_band_list_eutra", 6, -1),
    Each("N_band_list_eutra", "band_list_eutra", <<Sub("", unpack_band_info_eutra_ie)>>)>>

pack_inter_rat_params_ie == <<Fill(0, 7)>>

unpack_inter_rat_params_ie ==
  <<Put("utra_fdd_present", 0), Put("utra_tdd128_present", 0), Put("utra_tdd384_present", 0),
    Put("utra_tdd768_present", 0), Put("geran_present", 0), Put("cdma2000_hrpd_present", 0),
    Put("cdma2000_1xrtt_present", 0)>>

pack_ue_eutra_capability_ie ==
  <<Fld("feature_group_indicator_present", 1), Fill(0, 1), Fill(0, 1),
    Fld("access_stratum_release", 3), Bias("ue_category", 3, -1),
    Sub("pdcp_params", pack_pdcp_params_ie), Sub("phy_params", pack_phy_layer_params_ie),
    Sub("rf_params", pack_rf_params_ie), Sub("meas_params", pack_meas_params_ie),
    When(On("feature_group_indicator_present"), <<Fld("feature_group_indicator", 32)>>),
    Sub("inter_rat_params", pack_inter_rat_params_ie)>>

unpack_ue_eutra_capability_ie ==
  <<Flags(<<"feature_group_indicator_present", "ext">>), Skip(1), Fld("access_stratum_release", 3),
    Bias("ue_category", 3, -1), Sub("pdcp_params", unpack_pdcp_params_ie),
    Sub("phy_params", unpack_phy_layer_params_ie), Sub("rf_params", unpack_rf_params_ie),
    Sub("meas_params", unpack_meas_params_ie),
    When(On("feature_group_indicator_present"), <<Fld("feature_group_indicator", 32)>>),
    Sub("inter_rat_params", unpack_inter_rat_params_ie), Ext("ext")>>

pack_ue_timers_and_constants_ie ==
  <<Fill(0, 1), Fld("t300", 3), Fld("t301", 3), Enum("t310", 3, 7), Fld("n310", 3),
    Enum("t311", 3, 7), Fld("n311", 3)>>

unpack_ue_timers_and_constants_ie ==
  <<Fld("ext", 1), Fld("t300", 3), Fld("t301", 3), Enum("t310", 3, 7), Fld("n310", 3),
    Enum("t311", 3, 7), Fld("n311", 3), Ext("ext")>>

pack_next_hop_chaining_count_ie == <<Fld("", 3)>>

unpack_next_hop_chaining_count_ie == <<Fld("", 3)>>

pack_security_algorithm_config_ie ==
  <<Fill(0, 1), Fld("cipher_alg", 3), Fill(0, 1), Fld("int_alg", 3)>>

unpack_security_algorithm_config_ie == <<Skip(1), Fld("cipher_alg", 3), Skip(1), Fld("int_alg", 3)>>

pack_short_mac_i_ie == <<Fld("", 16)>>

unpack_short_mac_i_ie == <<Fld("", 16)>>

============================================================================
